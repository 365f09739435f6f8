-------------------------------- MODULE Sync --------------------------------
(***************************************************************************)
(* How one player's board follows the server's: news of plies and          *)
(* takebacks on the socket, own moves shown before the server has taken    *)
(* them, heartbeats that carry the client's ply, the server's order to     *)
(* rebuild a drifted board, the rebuild from a snapshot fetched over HTTP  *)
(* while the socket goes on, and a dropped socket with what is lost on it. *)
(*                                                                         *)
(* The game is under way, on the board and without skill checks: every     *)
(* move is legal for the side to move, and two moves differ or not.  The   *)
(* client's network thread and its frame are one: whatever waits in the    *)
(* event queue of the client counts as still on its way.  What the         *)
(* opponent is told of a resync (desync_active) is presentation and left   *)
(* out.                                                                    *)
(***************************************************************************)
EXTENDS Integers, SequencesExt

CONSTANTS
    Marks,      \* what two moves can look like
    Mine,       \* the client moves when the ply count is Mine modulo 2
    Openings,   \* boards the model starts from, the same on both sides
    Window,     \* HISTORY_CHANGE_WINDOW: changes the server remembers at most
    MaxPlies,   \* bound: plies on a board
    MaxChanges, \* bound: changes of the server's history
    MaxDrops,   \* bound: sockets that drop
    MaxFetches  \* bound: state fetches under way at once

ASSUME SyncAssumption ==
    /\ Mine \in {0, 1}
    /\ Openings \subseteq Seq(Marks)
    /\ \A h \in Openings : Len(h) <= MaxPlies
    /\ MaxPlies \in Nat /\ MaxChanges \in Nat /\ MaxDrops \in Nat /\ MaxFetches \in Nat \ {0}

ASSUME WindowAssumption == Window \in Nat \ {0}

NoMark == "none"
Nobody == "nobody"
Strikes == 2            \* RESYNC_STABLE_MISMATCH_HEARTBEATS

VARIABLES
    hist,       \* Backend.move_history on the server
    asked,      \* Room.takeback_offered_by, as "client" or "opponent"
    made,       \* observer: changes of the history so far
    fresh,      \* Room.history_changes still in their grace: the length before each of them
    strikes,    \* PlayerSlot.ply_mismatch_streak
    shut,       \* the gate on directives is closed
    view,       \* the client: its board, _resyncing, _resync_buffer, the takeback banner
    fetches,    \* _fetch_state_sync coroutines under way
    link,       \* the client's socket: open, closed, or resumed and about to open
    resumed,    \* the snapshot a reconnect has fetched
    outbox,     \* frames queued while there is no socket
    up,         \* frames on their way to the server
    down,       \* frames on their way to the client
    drops       \* observer: sockets dropped so far

serverVars == <<hist, asked, made, fresh, strikes, shut>>
clientVars == <<view, fetches, outbox>>
linkVars == <<link, resumed, drops>>
vars == <<serverVars, clientVars, linkVars, up, down>>

MyTurn(board) == Len(board) % 2 = Mine

Frame(kind, ply, mark) == [kind |-> kind, ply |-> ply, mark |-> mark]
IsChange(f) == f.kind \in {"move", "back"}
Changes(q) == {i \in DOMAIN q : IsChange(q[i])}
MovesIn(q) == {i \in DOMAIN q : q[i].kind = "move"}

\* A broadcast or an answer reaches the client's socket, if there is one.
Tell(frames) == down' = IF link = "open" THEN down \o frames ELSE <<>>

-----------------------------------------------------------------------------
(* The client's board *)

Begin(v) == [v EXCEPT !.syncing = TRUE, !.banner = @ /\ v.syncing]

Hold(v, f) == [v EXCEPT !.held = Append(@, f)]

\* The client's own ply coming back: the same number and the same squares.
Echo(board, f) == f.ply = Len(board) /\ board # <<>> /\ Last(board) = f.mark

OnMove(v, f) ==
    IF v.syncing THEN Hold(v, f)
    ELSE IF Echo(v.board, f) THEN [v EXCEPT !.banner = FALSE]
    ELSE IF f.ply # Len(v.board) + 1 THEN Begin(v)
    ELSE [v EXCEPT !.board = Append(@, f.mark), !.banner = FALSE]

OnTakeback(v, f) ==
    IF v.syncing THEN Hold(v, f)
    ELSE IF f.ply # Len(v.board) - 1 THEN Begin(v)
    ELSE [v EXCEPT !.board = Front(@)]

\* Mutant of OnDirective: only a client behind the server's ply rebuilds.
OnDirectiveIfBehind(v, f) == IF v.syncing \/ f.ply <= Len(v.board) THEN v ELSE Begin(v)

OnDirective(v, f) == IF v.syncing \/ f.ply = Len(v.board) THEN v ELSE Begin(v)

On(v, f) ==
    CASE f.kind = "move" -> OnMove(v, f)
      [] f.kind = "back" -> OnTakeback(v, f)
      [] f.kind = "order" -> OnDirective(v, f)
      [] f.kind = "rejected" -> Begin(v)
      [] f.kind = "asks" -> [v EXCEPT !.banner = TRUE]
      [] f.kind = "pong" -> v

\* Does a frame held back still have something to add to the board?
Fits(board, f) == IF f.kind = "move" THEN f.ply > Len(board) ELSE f.ply = Len(board) - 1

\* A replay goes on with what fits, until it has to start another resync.
Replay(v, f) == IF v.syncing \/ Fits(v.board, f) THEN On(v, f) ELSE v

\* Mutants of EndResync: the held frames are kept for later, or thrown away.
EndResyncKeeping(v) == FoldLeft(Replay, [v EXCEPT !.syncing = FALSE], v.held)

EndResyncForgetting(v) == [v EXCEPT !.syncing = FALSE, !.held = <<>>]

\* The resync ends; should a replay start another, what remains is held again.
EndResync(v) == FoldLeft(Replay, [v EXCEPT !.syncing = FALSE, !.held = <<>>], v.held)

Adopt(v, snapshot) == EndResync([v EXCEPT !.board = snapshot])

NotYet == [answered |-> FALSE, snapshot |-> <<>>]

\* The view becomes v, and a resync that has begun on the way fetches the state.
Become(v, running, begins) ==
    /\ begins => Len(running) < MaxFetches
    /\ view' = v
    /\ fetches' = IF begins THEN Append(running, NotYet) ELSE running

-----------------------------------------------------------------------------
(* The server's board *)

\* The oldest change is forgotten for the new one when there is no place for both.
Remembered == IF Len(fresh) < Window THEN fresh ELSE Tail(fresh)

Changed(board, frame) ==
    /\ hist' = board
    /\ asked' = Nobody
    /\ made' = made + 1
    /\ fresh' = Append(Remembered, Len(hist))

Land(mark) == Changed(Append(hist, mark), "move")
News(kind, mark) == Frame(kind, Len(hist'), mark)

\* Plies and takebacks that are still to come are counted against the bound.
Room == made + Cardinality(MovesIn(up \o outbox)) < MaxChanges

OpponentMoves(mark) ==
    /\ Room /\ ~MyTurn(hist) /\ Len(hist) < MaxPlies
    /\ Land(mark)
    /\ Tell(<<News("move", mark)>>)
    /\ UNCHANGED <<strikes, shut, clientVars, linkVars, up>>

\* Only the player who is not to move may ask, and there is a ply to take back.
OpponentAsks ==
    /\ Room /\ MyTurn(hist) /\ hist # <<>>
    /\ asked # "opponent"
    /\ asked' = "opponent"
    /\ Tell(<<Frame("asks", 0, NoMark)>>)
    /\ UNCHANGED <<hist, made, fresh, strikes, shut, clientVars, linkVars, up>>

Undo ==
    /\ Changed(Front(hist), "back")
    /\ Tell(<<News("back", NoMark)>>)

OpponentAccepts ==
    /\ Room /\ asked = "client"
    /\ Undo
    /\ UNCHANGED <<strikes, shut, clientVars, linkVars, up>>

\* handle_move: a move out of turn is refused; one that lands proves its player caught up.
TakeMove(f) ==
    IF MyTurn(hist)
    THEN /\ Land(f.mark)
         /\ strikes' = 0
         /\ Tell(<<News("move", f.mark)>>)
         /\ UNCHANGED shut
    ELSE /\ Tell(<<Frame("rejected", 0, NoMark)>>)
         /\ UNCHANGED serverVars

TakeRequest ==
    /\ IF ~MyTurn(hist) /\ hist # <<>> THEN asked' = "client" ELSE UNCHANGED asked
    /\ Tell(<<>>)
    /\ UNCHANGED <<hist, made, fresh, strikes, shut>>

TakeAnswer ==
    IF asked = "opponent" /\ hist # <<>>
    THEN Undo /\ UNCHANGED <<strikes, shut>>
    ELSE Tell(<<>>) /\ UNCHANGED serverVars

\* Mutant of InTransit: no grace for the news.
InTransitNever(ply) == FALSE

InTransit(ply) == \E i \in DOMAIN fresh : fresh[i] = ply

\* handle_ping: a heartbeat is judged by its ply alone.
TakePing(f) ==
    LET caughtUp == f.ply = Len(hist) \/ InTransit(f.ply)
        streak == IF strikes < Strikes THEN strikes + 1 ELSE strikes
        directs == ~caughtUp /\ streak = Strikes /\ ~shut
    IN  /\ strikes' = IF caughtUp \/ directs THEN 0 ELSE streak
        /\ shut' = (shut \/ directs)
        /\ Tell(<<Frame("pong", 0, NoMark)>>
                  \o IF directs THEN <<Frame("order", Len(hist), NoMark)>> ELSE <<>>)
        /\ UNCHANGED <<hist, asked, made, fresh>>

\* The server takes the next frame of the client's session.
Receive ==
    /\ up # <<>>
    /\ up' = Tail(up)
    /\ LET f == Head(up)
       IN  \/ f.kind = "move" /\ TakeMove(f)
           \/ f.kind = "request" /\ TakeRequest
           \/ f.kind = "answer" /\ TakeAnswer
           \/ f.kind = "ping" /\ TakePing(f)
    /\ UNCHANGED <<clientVars, linkVars>>

GateOpens ==
    /\ shut
    /\ shut' = FALSE
    /\ UNCHANGED <<hist, asked, made, fresh, strikes, clientVars, linkVars, up, down>>

\* The grace of a change outlasts its news and the heartbeats sent before the news came.
GraceEnds ==
    /\ fresh # <<>>
    /\ LET oldest == made - Len(fresh) + 1
       IN  /\ made - Cardinality(Changes(down)) >= oldest
           /\ \A i \in DOMAIN up : up[i].kind = "ping" => up[i].told >= oldest
    /\ fresh' = Tail(fresh)
    /\ UNCHANGED <<hist, asked, made, strikes, shut, clientVars, linkVars, up, down>>

-----------------------------------------------------------------------------
(* The client *)

Send(frame) ==
    IF link = "open" THEN up' = Append(up, frame) /\ UNCHANGED outbox
                     ELSE outbox' = Append(outbox, frame) /\ UNCHANGED up

\* A move of the player's is on the board before the server has it, resync or not.
MyMove(mark) ==
    /\ Room /\ MyTurn(view.board) /\ Len(view.board) < MaxPlies
    /\ view' = [view EXCEPT !.board = Append(@, mark), !.banner = FALSE]
    /\ Send(Frame("move", 0, mark))
    /\ UNCHANGED <<serverVars, fetches, linkVars, down>>

Asking(q) == \E i \in DOMAIN q : q[i].kind = "request"

MyRequest ==
    /\ Room /\ ~MyTurn(view.board) /\ view.board # <<>>
    /\ asked # "client" /\ ~Asking(up \o outbox)
    /\ Send(Frame("request", 0, NoMark))
    /\ UNCHANGED <<serverVars, view, fetches, linkVars, down>>

MyAnswer ==
    /\ view.banner
    /\ view' = [view EXCEPT !.banner = FALSE]
    /\ Send(Frame("answer", 0, NoMark))
    /\ UNCHANGED <<serverVars, fetches, linkVars, down>>

\* The client is rebuilding, or is not where the news on its way will leave the server.
Behind ==
    LET v == FoldLeft(On, view, down)
    IN  v.syncing \/ Len(v.board) # Len(hist) \/ MovesIn(up) # {}

\* A heartbeat follows the last one's answer: its interval is longer than a round trip.
Ping ==
    /\ link = "open"
    /\ \A i \in DOMAIN up : up[i].kind # "ping"
    /\ \A i \in DOMAIN down : down[i].kind # "pong"
    /\ up' = Append(up, [kind |-> "ping", ply |-> Len(view.board), mark |-> NoMark,
                         told |-> made - Cardinality(Changes(down)), behind |-> Behind])
    /\ UNCHANGED <<serverVars, clientVars, linkVars, down>>

Deliver ==
    /\ down # <<>>
    /\ down' = Tail(down)
    /\ LET v == On(view, Head(down)) IN Become(v, fetches, v.syncing /\ ~view.syncing)
    /\ UNCHANGED <<serverVars, outbox, linkVars, up>>

\* post_resume serves the state as it is, and spends the strikes.
Serve(i) ==
    /\ ~fetches[i].answered
    /\ fetches' = [fetches EXCEPT ![i] = [answered |-> TRUE, snapshot |-> hist]]
    /\ strikes' = 0
    /\ UNCHANGED <<hist, asked, made, fresh, shut, view, outbox, linkVars, up, down>>

\* The answer of a fetch comes in, whatever has happened since it was asked for.
Fetched(i) ==
    /\ fetches[i].answered
    /\ LET v == Adopt(view, fetches[i].snapshot) IN Become(v, RemoveAt(fetches, i), v.syncing)
    /\ UNCHANGED <<serverVars, outbox, linkVars, up, down>>

-----------------------------------------------------------------------------
(* The socket *)

Drop ==
    /\ link = "open" /\ drops < MaxDrops
    /\ link' = "closed"
    /\ drops' = drops + 1
    /\ down' = <<>>
    /\ UNCHANGED <<serverVars, clientVars, resumed, up>>

\* A resync that will not land is given up for a reconnect.
Timeout ==
    /\ view.syncing /\ link = "open" /\ drops < MaxDrops
    /\ LET v == EndResync(view) IN Become(v, fetches, v.syncing)
    /\ link' = "closed"
    /\ drops' = drops + 1
    /\ down' = <<>>
    /\ UNCHANGED <<serverVars, outbox, resumed, up>>

\* What was sent on the old socket may still arrive, or be lost.
Lose ==
    /\ link # "open" /\ up # <<>>
    /\ up' = <<>>
    /\ UNCHANGED <<serverVars, clientVars, linkVars, down>>

Resume ==
    /\ link = "closed"
    /\ link' = "resumed"
    /\ resumed' = hist
    /\ strikes' = 0
    /\ UNCHANGED <<hist, asked, made, fresh, shut, clientVars, drops, up, down>>

\* The new socket opens; the snapshot is ahead of its frames, and what was queued goes out.
Connect ==
    /\ link = "resumed"
    /\ link' = "open"
    /\ LET v == Adopt(view, resumed) IN Become(v, fetches, v.syncing)
    /\ strikes' = 0
    /\ resumed' = <<>>
    /\ up' = outbox
    /\ outbox' = <<>>
    /\ UNCHANGED <<hist, asked, made, fresh, shut, drops, down>>

-----------------------------------------------------------------------------

Init ==
    /\ hist \in Openings
    /\ asked = Nobody /\ made = 0 /\ fresh = <<>> /\ strikes = 0 /\ shut = FALSE
    /\ view = [board |-> hist, syncing |-> FALSE, held |-> <<>>, banner |-> FALSE]
    /\ fetches = <<>> /\ outbox = <<>> /\ up = <<>> /\ down = <<>>
    /\ link = "open" /\ resumed = <<>> /\ drops = 0

Next ==
    \/ \E mark \in Marks : OpponentMoves(mark) \/ MyMove(mark)
    \/ OpponentAsks \/ OpponentAccepts
    \/ Receive \/ GateOpens \/ GraceEnds
    \/ MyRequest \/ MyAnswer \/ Ping \/ Deliver
    \/ \E i \in DOMAIN fetches : Serve(i) \/ Fetched(i)
    \/ Drop \/ Timeout \/ Lose \/ Resume \/ Connect

\* The network delivers, the client beats, a closed socket is opened again; nobody has to
\* move, ask or answer, and no socket has to drop.
Fairness ==
    /\ WF_vars(Receive) /\ WF_vars(Deliver) /\ WF_vars(Ping)
    /\ WF_vars(GateOpens) /\ WF_vars(GraceEnds)
    /\ WF_vars(\E i \in DOMAIN fetches : Serve(i)) /\ WF_vars(\E i \in DOMAIN fetches : Fetched(i))
    /\ WF_vars(Resume) /\ WF_vars(Connect)

Spec == Init /\ [][Next]_vars
FairSpec == Spec /\ Fairness

-----------------------------------------------------------------------------
(* Properties *)

\* The boards are boards, nothing is held but for a resync, and a resync is waiting for a
\* fetch; both ways carry only what the other side takes, and only changes are held.
Moves == [kind : {"move"}, ply : Nat, mark : Marks]
Words(kinds) == [kind : kinds, ply : Nat, mark : {NoMark}]
Held == Moves \cup Words({"back"})
Heard == Moves \cup Words({"back", "order", "rejected", "asks", "pong"})
Sent == Moves \cup Words({"request", "answer"})
Pings == [kind : {"ping"}, ply : Nat, mark : {NoMark}, told : Nat, behind : BOOLEAN]
TypeOK ==
    /\ hist \in Seq(Marks)
    /\ asked \in {Nobody, "client", "opponent"}
    /\ made \in Nat /\ fresh \in Seq(Nat) /\ Len(fresh) <= made /\ Len(fresh) <= Window
    /\ strikes \in 0..Strikes /\ shut \in BOOLEAN
    /\ view \in [board : Seq(Marks), syncing : BOOLEAN, held : Seq(Held), banner : BOOLEAN]
    /\ view.held # <<>> => view.syncing
    /\ fetches \in Seq([answered : BOOLEAN, snapshot : Seq(Marks)])
    /\ view.syncing => fetches # <<>>
    /\ link \in {"open", "closed", "resumed"} /\ resumed \in Seq(Marks) /\ drops \in 0..MaxDrops
    /\ outbox \in Seq(Sent) /\ up \in Seq(Sent \cup Pings) /\ down \in Seq(Heard)

Quiet ==
    /\ link = "open" /\ ~view.syncing /\ fetches = <<>>
    /\ \A i \in DOMAIN down : ~IsChange(down[i]) /\ down[i].kind \notin {"rejected", "order"}
    /\ MovesIn(up) = {}

\* game.py on_remote_move, on_takeback and the resync gate: on a socket that never dropped,
\* whatever crossed whatever, a client with nothing left to hear has the server's board.
NothingMissed == drops = 0 /\ Quiet => view.board = hist

\* handle_ping calls a client that names the server's own ply caught up, and never anything else.
SamePlySameBoard == Quiet /\ Len(view.board) = Len(hist) => view.board = hist

\* handle_ping: an order to rebuild answers a heartbeat of a client that was rebuilding or wrong
\* when it sent it, never one that had only crossed the news, unless the news it crossed is more
\* than the server remembers.
OrdersAreEarned == [][shut' /\ ~shut => Head(up).behind \/ made - Head(up).told > Window]_vars

\* The heartbeat, the order and the rebuild together: when the players have stopped, the
\* client comes to the server's ply and stays there.
CatchesUp == <>[](~view.syncing /\ Len(view.board) = Len(hist))
=============================================================================
