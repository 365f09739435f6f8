------------------------------- MODULE Client -------------------------------
(***************************************************************************)
(* One player's game client: the sessions it opens, each on a network      *)
(* thread of its own, the frame loop that owns at most one of them, the    *)
(* probe and the fetch that bring back a game after a restart, and the     *)
(* seat the server keeps for the player meanwhile.                         *)
(*                                                                         *)
(* The frame and the network threads share a session's stop flag and its   *)
(* queue of events, which nobody reads once the frame has let the session  *)
(* go; a worker leaves what it finds unless its generation has passed,     *)
(* which is kept here as a flag of the worker.  A request reaches the      *)
(* server and its answer the client in steps of their own, and either may  *)
(* be lost.  The opponent, the clock and the board are the server's        *)
(* business: a seat waits, is paired, plays and is finished whenever it    *)
(* likes.  A game given up by a search before its first ply may refuse     *)
(* the search instead.                                                     *)
(***************************************************************************)
EXTENDS Integers, SequencesExt

CONSTANTS
    MaxSessions,    \* bound: OnlineClient objects
    MaxTokens,      \* bound: session tokens the server issues
    MaxDrops        \* bound: sockets that drop and servers that restart

ASSUME ClientAssumption ==
    MaxSessions \in Nat /\ MaxTokens \in Nat \ {0} /\ MaxDrops \in Nat

Sessions == 1..MaxSessions
Nothing == 0

VARIABLES
    seat,       \* the server: the player's room, its token, what it is doing
    issued,     \* tokens issued so far; a room goes by the token it was made with
    drops,      \* observer: sockets dropped and restarts so far
    run,        \* the OnlineClient objects, each with its network thread
    used,       \* OnlineClient objects made so far
    client,     \* OnlineCoordinator.client, or Nothing
    screen,     \* what the player is looking at
    button,     \* the menu shows Reconnect, as of the last refresh
    frame,      \* where the frame loop is: the player acts once, then one update
    pending,    \* _pending_reconnect
    probe,      \* the reclaim probe in flight
    fetch,      \* the resume worker of a reconnect
    answer      \* _reconnect_result

serverVars == <<seat, issued, drops>>
sessionVars == <<run, used>>
frameVars == <<client, screen, button, frame>>
probeVars == <<pending, probe, fetch, answer>>
vars == <<serverVars, sessionVars, frameVars, probeVars>>

-----------------------------------------------------------------------------
(* The server: the player's seat *)

NoSeat == [kind |-> "none", room |-> 0, token |-> 0, told |-> FALSE]
NoEntry == [room |-> 0, token |-> 0]
Active == {"paired", "playing", "finished"}
Holds(s) == seat.kind # "none" /\ run[s].room = seat.room /\ run[s].token = seat.token
Up(s) == run[s].wire = "up"
\* The server's registry: a socket open in the player's room.
InRoom(s) == Up(s) /\ run[s].room = seat.room
Present == \E s \in Sessions : InRoom(s)

\* An event for the frame to drain, if the frame still has the session.
Post(s, r, event) == IF s = client THEN [r EXCEPT !.inbound = Append(@, event)] ELSE r

\* What a frame to the player's socket does to the session that reads it.
Hear(s, r, event) ==
    Post(s, CASE event = "start" -> [r EXCEPT !.queued = FALSE, !.active = TRUE, !.post = FALSE]
              [] event = "result" -> [r EXCEPT !.active = FALSE, !.post = TRUE]
              [] OTHER -> r,
         event)

Tell(event) == [s \in Sessions |-> IF InRoom(s) THEN Hear(s, run[s], event) ELSE run[s]]

Pair ==
    /\ seat.kind = "queued"
    /\ seat' = [seat EXCEPT !.kind = "paired"]
    /\ UNCHANGED <<issued, drops, sessionVars, frameVars, probeVars>>

GameStarts ==
    /\ seat.kind = "paired" /\ Present
    /\ seat' = [seat EXCEPT !.kind = "playing", !.told = TRUE]
    /\ run' = Tell("start")
    /\ UNCHANGED <<issued, drops, used, frameVars, probeVars>>

GameEnds ==
    /\ seat.kind = "playing"
    /\ seat' = [seat EXCEPT !.kind = "finished"]
    /\ run' = Tell("result")
    /\ UNCHANGED <<issued, drops, used, frameVars, probeVars>>

\* A rematch may begin while the player's socket is away.
RematchStarts ==
    /\ seat.kind = "finished" /\ drops < MaxDrops
    /\ drops' = drops + 1
    /\ seat' = [seat EXCEPT !.kind = "playing", !.told = Present]
    /\ run' = Tell("start")
    /\ UNCHANGED <<issued, used, frameVars, probeVars>>

\* The rematch window closes, or the queue gives a waiting player up: both are longer
\* than the frame in which a search begins.
RoomGoes ==
    /\ seat.kind \in {"finished", "queued"} /\ frame # "update"
    /\ seat' = NoSeat
    /\ run' = Tell(IF seat.kind = "finished" THEN "closed" ELSE "timeout")
    /\ UNCHANGED <<issued, drops, used, frameVars, probeVars>>

Unplugged(S) == [s \in Sessions |-> IF s \in S THEN [run[s] EXCEPT !.wire = "down"] ELSE run[s]]
Wired == {s \in Sessions : Up(s)}
Displaced == {s \in Sessions : InRoom(s)}

ServerRestarts ==
    /\ drops < MaxDrops
    /\ drops' = drops + 1
    /\ seat' = NoSeat
    /\ run' = Unplugged(Wired)
    /\ UNCHANGED <<issued, used, frameVars, probeVars>>

\* The network lets go of the socket, or the client closes a silent one to start again.
SocketDrops ==
    /\ drops < MaxDrops
    /\ drops' = drops + 1
    /\ \E s \in Wired : run' = Unplugged({s})
    /\ UNCHANGED <<seat, issued, used, frameVars, probeVars>>

-----------------------------------------------------------------------------
(* The network thread of a session *)

Idle == [pc |-> "none", room |-> 0, token |-> 0, stop |-> FALSE, cancelling |-> FALSE,
         queued |-> FALSE, active |-> FALSE, post |-> FALSE, wire |-> "none",
         inbound |-> <<>>]

Live(s) == run[s].pc \notin {"none", "ended"}

Step(s, r) ==
    /\ run' = [run EXCEPT ![s] = r]
    /\ UNCHANGED <<drops, used, frameVars, probeVars>>

\* A thread that ends with a word to the frame, or without.
Ended(s) == [Idle EXCEPT !.pc = "ended", !.inbound = run[s].inbound]
EndsWith(s, event) == Post(s, Ended(s), event)

\* The thread makes its loop; from here on the frame can stop it.
Begin(s) ==
    /\ run[s].pc = "starting"
    /\ Step(s, [run[s] EXCEPT !.pc = IF run[s].active THEN "dialing" ELSE "asking"])
    /\ UNCHANGED <<seat, issued>>

\* post_matchmake gives up whatever the player held and seats them anew; a game that
\* was on ends with a result for whoever still listens, and no socket is closed.
Ask(s) ==
    /\ run[s].pc = "asking" /\ issued < MaxTokens /\ seat.kind # "paired"
    /\ issued' = issued + 1
    /\ seat' = [kind |-> "queued", room |-> issued', token |-> issued', told |-> FALSE]
    /\ run' = [IF seat.kind = "playing" THEN Tell("result") ELSE run
                 EXCEPT ![s].pc = "asked", ![s].room = issued', ![s].token = issued']
    /\ UNCHANGED <<drops, used, frameVars, probeVars>>

\* A paired game without a ply keeps its player, and the player is told so.
Refused(s) ==
    /\ run[s].pc = "asking" /\ seat.kind \in {"paired", "playing"}
    /\ Step(s, EndsWith(s, "refused"))
    /\ UNCHANGED <<seat, issued>>

Answered(s) ==
    /\ run[s].pc = "asked"
    /\ Step(s, [run[s] EXCEPT !.pc = "dialing", !.queued = TRUE])
    /\ UNCHANGED <<seat, issued>>

\* The request or its answer is lost; it is sent again a few times.
AskFails(s) ==
    /\ run[s].pc \in {"asking", "asked"}
    /\ \/ Step(s, EndsWith(s, "failed"))
       \/ run[s].pc = "asked" /\ Step(s, [run[s] EXCEPT !.pc = "asking"])
    /\ UNCHANGED <<seat, issued>>

\* Mutant of Greeting: the session is told of no result it has missed.
GreetingWithoutResult ==
    IF seat.kind = "playing" /\ ~seat.told THEN "start" ELSE "none"

\* What a socket is told as it opens: the result, or a start its player has missed.
Greeting ==
    IF seat.kind = "finished" THEN "result"
    ELSE IF seat.kind = "playing" /\ ~seat.told THEN "start" ELSE "none"

\* The socket opens; the server turns it away, or files it and closes the one before.
Dial(s) ==
    /\ run[s].pc = "dialing"
    /\ IF Holds(s)
       THEN /\ run' = [Unplugged(Displaced) EXCEPT ![s] =
                 LET r == [run[s] EXCEPT !.pc = "open", !.wire = "up"]
                 IN  IF Greeting = "none" THEN r ELSE Hear(s, r, Greeting)]
            /\ seat' = [seat EXCEPT !.told = @ \/ Greeting = "start"]
       ELSE /\ run' = [run EXCEPT ![s].pc = "open", ![s].wire = "down"]
            /\ UNCHANGED seat
    /\ UNCHANGED <<issued, drops, used, frameVars, probeVars>>

\* A socket that will not open ends the session, however much grace is left.
DialFails(s) ==
    /\ run[s].pc = "dialing" /\ drops < MaxDrops
    /\ drops' = drops + 1
    /\ run' = [run EXCEPT ![s] = EndsWith(s, "crashed")]
    /\ UNCHANGED <<seat, issued, used, frameVars, probeVars>>

\* Mutant of Notice: a stop is seen only once the socket is gone.
NoticeSocketOnly(s) ==
    /\ run[s].pc = "open" /\ run[s].wire = "down"
    /\ Step(s, IF ~run[s].stop /\ (run[s].active \/ run[s].post)
               THEN [run[s] EXCEPT !.pc = "resuming", !.wire = "none"]
               ELSE Ended(s))
    /\ UNCHANGED <<seat, issued>>

\* The socket is gone: a game, or the time after one, is worth coming back to.
Notice(s) ==
    /\ run[s].pc = "open" /\ (run[s].wire = "down" \/ run[s].stop)
    /\ Step(s, IF ~run[s].stop /\ (run[s].active \/ run[s].post)
               THEN [run[s] EXCEPT !.pc = "resuming", !.wire = "none"]
               ELSE Ended(s))
    /\ UNCHANGED <<seat, issued>>

\* A state fetched on the way back in; one of a game that is on brings its board with it.
Resumed(s) ==
    /\ run[s].pc = "resuming" /\ Holds(s)
    /\ LET r == [run[s] EXCEPT !.pc = "dialing"]
       IN  Step(s, IF seat.kind = "finished" THEN r ELSE Post(s, r, "running"))
    /\ UNCHANGED <<seat, issued>>

\* The server answers that there is nothing to come back to, and that it is well.
ResumeFatal(s) ==
    /\ run[s].pc = "resuming" /\ ~Holds(s)
    /\ Step(s, EndsWith(s, "lost"))
    /\ UNCHANGED <<seat, issued>>

\* The window runs out, or the player has left.
GiveUp(s) ==
    /\ run[s].pc = "resuming"
    /\ Step(s, EndsWith(s, "failed"))
    /\ UNCHANGED <<seat, issued>>

\* _cancel_async, on the session's own loop: the queued seat is given back, then all stops.
CancelRuns(s) ==
    /\ run[s].cancelling /\ Live(s)
    /\ Step(s, [run[s] EXCEPT !.cancelling = FALSE, !.queued = FALSE, !.stop = TRUE])
    /\ \/ UNCHANGED seat
       \/ /\ run[s].queued /\ Holds(s) /\ seat.kind = "queued"
          /\ seat' = NoSeat
    /\ UNCHANGED issued

-----------------------------------------------------------------------------
(* The frame loop: what the player does *)

\* The loop a stop has to reach runs only between the start and the end of the thread.
Reached(r) == r.pc \notin {"none", "starting", "ended"}
Disconnect(r) == IF Reached(r) THEN [r EXCEPT !.stop = TRUE] ELSE r
CancelQueue(r) == IF Reached(r) THEN [r EXCEPT !.cancelling = TRUE] ELSE r

Stopped(r, how) ==
    CASE how = "disconnect" -> Disconnect(r)
      [] how = "cancel" -> CancelQueue(r)
      [] how = "no" -> r

\* The frame lets go of its session one way or the other, and reads no more of its events.
LetGo(how) ==
    IF client = Nothing THEN run
    ELSE [run EXCEPT ![client] = [Stopped(@, how) EXCEPT !.inbound = <<>>]]

Open(sessions, r) ==
    /\ used < MaxSessions
    /\ used' = used + 1 /\ client' = used'
    /\ run' = [sessions EXCEPT ![used'] = r]

\* A worker whose generation has passed goes on, for nobody.
Retire(worker) == IF worker.alive THEN [worker EXCEPT !.stale = TRUE, !.entry = NoEntry]
                  ELSE worker

\* Mutant of OnServerAddrConnect: the fetch of a reconnect is not retired.
OnServerAddrConnectBesideFetch ==
    /\ Open(LetGo("disconnect"), [Idle EXCEPT !.pc = "starting"])
    /\ screen' = "waiting"
    /\ probe' = Retire(probe) /\ UNCHANGED fetch

OnServerAddrConnect ==
    /\ Open(LetGo("disconnect"), [Idle EXCEPT !.pc = "starting"])
    /\ screen' = "waiting"
    /\ probe' = Retire(probe) /\ fetch' = Retire(fetch)

\* At most one thing the player does is handled in a frame.
Acts(screens) == frame = "input" /\ screen \in screens /\ frame' = "update"

\* A search from the menu, or a new one out of the dialog of a failure.
Search ==
    /\ Acts({"menu", "dialog"})
    /\ OnServerAddrConnect
    /\ UNCHANGED <<serverVars, button, pending, answer>>

GoToMenu(how) ==
    /\ run' = LetGo(how)
    /\ client' = Nothing /\ screen' = "menu"
    /\ UNCHANGED <<serverVars, used, button, pending, probe, fetch, answer>>

\* The waiting card's Cancel.
OnOnlineCancel == Acts({"waiting"}) /\ GoToMenu("cancel")

\* Abandoning a game that will not come back, or leaving a board or a result for good.
Leave == Acts({"dialog", "board", "result"}) /\ GoToMenu("disconnect")

\* Back to the menu with the rematch window open.
RetainForRematch ==
    /\ Acts({"result"}) /\ client # Nothing
    /\ screen' = "menu"
    /\ UNCHANGED <<serverVars, sessionVars, client, button, probeVars>>

\* The menu's Reconnect button.
OnReconnectActiveGame ==
    /\ Acts({"menu"}) /\ button /\ pending # NoEntry
    /\ pending' = NoEntry /\ button' = FALSE
    /\ probe' = Retire(probe)
    /\ fetch' = [alive |-> TRUE, stale |-> FALSE, at |-> used, entry |-> pending]
    /\ UNCHANGED <<serverVars, sessionVars, client, screen, answer>>

OnServerTargetChanged ==
    /\ Acts({"menu"}) /\ drops < MaxDrops
    /\ drops' = drops + 1
    /\ pending' = NoEntry /\ button' = FALSE
    /\ probe' = Retire(probe) /\ fetch' = Retire(fetch)
    /\ UNCHANGED <<seat, issued, sessionVars, client, screen, answer>>

-----------------------------------------------------------------------------
(* The frame loop: one update *)

\* What an event does to the screen and to the session the frame has (how it is let go).
Handle(ui, event) ==
    CASE event = "start" -> [ui EXCEPT !.screen = "board"]
      [] event = "result" -> IF ui.screen = "board" THEN [ui EXCEPT !.screen = "result"] ELSE ui
      [] event = "running" -> IF ui.screen \in {"menu", "result"}
                              THEN [ui EXCEPT !.screen = "board"] ELSE ui
      [] event = "closed" -> [ui EXCEPT !.ends = "disconnect",
                                        !.screen = IF @ = "result" THEN @ ELSE "menu"]
      [] event = "timeout" -> [ui EXCEPT !.ends = "cancel", !.screen = "menu"]
      [] event \in {"lost", "failed"} -> [ui EXCEPT !.screen = "dialog"]
      [] OTHER -> ui

Handled == FoldLeft(Handle, [screen |-> screen, ends |-> "no"],
                    IF client = Nothing THEN <<>> ELSE run[client].inbound)

NoAnswer == [given |-> FALSE, ok |-> FALSE, at |-> 0, entry |-> NoEntry]

\* The events that are there are handled, and only then an answer is looked at: it is
\* adopted unless a session is there, and a refusal puts the offer back on the menu.
Update ==
    LET kept == IF Handled.ends = "no" THEN client ELSE Nothing
        released == LetGo(Handled.ends)
        e == answer.entry
    IN
    /\ frame # "refresh" /\ frame' = "refresh"
    /\ answer' = NoAnswer
    /\ IF answer.given /\ answer.ok /\ kept = Nothing /\ used < MaxSessions
       THEN /\ Open(released, [Idle EXCEPT !.pc = "starting", !.active = TRUE,
                                           !.room = e.room, !.token = e.token])
            /\ screen' = "board"
            /\ UNCHANGED pending
       ELSE /\ run' = released /\ client' = kept /\ screen' = Handled.screen
            /\ pending' = IF answer.given /\ ~answer.ok /\ kept = Nothing THEN e ELSE pending
            /\ UNCHANGED used
    /\ UNCHANGED <<serverVars, button, probe, fetch>>

NoProbe == [alive |-> FALSE, sent |-> FALSE, stale |-> FALSE, entry |-> NoEntry]

MayProbe ==
    /\ screen = "menu" /\ client = Nothing
    /\ ~probe.alive /\ ~fetch.alive
    /\ pending = NoEntry

\* _refresh_reconnect_button: every few seconds on the menu a probe goes out.
Refresh ==
    /\ frame = "refresh" /\ frame' = "input"
    /\ button' = (pending # NoEntry)
    /\ \/ UNCHANGED <<probe, fetch>>
       \/ /\ MayProbe
          /\ probe' = [alive |-> TRUE, sent |-> FALSE, stale |-> FALSE, entry |-> NoEntry]
          /\ fetch' = Retire(fetch)
    /\ UNCHANGED <<serverVars, sessionVars, client, screen, pending, answer>>

-----------------------------------------------------------------------------
(* The workers *)

\* Mutant of ProbeReclaims: the game is handed out with the token it already has.
ProbeReclaimsSameToken ==
    /\ probe.alive /\ ~probe.sent /\ seat.kind \in Active
    /\ run' = Unplugged(Displaced)
    /\ probe' = [probe EXCEPT !.sent = TRUE,
                               !.entry = IF probe.stale THEN NoEntry
                                         ELSE [room |-> seat.room, token |-> seat.token]]
    /\ UNCHANGED <<seat, issued, drops, used, frameVars, pending, fetch, answer>>

\* post_reclaim: a fresh token for the game there is, and its old socket is closed.
ProbeReclaims ==
    /\ probe.alive /\ ~probe.sent /\ seat.kind \in Active /\ issued < MaxTokens
    /\ issued' = issued + 1
    /\ seat' = [seat EXCEPT !.token = issued']
    /\ run' = Unplugged(Displaced)
    /\ probe' = [probe EXCEPT !.sent = TRUE,
                               !.entry = IF probe.stale THEN NoEntry
                                         ELSE [room |-> seat.room, token |-> issued']]
    /\ UNCHANGED <<drops, used, frameVars, pending, fetch, answer>>

\* Is the entry good for a state fetch?
Fetchable(entry) == entry.room = seat.room /\ entry.token = seat.token /\ seat.kind # "none"

\* The probe is back, with a game to rejoin or without.
ProbeEnds ==
    /\ probe.alive
    /\ probe' = NoProbe
    /\ IF probe.stale THEN UNCHANGED pending
       ELSE \/ /\ probe.sent /\ Fetchable(probe.entry)
               /\ pending' = probe.entry
            \/ pending' = NoEntry
    /\ UNCHANGED <<serverVars, sessionVars, frameVars, fetch, answer>>

NoFetch == [alive |-> FALSE, stale |-> FALSE, at |-> 0, entry |-> NoEntry]

\* _reconnect_resume_worker leaves its answer, unless its generation has gone.
FetchEnds ==
    /\ fetch.alive
    /\ fetch' = NoFetch
    /\ IF fetch.stale THEN UNCHANGED answer
       ELSE \E ok \in {FALSE, Fetchable(fetch.entry)} :
              answer' = [given |-> TRUE, ok |-> ok, at |-> fetch.at, entry |-> fetch.entry]
    /\ UNCHANGED <<serverVars, sessionVars, frameVars, pending, probe>>

-----------------------------------------------------------------------------

\* The app is started with a game it left still on the server, which may end any moment.
Init ==
    /\ seat = [kind |-> "playing", room |-> 1, token |-> 1, told |-> TRUE]
    /\ issued = 1 /\ drops = 0
    /\ run = [s \in Sessions |-> Idle] /\ used = 0
    /\ client = Nothing /\ screen = "menu" /\ button = FALSE /\ frame = "input"
    /\ pending = NoEntry
    /\ probe = NoProbe /\ fetch = NoFetch /\ answer = NoAnswer

Thread(s) ==
    \/ Begin(s) \/ Ask(s) \/ Refused(s) \/ Answered(s) \/ AskFails(s)
    \/ Dial(s) \/ DialFails(s) \/ Notice(s)
    \/ Resumed(s) \/ ResumeFatal(s) \/ GiveUp(s) \/ CancelRuns(s)

Next ==
    \/ Pair \/ GameStarts \/ GameEnds \/ RematchStarts \/ RoomGoes
    \/ ServerRestarts \/ SocketDrops
    \/ \E s \in Sessions : Thread(s)
    \/ Search \/ OnOnlineCancel \/ Leave \/ RetainForRematch
    \/ OnReconnectActiveGame \/ OnServerTargetChanged
    \/ Update \/ Refresh
    \/ ProbeReclaims \/ ProbeEnds \/ FetchEnds

Spec == Init /\ [][Next]_vars

\* The thread of a session goes on with what it is at, and a cancel gets its turn on it.
Progress(s) ==
    \/ Begin(s) \/ Ask(s) \/ Refused(s) \/ Answered(s) \/ AskFails(s)
    \/ Dial(s) \/ DialFails(s) \/ Notice(s)
    \/ Resumed(s) \/ ResumeFatal(s) \/ GiveUp(s)

FairSpec == Spec /\ \A s \in Sessions : WF_vars(Progress(s)) /\ WF_vars(CancelRuns(s))

-----------------------------------------------------------------------------
(* Properties *)

Seats == [kind : {"none", "queued", "paired", "playing", "finished"},
          room : 0..MaxTokens, token : 0..MaxTokens, told : BOOLEAN]

Threads == {"none", "starting", "asking", "asked", "dialing", "open", "resuming", "ended"}

\* The state of the server's seat, of the sessions, of the frame and of the workers.
TypeOK ==
    /\ seat \in Seats
    /\ issued \in 0..MaxTokens /\ drops \in 0..MaxDrops
    /\ \A s \in Sessions :
         /\ run[s].pc \in Threads /\ (run[s].pc = "none" <=> s > used)
         /\ run[s].room \in 0..MaxTokens /\ run[s].token \in 0..MaxTokens
         /\ run[s].wire \in {"none", "up", "down"}
         /\ {run[s].stop, run[s].cancelling, run[s].queued,
             run[s].active, run[s].post} \subseteq BOOLEAN
    /\ used \in 0..MaxSessions /\ client \in 0..used
    /\ screen \in {"menu", "waiting", "board", "result", "dialog"}
    /\ button \in BOOLEAN /\ frame \in {"input", "update", "refresh"}
    /\ {pending, probe.entry, fetch.entry, answer.entry}
         \subseteq [room : 0..MaxTokens, token : 0..MaxTokens]

\* While its socket is open, a session knows whether there is a game to come back to,
\* however many starts and results fell between two of its sockets: only that makes it
\* come back when the socket drops.
FlagsFollowServer ==
    \A s \in Sessions : Up(s) /\ Holds(s) =>
        /\ seat.kind = "playing" => run[s].active /\ ~run[s].post
        /\ seat.kind = "finished" => run[s].post /\ ~run[s].active

\* A seat has one session, however long the threads of those the player left take to
\* end: none of them can open a socket that displaces the one the player has come back
\* with, for a token is never handed out twice.
SeatHasOneSession ==
    \A s, t \in Sessions : Holds(s) /\ Holds(t) => s = t

\* The answer of a reconnect takes the screen only if the player has begun nothing since
\* the press, a search that was cancelled again included.
TakesOverNothing ==
    [][answer.given /\ answer.ok /\ answer'.given = FALSE /\ used' # used
         => used = answer.at]_vars

\* Told to stop, and its thread has not ended yet.
Leaving(s) == run[s].stop \/ run[s].cancelling

\* Sessions that are told to stop while their threads run do end, whatever their sockets,
\* the server and the other workers do meanwhile.
LeavingEnds == (\E s \in Sessions : Leaving(s)) ~> (\A s \in Sessions : ~Leaving(s))

\* ClientReason.ROOM_LOST is documented as "the room is gone although the server is up".
RoomLostIsTrue ==
    [][\A s \in Sessions : ResumeFatal(s) => seat.room # run[s].room]_vars
=============================================================================
