------------------------------ MODULE Sessions ------------------------------
(***************************************************************************)
(* The sockets of one paired room: how a session authenticates, displaces  *)
(* an older one, hears of the start and leaves; how a broadcast reaches    *)
(* both players and marks the ones it could not reach; and how a rematch   *)
(* swaps the seats under all of it.                                        *)
(*                                                                         *)
(* A socket is filed under its owner, frames are addressed by colour, and  *)
(* every send may suspend: a task is one coroutine suspended in its sends. *)
(* How a game ends and a rematch is agreed belongs to GameRoom; here both  *)
(* may happen whenever a session that can ask for them is reading.         *)
(* Heartbeat timeouts, which also mark a player away, are GameRoom's too.  *)
(***************************************************************************)
EXTENDS Integers

CONSTANTS
    A, B,           \* the two client_uuids
    Tasks,          \* identities of the coroutines that may be sending at once
    MaxSockets,     \* bound: sockets opened in all
    MaxGames        \* bound: games played in the room

ASSUME PlayersAssumption == A # B
ASSUME BoundsAssumption == MaxSockets \in Nat \ {0} /\ MaxGames \in Nat \ {0}

Players == {A, B}
Colors == {"white", "black"}
Other(p) == IF p = A THEN B ELSE A
Sockets == 1..MaxSockets
NoSocket == 0
Opposite(c) == IF c = "white" THEN "black" ELSE "white"
Kinds == {"start", "catchup", "move", "note"}
Steps == {"white", "black", "tell", "done"}

VARIABLES
    white,      \* the player in the white seat
    game,       \* observer: the number of the game in the room
    over,       \* Room.result is set
    offered,    \* Room.rematch_offered_by, as players
    announced,  \* Room.game_start_broadcast
    told,       \* PlayerSlot.game_start_sent
    heard,      \* observer: the game and the colour of the start frame p last got
    opened,     \* sockets the player has authenticated so far
    alive,      \* sockets over which a frame still goes out
    session,    \* where the session of each socket is
    auth,       \* auth_color: the colour the session authenticated with
    filed,      \* ConnectionRegistry: the player's current socket
    connected,  \* PlayerSlot.connected
    task,       \* the sends in flight
    endedBy     \* observer: the game whose board ended the one in the room

roomVars == <<white, game, over, offered, announced, endedBy>>
slotVars == <<told, heard, connected>>
sockVars == <<opened, alive, session, auth, filed>>
vars == <<roomVars, slotVars, sockVars, task>>

Seat(c) == IF c = "white" THEN white ELSE Other(white)
ColorOf(p) == IF p = white THEN "white" ELSE "black"

\* One coroutine: what it sends, by which session if any, which board it captured and
\* whether that board is decided, the colour a catch-up names, the socket it sends to
\* for each colour, if any, and the colours whose send failed.  White's turn is first.
Sending(kind, by, board, decided, color, to) ==
    [kind |-> kind, at |-> "white", by |-> by, board |-> board, decided |-> decided,
     color |-> color, to |-> to, failed |-> {}]
First(target) == [c \in Colors |-> IF c = "white" THEN target ELSE {}]
Idle == [kind |-> "note", at |-> "done", by |-> {}, board |-> 0, decided |-> FALSE,
         color |-> "white", to |-> First({}), failed |-> {}]

Free(t) == task[t].at = "done"
Target(c) == IF filed[Seat(c)] = NoSocket THEN {} ELSE {<<Seat(c), filed[Seat(c)]>>}
Reaches(target) == target = {} \/ \E x \in target : alive[x[1]][x[2]]
BothFiled == \A p \in Players : filed[p] # NoSocket

Init ==
    /\ white \in Players /\ game = 1 /\ over = FALSE /\ offered = {} /\ announced = FALSE
    /\ told = [p \in Players |-> FALSE] /\ heard = [p \in Players |-> [game |-> 0, color |-> "white"]]
    /\ opened = [p \in Players |-> 0]
    /\ alive = [p \in Players |-> [s \in Sockets |-> FALSE]]
    /\ session = [p \in Players |-> [s \in Sockets |-> "none"]]
    /\ auth = [p \in Players |-> [s \in Sockets |-> "white"]]
    /\ filed = [p \in Players |-> NoSocket]
    /\ connected = [p \in Players |-> FALSE]
    /\ task = [t \in Tasks |-> Idle]
    /\ endedBy = 0

-----------------------------------------------------------------------------
(* Sends *)

\* broadcast: the sockets are captured before the first send.
Broadcast(t, kind, by, decided) ==
    task' = [task EXCEPT ![t] =
        Sending(kind, by, game, decided, "white", [c \in Colors |-> Target(c)])]

\* broadcast_game_start: the frame is made and its socket looked up when the
\* colour's turn comes, here for white in the room as the step leaves it.
Announce(t, p, s) ==
    task' = [task EXCEPT ![t] =
        Sending("start", {<<p, s>>}, game', FALSE, "white", First(Target("white")'))]

\* The session that ran the task goes on to read its next frame.
Resume(t) ==
    session' = [p \in Players |-> [s \in Sockets |->
        IF <<p, s>> \in task[t].by THEN "reading" ELSE session[p][s]]]

\* The coroutine ends.  For a ply that decided its board _apply_move ends the
\* room's game last, unless it has a result already.
Finish(t) ==
    /\ IF task[t].kind = "move" /\ task[t].decided /\ ~over
       THEN over' = TRUE /\ endedBy' = task[t].board
       ELSE UNCHANGED <<over, endedBy>>
    /\ Resume(t)
    /\ task' = [task EXCEPT ![t] = Idle]

\* Mutant: whatever socket is filed goes, the failed one or its replacement.
UnfileAny(lost, to) ==
    filed' = [p \in Players |-> IF ColorOf(p) \in lost THEN NoSocket ELSE filed[p]]

\* ConnectionRegistry.remove for a set of captured sockets, by their owners' colours:
\* only while that very socket is still filed.
Unfile(lost, to) ==
    filed' = [p \in Players |->
        IF ColorOf(p) \in lost /\ <<p, filed[p]>> \in to[ColorOf(p)]
        THEN NoSocket ELSE filed[p]]

\* Mutant: a colour whose opponent failed as well is skipped before it is marked.
MarkOneAway(lost) ==
    connected' = [p \in Players |-> connected[p] /\ (ColorOf(p) \notin lost \/ lost = Colors)]

\* mark_disconnected, by colour
MarkAway(lost) ==
    connected' = [p \in Players |-> connected[p] /\ ColorOf(p) \notin lost]

\* The send to white returns.
SentWhite(t) ==
    /\ task[t].kind \in {"move", "note"} /\ task[t].at = "white"
    /\ task' = [task EXCEPT ![t].at = "black",
                   ![t].failed = IF Reaches(task[t].to["white"]) THEN {} ELSE {"white"}]
    /\ UNCHANGED <<roomVars, slotVars, sockVars>>

\* The send to black returns: the failed colours are unregistered and marked.  The
\* seats are looked up again, the sockets are the captured ones.  If one of the two
\* is still reached it is told of the other.
SentBlack(t) ==
    /\ task[t].kind \in {"move", "note"} /\ task[t].at = "black"
    /\ LET lost == task[t].failed \cup
                     IF Reaches(task[t].to["black"]) THEN {} ELSE {"black"} IN
       /\ Unfile(lost, task[t].to)
       /\ MarkAway(lost)
       /\ IF \E c \in lost : Opposite(c) \notin lost /\ filed[Seat(Opposite(c))] # NoSocket
          THEN /\ task' = [task EXCEPT ![t].at = "tell", ![t].failed = lost]
               /\ UNCHANGED <<over, endedBy, session>>
          ELSE Finish(t)
    /\ UNCHANGED <<white, game, offered, announced, told, heard, opened, alive, auth>>

TellSent(t) ==
    /\ task[t].at = "tell"
    /\ Finish(t)
    /\ UNCHANGED <<white, game, offered, announced, slotVars, opened, alive, auth, filed>>

\* Mutant: the seat counts as told before the frame is known to have gone out.
ToldBeforehand(target, board, color) ==
    /\ told' = [p \in Players |-> told[p] \/ \E x \in target : x[1] = p]
    /\ heard' = [p \in Players |->
          IF \E x \in target : x[1] = p /\ alive[p][x[2]]
          THEN [game |-> board, color |-> color] ELSE heard[p]]

\* A start frame made for the captured game goes out or fails; the seat is
\* marked as told if it went out.
Told(target, board, color) ==
    LET who == {x[1] : x \in {y \in target : alive[y[1]][y[2]]}} IN
    /\ told' = [p \in Players |-> told[p] \/ p \in who]
    /\ heard' = [p \in Players |-> IF p \in who THEN [game |-> board, color |-> color]
                                   ELSE heard[p]]

StartSent(t) ==
    /\ task[t].kind = "start" /\ task[t].at \in Colors
    /\ Told(task[t].to[task[t].at], task[t].board, task[t].at)
    /\ IF task[t].at = "white"
       THEN /\ task' = [task EXCEPT ![t].at = "black", ![t].board = game,
                                    ![t].to["black"] = Target("black")]
            /\ UNCHANGED <<announced, session>>
       ELSE /\ announced' = TRUE
            /\ Resume(t)
            /\ task' = [task EXCEPT ![t] = Idle]
    /\ UNCHANGED <<white, game, over, offered, endedBy, connected, opened, alive, auth, filed>>

\* The copy of the start handed to a socket that arrived after it.
CatchupSent(t) ==
    /\ task[t].kind = "catchup" /\ task[t].at = "white"
    /\ Told(task[t].to["white"], task[t].board, task[t].color)
    /\ Resume(t)
    /\ task' = [task EXCEPT ![t] = Idle]
    /\ UNCHANGED <<roomVars, connected, opened, alive, auth, filed>>

-----------------------------------------------------------------------------
(* Sessions *)

Goto(p, s, where) == session' = [session EXCEPT ![p][s] = where]

\* The last thing before the loop: a socket that missed the start is handed it.
CatchUp(p, s) ==
    IF announced /\ ~told[p]
    THEN \E t \in Tasks :
           /\ Free(t)
           /\ Goto(p, s, "busy")
           /\ task' = [task EXCEPT ![t] =
                Sending("catchup", {<<p, s>>}, game, FALSE, auth'[p][s], First({<<p, s>>}))]
    ELSE Goto(p, s, "reading") /\ UNCHANGED task

\* Mutant: has_both is read before the session's own socket is filed.
GreetFromBefore(p, s) ==
    IF over THEN Goto(p, s, "reading") /\ UNCHANGED task
    ELSE IF BothFiled /\ ~announced
    THEN \E t \in Tasks : Free(t) /\ Goto(p, s, "busy") /\ Announce(t, p, s)
    ELSE IF filed'[Seat(Opposite(auth'[p][s]))] # NoSocket
    THEN Goto(p, s, "knocking") /\ UNCHANGED task
    ELSE CatchUp(p, s)

\* What a session does once its socket is filed: announce the game if this
\* completes the pair, else tell the opponent, if any, before catching up.  The
\* opponent is whoever sits opposite the colour the session authenticated with.
\* (Of a finished game it is told the result, which changes nothing here.)
Greet(p, s) ==
    IF over THEN Goto(p, s, "reading") /\ UNCHANGED task
    ELSE IF BothFiled' /\ ~announced
    THEN \E t \in Tasks : Free(t) /\ Goto(p, s, "busy") /\ Announce(t, p, s)
    ELSE IF filed'[Seat(Opposite(auth'[p][s]))] # NoSocket
    THEN Goto(p, s, "knocking") /\ UNCHANGED task
    ELSE CatchUp(p, s)

\* mark_connected and connections.add; a displaced socket is closed first.
Open(p) ==
    LET s == opened[p] + 1 IN
    /\ opened[A] + opened[B] < MaxSockets
    /\ opened' = [opened EXCEPT ![p] = s]
    /\ alive' = [alive EXCEPT ![p][s] = TRUE]
    /\ auth' = [auth EXCEPT ![p][s] = ColorOf(p)]
    /\ connected' = [connected EXCEPT ![p] = TRUE]
    /\ filed' = [filed EXCEPT ![p] = s]
    /\ UNCHANGED <<roomVars, told, heard>>
    /\ IF filed[p] # NoSocket THEN Goto(p, s, "displacing") /\ UNCHANGED task
       ELSE Greet(p, s)

\* The displaced socket, the one before, is closed; the session goes on in the room as it is now.
Displaced(p, s) ==
    /\ session[p][s] = "displacing"
    /\ alive' = [alive EXCEPT ![p] = [k \in Sockets |-> k # s - 1 /\ alive[p][k]]]
    /\ UNCHANGED <<roomVars, slotVars, opened, auth, filed>>
    /\ Greet(p, s)

\* The opponent has been told; the room is looked at once more.
Knocked(p, s) ==
    /\ session[p][s] = "knocking"
    /\ UNCHANGED <<roomVars, slotVars, opened, alive, auth, filed>>
    /\ CatchUp(p, s)

\* The finally block: a socket still filed, or the last one, marks its owner
\* away, whichever seat the owner has by now.
Leave(p, s) ==
    /\ session[p][s] = "reading"
    /\ Goto(p, s, "gone")
    /\ alive' = [alive EXCEPT ![p][s] = FALSE]
    /\ filed' = IF filed[p] = s THEN [filed EXCEPT ![p] = NoSocket] ELSE filed
    /\ connected' = IF filed'[p] = NoSocket THEN [connected EXCEPT ![p] = FALSE]
                    ELSE connected
    /\ UNCHANGED <<roomVars, told, heard, opened, auth, task>>

\* The network, or the player's machine, drops a socket without a word.
Break(p, s) ==
    /\ alive[p][s]
    /\ alive' = [alive EXCEPT ![p][s] = FALSE]
    /\ UNCHANGED <<roomVars, slotVars, opened, session, auth, filed, task>>

-----------------------------------------------------------------------------
(* The room's own doings *)

\* A session is at its next frame, over a socket that still works.
Reads(p, s) == session[p][s] = "reading" /\ alive[p][s]

\* A handler broadcasts: a ply by _apply_move, decided when it ends its board, or
\* any other event of a game that is on.  The client has heard of it to act in it.
Play(t, p, s, decided) ==
    /\ ~over /\ Reads(p, s) /\ heard[p].game = game /\ Free(t)
    /\ Goto(p, s, "busy")
    /\ Broadcast(t, "move", {<<p, s>>}, decided)
    /\ UNCHANGED <<roomVars, slotVars, opened, alive, auth, filed>>

\* The sweep broadcasts; it is one coroutine, so one such broadcast is under way.
Note(t) ==
    /\ Free(t) /\ \A u \in Tasks : Free(u) \/ task[u].kind # "note"
    /\ Broadcast(t, "note", {}, FALSE)
    /\ UNCHANGED <<roomVars, slotVars, sockVars>>

\* The game in the room ends by anything but a move's own verdict.
End ==
    /\ ~over
    /\ over' = TRUE /\ endedBy' = game
    /\ UNCHANGED <<white, game, offered, announced, slotVars, sockVars, task>>

\* handle_rematch_request, when it does not complete the pair
Offer(p, s) ==
    /\ over /\ Reads(p, s) /\ Other(p) \notin offered
    /\ offered' = offered \cup {p}
    /\ UNCHANGED <<white, game, over, announced, endedBy, slotVars, sockVars, task>>

\* _restart_rematch, by the player whose click completes the pair: nothing starts
\* while the opponent's socket is away.
Rematch(t, p, s) ==
    /\ over /\ game < MaxGames
    /\ Reads(p, s) /\ Other(p) \in offered
    /\ filed[Other(p)] # NoSocket /\ Free(t)
    /\ game' = game + 1 /\ white' = Other(white)
    /\ over' = FALSE /\ offered' = {} /\ announced' = FALSE /\ endedBy' = 0
    /\ told' = [q \in Players |-> FALSE]
    /\ UNCHANGED <<heard, connected, opened, alive, auth, filed>>
    /\ Goto(p, s, "busy")
    /\ Announce(t, p, s)

Next ==
    \/ End
    \/ \E t \in Tasks :
         \/ SentWhite(t) \/ SentBlack(t) \/ TellSent(t) \/ Note(t)
         \/ StartSent(t) \/ CatchupSent(t)
         \/ \E p \in Players, s \in Sockets :
              Rematch(t, p, s) \/ \E decided \in BOOLEAN : Play(t, p, s, decided)
    \/ \E p \in Players :
         \/ Open(p)
         \/ \E s \in Sockets :
              \/ Displaced(p, s) \/ Knocked(p, s) \/ Offer(p, s)
              \/ Leave(p, s) \/ Break(p, s)

Spec == Init /\ [][Next]_vars
-----------------------------------------------------------------------------
(* Properties *)

Targets == SUBSET (Players \X Sockets)
Stages == {"none", "displacing", "knocking", "busy", "reading", "gone"}
Coroutines ==
    [kind : Kinds, at : Steps, by : Targets, board : Nat, decided : BOOLEAN,
     color : Colors, to : [Colors -> Targets], failed : SUBSET Colors]

TypeOK ==
    /\ white \in Players /\ game \in Nat /\ over \in BOOLEAN
    /\ offered \subseteq Players /\ announced \in BOOLEAN
    /\ told \in [Players -> BOOLEAN] /\ heard \in [Players -> [game : Nat, color : Colors]]
    /\ opened \in [Players -> 0..MaxSockets]
    /\ alive \in [Players -> [Sockets -> BOOLEAN]]
    /\ session \in [Players -> [Sockets -> Stages]]
    /\ auth \in [Players -> [Sockets -> Colors]]
    /\ filed \in [Players -> Sockets \cup {NoSocket}]
    /\ connected \in [Players -> BOOLEAN]
    /\ task \in [Tasks -> Coroutines]
    /\ endedBy \in Nat

\* A socket that is superseded, or that fails late, never unregisters its
\* replacement: the player's newest socket is the filed one for as long as it
\* works and its session lasts.
NewestIsFiled ==
    \A p \in Players : LET s == opened[p] IN
        s # 0 => \/ filed[p] = s
                 \/ ~alive[p][s]

\* A player believed connected has a socket filed: nobody is waited for as if
\* present although the last way to reach them is gone.
ConnectedHasSocket == \A p \in Players : connected[p] => filed[p] # NoSocket

\* With both sockets filed and nobody on the way to telling them, the game has
\* been announced: the two never sit at a board that does not start.
PairHearsOfStart ==
    \/ over \/ announced \/ ~BothFiled
    \/ \E t \in Tasks : task[t].kind = "start" /\ ~Free(t)
    \/ \E p \in Players, s \in Sockets : session[p][s] = "displacing"

\* A seat is only marked as told once the start of its game went out, in the
\* player's own colours.  (Of a rematch this cannot be said: a start frame still on
\* its way when it begins counts for the seat it was made for.)
ToldIsHeard ==
    \A p \in Players : told[p] /\ game = 1
        => heard[p] = [game |-> game, color |-> ColorOf(p)]

\* What the sources say and the code does not keep.

\* _apply_move ends the game right there when its position is final: the game it
\* ends is the one the ply was played in.
VerdictOfItsGame == endedBy \in {0, game}

\* Once the start is out, whoever sits at the room over a working socket has heard
\* of the game, or is being told.
SitterHears ==
    announced => \A p \in Players : LET s == filed[p] IN
        s # NoSocket /\ session[p][s] = "reading" /\ alive[p][s] =>
            \/ heard[p].game = game
            \/ over
            \/ \E t \in Tasks : ~Free(t) /\ task[t].kind \in {"start", "catchup"}
=============================================================================
