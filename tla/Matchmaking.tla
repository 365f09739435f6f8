---------------------------- MODULE Matchmaking ----------------------------
(***************************************************************************)
(* Who sits in which room: the queues, the rooms in play and the index     *)
(* from a player to their room, as POST and DELETE /matchmake, the rooms'  *)
(* own fates and the sweep's two reapers change them.                      *)
(*                                                                         *)
(* A request is one coroutine that may be suspended in its farewell to an  *)
(* old opponent; a client whose answer is late or lost simply asks again,  *)
(* so several requests of one player may be under way.  Everything else    *)
(* runs without an await in between (the manager's lock is never held      *)
(* across one).  What happens inside a game is GameRoom's: here a room in  *)
(* play is opening, under way or over.                                     *)
(***************************************************************************)
EXTENDS Integers, FiniteSets

CONSTANTS
    Players,        \* client_uuids
    TimeControls,   \* queue keys: minutes and increment
    Rooms,          \* room ids; nothing refers to a forgotten room, so ids come back
    Requests,       \* identities of the matchmake requests suspended at once
    MaxRooms        \* max_rooms: waiting and active rooms allowed

ASSUME PlayersAssumption == 0 \notin Rooms
ASSUME CapAssumption == MaxRooms \in Nat \ {0}
ASSUME RoomsAssumption == IsFiniteSet(Rooms) /\ Cardinality(Rooms) > MaxRooms

NoRoom == 0
Idle == [at |-> "idle"]
InPlay == {"opening", "playing", "over"}
Waits == 0..2   \* younger than QUEUE_ABANDON_SECONDS, older, past QUEUE_MAX_WAIT_SECONDS

VARIABLES
    queue,      \* RoomManager._queue: the rooms waiting for each time control
    game,       \* RoomManager._active: how far the game of a room in play is
    seats,      \* the players in a room's slots
    index,      \* RoomManager._uuid_to_room
    here,       \* players with a socket filed in the room they are indexed under
    waited,     \* age of a waiting room, in the reapers' two deadlines
    request     \* the matchmake requests under way

tables == <<queue, seats, index, waited>>
vars == <<tables, game, here, request>>

Active == {r \in Rooms : game[r] # "none"}
Waiting == UNION {queue[c] : c \in TimeControls}
Tabled == Active \cup Waiting

Init ==
    /\ queue = [c \in TimeControls |-> {}]
    /\ game = [r \in Rooms |-> "none"]
    /\ seats = [r \in Rooms |-> {}]
    /\ index = [p \in Players |-> NoRoom]
    /\ here = {}
    /\ waited = [r \in Rooms |-> 0]
    /\ request = [q \in Requests |-> Idle]

-----------------------------------------------------------------------------
(* The manager's tables once the rooms in `gone` are given up by player p *)

\* Mutant: only the player who leaves is released from the index.
VacatedByLeaver(gone, p) == {p}

\* _drop_room releases both players of a room, a waiting room has but one.
Vacated(gone, p) == UNION {seats[r] : r \in gone}

QueueLess(gone) == [c \in TimeControls |-> queue[c] \ gone]
GameLess(gone) == [r \in Rooms |-> IF r \in gone THEN "none" ELSE game[r]]
SeatsLess(gone) == [r \in Rooms |-> IF r \in gone THEN {} ELSE seats[r]]
IndexLess(gone, p) ==
    [x \in Players |-> IF x \in Vacated(gone, p) THEN NoRoom ELSE index[x]]
WaitedLess(gone) == [r \in Rooms |-> IF r \in gone THEN 0 ELSE waited[r]]

Forget(gone, p) ==
    /\ queue' = QueueLess(gone)
    /\ game' = GameLess(gone)
    /\ seats' = SeatsLess(gone)
    /\ index' = IndexLess(gone, p)
    /\ here' = here \ Vacated(gone, p)
    /\ waited' = WaitedLess(gone)

\* Mutant: the rooms this very request gives up still count.
FullBefore(gone) == Cardinality(Tabled) >= MaxRooms

Full(gone) == Cardinality(Tabled \ gone) >= MaxRooms

\* Mutant: a room whose player has not connected yet is passed over.
JoinableHere(c, gone) == {r \in queue[c] \ gone : seats[r] \subseteq here}

Joinable(c, gone) == queue[c] \ gone

\* The room r waiting for the time control c leaves the queue with p as its opponent.
Pair(p, c, r, gone) ==
    /\ queue' = [QueueLess(gone) EXCEPT ![c] = @ \ {r}]
    /\ game' = [GameLess(gone) EXCEPT ![r] = "opening"]
    /\ seats' = [SeatsLess(gone) EXCEPT ![r] = @ \cup {p}]
    /\ index' = [IndexLess(gone, p) EXCEPT ![p] = r]
    /\ here' = here \ (Vacated(gone, p) \cup {p})
    /\ waited' = [WaitedLess(gone) EXCEPT ![r] = 0]

\* A new room r for p to wait in.
Wait(p, c, r, gone) ==
    /\ queue' = [QueueLess(gone) EXCEPT ![c] = @ \cup {r}]
    /\ game' = GameLess(gone)
    /\ seats' = [SeatsLess(gone) EXCEPT ![r] = {p}]
    /\ index' = [IndexLess(gone, p) EXCEPT ![p] = r]
    /\ here' = here \ (Vacated(gone, p) \cup {p})
    /\ waited' = WaitedLess(gone)

\* release_for_new_game of the rooms in `gone`, then enqueue: a player still indexed
\* is refused (409), and so is anybody when the server is full (503).
Enqueue(p, c, gone) ==
    \/ /\ gone = {} /\ index[p] # NoRoom
       /\ UNCHANGED <<tables, game, here>>
    \/ /\ gone # {} \/ index[p] = NoRoom
       /\ IF Full(gone) THEN Forget(gone, p)
          ELSE IF Joinable(c, gone) # {}
          THEN \E r \in Joinable(c, gone) : Pair(p, c, r, gone)
          ELSE \E r \in Rooms \ Tabled : Wait(p, c, r, gone)

-----------------------------------------------------------------------------
(* POST and DELETE /matchmake *)

Held(p) == {index[p]} \ {NoRoom}

\* A room whose leaving has to be told first: a game under way, to whoever is there,
\* and a finished one, to the other player.
Farewells(p) ==
    {r \in Held(p) : \/ game[r] = "playing" /\ seats[r] \cap here # {}
                     \/ game[r] = "over" /\ (seats[r] \ {p}) \cap here # {}}

\* post_matchmake up to its first await.  A game under way is abandoned, a finished
\* one left, a waiting place given up.  A game in which nobody has moved is none of
\* these and refuses the request.  Only a request with a farewell to send suspends.
Post(q, p, c) ==
    \/ /\ Farewells(p) # {} /\ request[q].at = "idle"
       /\ game' = [r \in Rooms |-> IF r \in Farewells(p) THEN "over" ELSE game[r]]
       /\ request' = [request EXCEPT ![q] = [at |-> "farewell", who |-> p, tc |-> c]]
       /\ UNCHANGED <<tables, here>>
    \/ /\ Farewells(p) = {}
       /\ Enqueue(p, c, {r \in Held(p) : game[r] # "opening"})
       /\ UNCHANGED request

\* The farewell is sent: whatever room the player is indexed under by now is released.
Farewell(q) ==
    /\ request[q].at = "farewell"
    /\ Enqueue(request[q].who, request[q].tc, Held(request[q].who))
    /\ request' = [request EXCEPT ![q] = Idle]

\* cancel_wait by a player who is still waiting; of anybody else it changes nothing.
Cancel(p) ==
    /\ Held(p) # {} /\ Held(p) \subseteq Waiting
    /\ Forget(Held(p), p)
    /\ UNCHANGED request

-----------------------------------------------------------------------------
(* Sockets and games *)

Connect(p) ==
    /\ index[p] # NoRoom
    /\ here' = here \cup {p}
    /\ UNCHANGED <<tables, game, request>>

Disconnect(p) ==
    /\ p \in here
    /\ here' = here \ {p}
    /\ UNCHANGED <<tables, game, request>>

Becomes(r, phase) ==
    /\ game' = [game EXCEPT ![r] = phase]
    /\ UNCHANGED <<tables, here, request>>

FirstMove(r) == game[r] = "opening" /\ seats[r] \cap here # {} /\ Becomes(r, "playing")

\* finalize_result, by anything but a request of the room's own players
End(r) == game[r] \in {"opening", "playing"} /\ Becomes(r, "over")

\* reset_for_rematch, with both sockets there
Rematch(r) == game[r] = "over" /\ seats[r] \subseteq here /\ Becomes(r, "opening")

\* drop_room_now and gc_finished_rooms: a finished room, or one nobody came to.
\* (GameRoom has the deadlines, and the drop that comes too late.)
Drop(r) ==
    /\ \/ game[r] = "over"
       \/ game[r] = "opening" /\ seats[r] \cap here = {}
    /\ \E p \in seats[r] : Forget({r}, p)
    /\ UNCHANGED request

-----------------------------------------------------------------------------
(* The sweep's reapers *)

Older(age) == IF age + 1 \in Waits THEN age + 1 ELSE age

\* Time passes for a waiting room.
Age(r) ==
    /\ r \in Waiting
    /\ waited' = [waited EXCEPT ![r] = Older(@)]
    /\ UNCHANGED <<queue, seats, index, game, here, request>>

\* Mutant: a waiter whose socket is there is never given up.
ReapableAbsent(r) == r \in Waiting /\ waited[r] >= 1 /\ seats[r] \cap here = {}

\* step_reap_abandoned_queue drops a waiter without a socket, step_reap_timed_out_queue
\* one who has waited long enough.  Its list may be stale; a room that was paired or
\* cancelled since is no longer queued and is passed over.
Reapable(r) ==
    /\ r \in Waiting
    /\ waited[r] = 2 \/ (waited[r] = 1 /\ seats[r] \cap here = {})

Reap(r) ==
    /\ Reapable(r)
    /\ \E p \in seats[r] : Forget({r}, p)
    /\ UNCHANGED request

Next ==
    \/ \E q \in Requests :
         Farewell(q) \/ \E p \in Players, c \in TimeControls : Post(q, p, c)
    \/ \E p \in Players : Cancel(p) \/ Connect(p) \/ Disconnect(p)
    \/ \E r \in Rooms :
         FirstMove(r) \/ End(r) \/ Rematch(r) \/ Drop(r) \/ Age(r) \/ Reap(r)

\* Time passes and the sweep makes its passes; players are obliged to nothing.
Fairness == \A r \in Rooms : WF_vars(Age(r)) /\ WF_vars(Reap(r))

Spec == Init /\ [][Next]_vars
FairSpec == Spec /\ Fairness
-----------------------------------------------------------------------------
(* Properties *)

TypeOK ==
    /\ queue \in [TimeControls -> SUBSET Rooms]
    /\ game \in [Rooms -> {"none"} \cup InPlay]
    /\ seats \in [Rooms -> SUBSET Players]
    /\ index \in [Players -> Rooms \cup {NoRoom}]
    /\ here \subseteq Players
    /\ waited \in [Rooms -> Waits]
    /\ request \in [Requests -> {Idle} \cup
          [at : {"farewell"}, who : Players, tc : TimeControls]]

\* The index and the tables agree: a player is indexed under a room exactly if they
\* sit in it, so in one room at most and never in one that is gone, whatever requests,
\* cancellations, drops and reapers cross.
IndexAgrees == \A p \in Players, r \in Rooms : index[p] = r <=> p \in seats[r]

\* A room is waiting or in play, never both; one in play has two players, a waiting one
\* has one, and nobody is paired with themselves.
SeatsFilled ==
    /\ Active \cap Waiting = {}
    /\ \A r \in Rooms :
         Cardinality(seats[r]) = IF r \in Active THEN 2 ELSE IF r \in Waiting THEN 1 ELSE 0

\* Two players never wait past each other on the same time control.
NobodyWaitsPast == \A c \in TimeControls : \A r, s \in queue[c] : r = s

\* However requests cross, waiting and active rooms stay within the cap.
CapHolds == Cardinality(Tabled) <= MaxRooms

\* A request that gives up a place finds another: it never takes a room from its
\* player only to tell them that the server is full.
PlaceForPlace ==
    [][\A q \in Requests, p \in Players :
          /\ index[p] # NoRoom
          /\ \/ Farewell(q) /\ request[q].who = p
             \/ \E c \in TimeControls : Post(q, p, c)
          => index'[p] # NoRoom]_vars

\* Nobody waits in the queue for ever: a waiter is paired, cancels or is given up.
WaitEnds == \A r \in Rooms : r \in Waiting ~> r \notin Waiting
=============================================================================
