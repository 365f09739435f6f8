# chess-shootout: a verification development

TLA+ models, TLC runs and TLAPS proofs about the game server of chess-shootout
and the client code that talks to it. Source paths are relative to
`src/chessshootout/` unless they start with `src/`.

## 1. Inventory

The server is one asyncio process. Code between two `await`s is atomic;
everything hard happens at the `await`s, where a handler suspended in a send
lets the sweep, the other player's socket or an HTTP request run.

| part | source | state it keeps | operations | what must be true |
|---|---|---|---|---|
| room lifecycle | `server/rooms.py` (`Room`, `PlayerSlot`, `RoomManager`) | result, stamps, seats, offers, series score | `finalize_result`, `mark_connected`, `mark_disconnected`, `touch_seen`, `reset_for_rematch`, `drop_room_now`, `gc_finished_rooms` | one result per game, one point per decided game, nobody waits for ever, a live game is not lost under a player |
| queue and matchmaking | `server/rooms.py` (`enqueue`, `cancel_wait`, `reclaim_session`), `server/routes_http.py` | queue, active table, uuid index | enqueue, pair, cancel, resume, reclaim, release, reap | a player is in at most one room, the index never points at a room that is gone, the cap holds |
| websocket handlers | `server/handlers.py` | the room, through its fields | one handler per message type | the right player, at the right time, once; offers die with the position they were made on |
| websocket session | `server/ws_session.py`, `server/connections.py`, `server/broadcasts.py` | one socket per player and room | authenticate, supersede, pump, broadcast, unregister | a live socket is never counted as gone, every player hears of the start exactly once |
| background sweep | `server/sweep.py`, loop in `server/app.py` | a health stamp | nine steps each pass | acts on what is true now, not on the list it took earlier |
| skill checks | `server/handlers.py`, `skillcheck/` | the pending check, the locks, the log | arm, answer, expire | a move is played, refused or locked exactly once |
| resynchronisation | `server/handlers.py` (`handle_ping`), `PlayerSlot` strikes, `frontend/online_coordinator.py`, `frontend/screens/game.py` | strikes, history changes, held frames | judge a heartbeat's ply, order a rebuild, rebuild, replay | a heartbeat that crossed a move is forgiven, a drifted board is not, no move is missed |
| clock | `backend/clock.py` | remaining times, the running side, the anchor of the last charge, the flag | tick, settle a move, gift, stop, snapshot, restore | every second is charged once and to its owner, gifts are capped |
| chess engine | `backend/backend.py`, `backend/pieces.py` | board, side, rights, en-passant target, fifty-move count, history, repetition counts, a remembered verdict | legal moves, try, promote, undo, name, result | undo is the inverse of a ply, no king is left in check, names find their moves |
| client sessions | `online/client.py`, `online/transport.py`, `frontend/online_coordinator.py` | a session per network thread, the frame's session, a reclaim probe, a reconnect fetch | connect, resume, cancel, disconnect, probe, reclaim, adopt | a session told to stop ends, a late answer takes over nothing, a session knows whether there is a game to come back to |
| rate limiting | `server/limits.py` | one window per uuid | hit | never more than the limit in a window |

Left out: the pygame screens, boards, menus and modals, animation and sound,
assets, PGN and FEN text, the settings and the platform glue (input, output and
layout, no protocol state); the moderation geometry (numeric shape detection).
Section 12 says why, part by part.

How the parts interact: an HTTP request pairs two players and hands each a room
and a token; each opens a socket; frames are dispatched one at a time per socket
to handlers that change the room and broadcast; the sweep visits every room ten
times a second; both ends call `finalize_result`, and only the first caller's
result counts.

## 2. Plan

In order of importance:

1. `GameRoom`, `GameRoomProofs`: the life of one room.
2. `Sessions`, `SessionsProofs`: superseded sockets, broadcasts that fail after
   a reconnect or a change of seats, start frames and their catch-up.
3. `Matchmaking`, `MatchmakingProofs`: queues, active table, uuid index, the
   awaits of `post_matchmake`, cancel, cap, reapers.
4. `Turns`, `Play`, `PlayProofs`: a ply in detail. Move handler with its
   skill-check gate, locks, the await of `clear_resyncing`, offers on the board
   they were made on; it implements `Turns`, a board that takes turns.
5. `ChessClock`: remaining times, charges, increments, gifts
   and the snapshots a takeback puts back; `ClientClock`, `ClientClockProofs`: a
   client's copy of it.
6. `Sync`, `SyncProofs`: a client's board and the server's over a socket that may drop.
7. `Client`, `ClientProofs`: the client's sessions, each on its thread, under the frame loop.
8. `Board`, `BoardProofs`: the rules of chess, plies and their undoing.

How the modules divide the system: `GameRoom` has the room and one socket per
player, `Sessions` the sockets and no game, `Play` the plies and one socket per
player, `ChessClock` and `Board` the two halves of the engine, `Matchmaking` who
sits in which room before and between games; `ClientClock` extends `ChessClock` by
a client and the frames between them; `Sync` and `Client` are the client's
side, the one within a game and the other across games, each with as much of a
server as it can tell apart. `Play` is the composition of handler, skill checks
and board, and is shown to implement `Turns`.

Small questions about one component share a run: the runs of a component differ
by the bounds and the fairness they need, not by the property they check. What is
proved for every value of the constants is not checked again by a run unless the
run is there for another property anyway.

Left, should the development go on: `Play` over the sockets of `Sessions`, for a
frame of a displaced socket that is still being handled; the offline skill-check
coordinator.

## 3. GameRoom

### Correspondence

Each stamp of the code (`disconnected_at`, `last_seen`, `idle_since`,
`started_at`, `ended_at`, `last_rematch_activity_at`) is kept as its age,
`now - stamp`, since only that difference is ever read; an age stops counting at
the deadline it is compared with. Time is therefore unbounded and `Tick` is the
passing of it. `Off` is an unset stamp.

| model | code |
|---|---|
| `inTable` | the room is in `RoomManager._active` |
| `white`, `Seat`, `ColorOf` | which player sits where; a rematch swaps |
| `present` | a socket is filed in the `ConnectionRegistry` |
| `connected`, `disconnectedFor`, `seenFor`, `atResult` | `PlayerSlot` |
| `hist`, `pliesEver`, `over`, `flagged` | length of `move_history`, `plies_ever`, the board part of `game_result`, `Clock.flagged` |
| `idleFor`, `startedFor`, `result`, `endedFor`, `activeFor`, `offered`, `score` | `Room` |
| `handler`, `late`, `leaving` | the await the handler of the player's socket, of a socket displaced before it, or the player's `POST /matchmake`, is suspended in |
| `sweep`, `shortlist` | the await `Sweep.step_all` is suspended in and the entries it still has to visit |
| `games`, `decided` | observers: games started, games that shared out a point |

A coroutine with an await in the middle is two actions (`Move` / `MoveSent`,
`AcceptTakeback` / `TakebackSent`, `DeclineRematch` / `DeclineSent`,
`LeaveForNewGame` / `LeaveSent`, `SweepHeartbeat` / `SweepMark`, `SweepGrace` /
`SweepEnd`, `SweepPostGame` / `SweepDrop`), and anything may run in between.
`finalize_result` is the operator `Finalize`, used by every ending.
The steps of a pass may run in any order while none is suspended, which allows
every pass of the code and more.

Abstractions: the board is its verdict (`over`), chosen freely at each move; the
clock is whether a flag has fallen, chosen freely when the clock is charged;
offers of draws and takebacks are folded into the step that accepts them; a
displaced socket leaves nothing but the handler suspended on it (the rest of its
session belongs to `Sessions`). Such a handler goes on by itself as `late`
(`Supersede`), while the player is heard over the new socket; one for a player, and
`MaxLate` in all. `_apply_move` reads the verdict of the board its ply was played on:
if a rematch has replaced that board by then, the handler keeps what the old one says
(`Outdated`), and `MoveSent` ends whatever game the room holds by it.

### Runs

| run | asks | bounds |
|---|---|---|
| `room_life` | who is believed present and how long a grace runs, from whom the sweep may take a game, one result and one point per game, rematches by consent | 3 plies (every row of the idle table and the first ply past it), grace of two ticks so that it outlasts a heartbeat and can be seen to be stamped anew, 2 games, one displaced handler; followed as `GamesFollowed` says |
| `room_goes_on` | an away player is decided, an opening nobody plays ends, a finished room is rematched or forgotten | 2 plies, one displaced handler; idle limit and cap of the rematch window 2 ticks, so that an offer can push back the one and not the other |
| `room_dropped` | violated: a live game is not dropped | 2 games |

`GamesFollowed` cuts `room_life` where its questions are answered: a game of two
plies or more is followed up to its result, a game of one ply until the room is
forgotten or somebody offers a rematch, and a game without a ply through its rematch,
which is followed until a ply is played in it. The race of the endings does not
depend on the number of plies beyond zero or some, and a rematch starts from the same
cleared board after any game. A displaced handler is followed for one question
(`SlowFirstPly`): a first ply that is announced late, through the rematch whose game
its verdict then ends; there it is the only coroutine suspended, and both players
are connected. The cut only removes states, so what the run checks holds on
every behaviour up to the cut; the theorems below have no cut.

One tick is enough for a deadline that is only compared with; two are needed
where one deadline has to outlast another. `room_goes_on` cuts the state space
with a CONSTRAINT (`UntilForgotten`): games are followed while they are live, and
one that white resigns before a ply until its room is forgotten; displaced handlers
only up to the second ply. But for the displaced handlers the cut loses nothing: a
behaviour that violates `AwayPlayerIsDecided` or `OpeningGoesOn` never leaves the
states with a live room in the table, so neither it nor a state on the way to it is
cut off; and how a finished room goes on (`FinishedRoomGoes`) depends on who is
connected and on the offers, none of which the way the game ended decides. A game past
its opening with a handler still suspended on a displaced socket is cut off: for
`AwayPlayerIsDecided` the run says nothing of it. No step of the sweep looks at a
handler, and what such a handler does when it returns (end the game by its board,
re-arm the idle window after a takeback, drop a room whose rematch was declined) the
one on the new socket may do as well.

Fairness: time passes (`Tick`), the sweep's own sends return, and every pass of
the sweep runs each of its steps. A step waits while another is suspended, so it
is enabled again and again rather than continuously: strong fairness. No player
is obliged to do anything and no send to a player is obliged to return.

### What disagrees with the sources

- `room_dropped`: `step_post_game` awaits its two farewell sends between deciding
  that the window is over and dropping the room. A rematch that starts in
  between is dropped under its players.

### Proofs

`GameRoomProofs` proves, for every value of the deadlines and the bounds:

- `TypeCorrect`: one lemma per action, lemmas for `Finalize`, `Marked`,
  `Restart` and `Older`;
- `SeriesFair` and `ResultsStand`, from `PlayedSteps`: a step leaves result,
  score and number of games alone, ends the game through `Finalize`, or resets
  it; and from `AwardShares`: a recorded ending adds two half points or none;
- `PresenceCorrect`, inductive by itself given the types;
- `RematchConsented`, from the inductive invariant `OffersStand`: an offer stands
  only in a finished room and only for a player still at the result screen.
  Without it `AcceptRematch` could start on the offer of a player at the menu;
- `NothingPlayed`, from the inductive invariant `NothingYet`: while no ply was
  played the board has no verdict and no flag, so the game ends by those reasons
  `Finalize` is called with by name, or by a handler that was still announcing a ply
  of the game before: the verdict it brings is of the board that the rematch replaced.
  That one way to win a game nobody has played is `VerdictOfItsGame` of section 11;
- `AbandonedAway`, an action property proved from the types alone, and
  `GraceNotStretched`, from the types and `PresenceCorrect`. The second is what
  reconnect churn could break: while the game goes on, no
  failed send, close or heartbeat timeout stamps a player who is away anew.

The types are proved and not checked by a run of their own (`TypeOK` fails in TLC only
where the model's own bookkeeping is wrong). Assumptions: the two players differ,
deadlines are positive. The liveness properties are only model-checked.

## 4. Sessions

The sockets of one paired room. `GameRoom` follows one socket of a player, with the
handler left on a displaced one, and treats a broadcast as one send; `Sessions` is the part it leaves out, and in
turn leaves how a game is played and decided to `GameRoom`.

### Correspondence

| model | code |
|---|---|
| `opened`, `alive` | sockets a player has authenticated so far, numbered, and whether a frame still goes out over each |
| `session` | where `_ws_session` of each socket is: closing the displaced socket, telling the opponent, waiting for a send of its own, reading, finished |
| `auth` | `auth_color`, the colour the session authenticated with; a rematch swaps the seats under it |
| `filed` | `ConnectionRegistry`, one socket per player and room |
| `task` | the coroutines suspended in sends: `broadcast_game_start`, the catch-up copy, `broadcast` for a handler or the sweep |
| `announced`, `told`, `connected` | `Room.game_start_broadcast`, `PlayerSlot.game_start_sent`, `PlayerSlot.connected` |
| `game`, `heard`, `endedBy` | observers: which game is on, which start frame a player last got, whose board ended the game |

`broadcast` captures the sockets and colours first (`Broadcast`), sends to white
and black one after the other (`SentWhite`, `SentBlack`), then unregisters and
marks what failed and tells the one who was reached (`TellSent`).
`broadcast_game_start` looks up each socket when its colour's turn comes
(`Announce`, `StartSent`). `Open` is everything of a session up to its first
await, `Displaced` and `Knocked` what follows the next two, `Leave` its finally
block. A ply whose board is decided ends the room's game after its broadcast, as
`_apply_move` does (`Finish`). Any socket may stop working at any time (`Break`),
without its session noticing.

Abstractions: a player acts in a game (`Play`) only once their client has heard
of its start; the sweep is one coroutine and has one broadcast under way at a
time; heartbeat timeouts stay with `GameRoom`; the handshake's refusals, the
frame-size and rate limits and the shutdown farewell are left out.

### Runs

| run | asks | bounds |
|---|---|---|
| `sessions_games` | a late failure never unregisters a newer socket, nobody is believed connected without one, a seat counts as told only once the start went out, a complete pair hears of its game | 3 sockets in all (one player is superseded once, or comes back once), 2 coroutines sending at once, a game and its rematch |

`PlainRematch` keeps plies that decide their board out of the rematch of
`sessions_games`; there a game still ends in every other way. `ToldIsHeard` is
stated of the first game only: a start frame under way when a rematch begins
marks the seat of the rematch, for a game that is over.

### Proofs

`SessionsProofs` proves, for any number of coroutines, sockets and games,
`TypeCorrect`, `NewestFiled`, `ConnectedFiled`, `PairHears` and `ToldHasHeard`. The
inductive invariant adds four facts to them: what was never opened neither works nor runs
(`Unopened`); the filed socket is the newest or there is none (`FiledNewest`); a
coroutine only ever holds sockets that were opened, and one it failed to reach
never works again (`CapturesHold`), which is why unregistering it cannot take a
working socket with it; and a session waits for one coroutine at a time
(`BusyWithOne`), so an announcement cannot be lost with its session. `ToldHasHeard`
has an invariant of its own on top (`FirstGame`): while the first game lasts, a start
frame under way goes to the player its colour belongs to, a catch-up is in the colours
of the sockets it is for, and a socket's session is authenticated in its player's
colours. A rematch swaps the seats under frames that are under way, which is why
`ToldIsHeard` says nothing of it.

## 5. Matchmaking

Who sits in which room. `GameRoom` starts where `Pair` ends.

### Correspondence

| model | code |
|---|---|
| `queue` | `RoomManager._queue`, one set of waiting rooms per time control; the list's order does not matter, as `NobodyWaitsPast` shows that it has one member at most |
| `game` | `RoomManager._active`: not there, opening (no move yet), playing, over |
| `seats` | the slots of a room, as the players in them |
| `index` | `RoomManager._uuid_to_room` |
| `here` | a socket of the player is filed in the room they are indexed under |
| `waited` | age of a waiting room against `QUEUE_ABANDON_SECONDS` and `QUEUE_MAX_WAIT_SECONDS` |
| `request` | a `POST /matchmake` suspended in its farewell |

`post_matchmake` is `Post` up to the first await, which is there only if somebody
is to be told (`Farewells`), and `Farewell` from there on: it releases whatever
room the player is indexed under by then. Both end in `Enqueue`, the whole of
`enqueue` with its two refusals. A game in which nobody has moved is not released
and makes `enqueue` refuse the request (409). The server counts its rooms before
it looks for an opponent, so a full server refuses even a newcomer who would have
been paired. A client that got no answer asks again while its first request is
still running, hence several requests of one player at once. Only a suspended
request needs an identity (`Requests`); any other is over in one step. Cancelling,
dropping, the two reapers and a release after a farewell are one operation on the
tables, `Forget`.

Abstractions: session tokens and colour preferences are left out, and with them
reclaim and resume, which change neither table; a room id is used again once
nothing refers to it; the deadlines of a room in play and the drop that comes too
late are `GameRoom`'s.

### Runs

| run | asks | bounds |
|---|---|---|
| `mm_seats` | index, seats and tables agree; nobody waits past anybody; the cap never costs a player their place; every wait ends | 3 players (a pair and one to disturb it), one request suspended in a farewell while others come and go, 3 time controls and 3 rooms under a cap of 2, so that only the cap keeps the third player from a room of their own |

Fairness of `mm_seats`: time passes (`Age`) and the sweep keeps making its
passes (`Reap`); both are enabled until they happen or the wait ends, so weak
fairness is enough. Players are obliged to nothing.

### Proofs

`MatchmakingProofs` proves every safety property of the run, and that seats are
filled and the cap holds, for any players, time controls, requests, rooms and cap:
`TypeCorrect`, `IndexCorrect`, `SeatsCorrect`, `NobodyPassed`, `CapCorrect` and the
action property `PlaceKept`. The inductive
invariant is the index property, the cap and `Shape`: a room is in one queue at
most and alone there, a waiting room is not in play and seats one player, a room
in play seats two different ones, and any other room nobody. `SeatsFilled` by
itself is not inductive, since it does not say that a room is in one queue only.
Every step that touches the tables gives up rooms, and then may seat one player;
the lemmas take the two halves one after the other (`LessAgrees`, `LessShape`,
`LessTabled`, then `PairTables`, `WaitTables`), speaking of the tables as values.
`PlaceKept` follows from the cap: the room given up leaves one free.

Assumptions: 0 names no room, the cap is positive, there are finitely many rooms
and more than the cap. `WaitEnds` is only model-checked.

## 6. Play

One game ply by ply, on the board the server keeps. `GameRoom` decides when and
how a game ends; `Play` decides which moves are made until then.

### Correspondence

| model | code |
|---|---|
| `hist` | `Backend.move_history` |
| `over` | `Room.result` is set |
| `check` | `Room.pending_skillcheck`, none or one, with whether `is_dead` would say so |
| `locks`, `log` | `Room.skillcheck_locks`, `Room.skillcheck_log` |
| `drawBy`, `backBy` | `draw_offered_by`, `takeback_offered_by` |
| `lagging` | the colours whose `desync_active` is set, for whose mover `clear_resyncing` suspends |
| `task` | the await the handler of each player's frame is suspended in |

`handle_move` is `Move` when no check runs; when it finds one dead it is
`MoveOnDead` up to the broadcast of the miss and `Retry` from there, on the board
as it is by then. Either player's frame may do this, also a frame that is out of
turn. `TryMove` is the rest of the handler: the turn, the locks, the rules, then
`Arm` or `Land`. `Land` is `_apply_move`; if the mover was lagging it suspends in
`clear_resyncing` and `Landed` is what follows: clearing the offers and logging the
won check. A shot is `WinningShot` / `Won` or `LosingShot` / `Lost`, split at the
frame that shows the opponent the shot. `Deadline` is the sweep's step, and the
same two lines at the head of `post_resume`. `Lose` is `resolve_skillcheck_fail`,
used by everything that finds a check lost.

`Turns` is what the room promises: a history, the moves missed at the present
turn, and an end. `Play` implements it (`TakesTurns`) with the misses read from
the log (`MissedNow`), so the refinement fails if a locked move is played, and if
a miss is logged for another turn than its own.

Abstractions: which moves are legal is a function of the number of plies, less the
side's own last move (its piece has left the square), so moves that transpose are
not told apart; a capture or a promotion always draws a check unless it is the
only move left, as the odds in `skillcheck/weights.py` have it; when a check dies
is nondeterministic; a fallen flag counts as the end of the game; a shot that
decides nothing, and a frame that is refused, change nothing here and are left
out; a player has one socket (see below).

### Runs

| run | asks | bounds |
|---|---|---|
| `play_checks` | a running check stays on its board; a miss is locked whoever found it; a won move lands; a takeback is the asker's own; the handlers implement `Turns`; a check is decided | 4 plies, two for each side, so that a takeback may be followed by another; on the first ply two captures to miss and one quiet move, so that the second miss would leave a forced move; a capture on the second and the fourth ply too; seven moves, one of them legal at two plies |
| `play_locks` | violated: a lock is for the turn its check was lost in | the same |

Fairness of `play_checks`: time passes (`Dies`) and the sweep resolves what it
finds dead (`Deadline`). Both stay enabled until they happen or the check goes in
another way, so weak fairness is enough. No player has to move, shoot or answer,
and no send to a player has to return.

### What disagrees with the sources

- `play_locks`: an accepted takeback cuts the skill-check log but leaves the locks
  as they are. White and black make a ply each, white misses a capture, both plies
  are taken back, and the same capture, which white may make there too, is refused
  for a miss that is no longer in the log. Offline, undo does drop the locks
  (`frontend/screens/game.py:2417`).

### Proofs

`PlayProofs` proves every safety property of the run, and type correctness, for any
moves, rules and number of plies: `TypeCorrect`, `CheckStays`, `MissesLocked`, `WonLands`,
`OwnTakebacks`, and the refinement `Implements`. None of them is inductive alone.
The invariant adds: nothing is logged past the coming ply (`LogBehind`), or a
takeback could leave an unlocked miss behind; the player of a running check is
reading frames or showing a losing shot (`CheckHeard`), so no other handler of
theirs will move the board; while a winning shot is shown it stays its player's
turn, no check runs and the move stays playable (`WonHolds`), since only that
player, who is not heard meanwhile, could move, and a takeback needs their answer;
a takeback request by a player who is to move or whose ply has just landed has
outlived its position, and then the one who would answer it is the one whose
suspended handler clears it (`AskStands`); and a ply to report or to take back is
on the board (`LandedPly`). `Implements` follows action by action: `Lose` is
`Miss`, `Land` is `Play`, `Undo` is `Undo`, every other step stutters.

Assumptions: `Legal` gives moves for every number of plies and none at the bound,
and `Trying` is a set of moves. `CheckIsDecided` is only model-checked.

## 7. ChessClock and ClientClock

The server's clock of one game, with every caller that reaches it, and the copy that
a client keeps. `GameRoom` only knows whether a flag has fallen.

### Correspondence

| model | code |
|---|---|
| `now` | `time.monotonic()`, in whole units since the clock was set up |
| `clock` | `Backend.clock`: `remaining`, `running_for`, `last_tick_at`, `flagged` |
| `clock.credited` | auxiliary: what increments and gifts have put on each side, as far as it is in force |
| `snapshots` | `HistoryEntry.prev_clock_snapshot`, one per ply |
| `over` | `Room.result` is set |
| `thought` | auxiliary: how long each side has been to move |
| `mine`, `plies` | the clock and the length of the history of the client's own `Backend` |
| `rebuilding` | `OnlineCoordinator._resyncing` |
| `up`, `wire` | frames on their way to the server, to the client |

`Tick`, `OnMoveMade`, `AddTime` and `Stop` are the methods of `Clock`; `TickClock`
is the engine's guard before a charge. The actions of `ChessClock` are their callers:
a ply (`Move`, which freezes the clock if it mates), an accepted takeback, a gift, the
sweep, a resume, and every other ending. None of them awaits between reading and
writing the clock, so each is one step.

`ClientClock` extends it: what the server does to its clock is told in a frame
(`Frame` is `clock_snapshot`), or happens silently. The client runs the same clock
code. Its copy counts down with every frame drawn (`ClientTicks`), is handed over by a
ply of the player's before the server knows of it (`MyMove`), topped up while the
give-time button is held (`MyGift`, reported or called off), and set by what comes in
(`OnMove`, `OnTakeback`, `OnGiveTime`, `Rebuilt`).

Abstractions: both ends share one time, as only differences of it are read; a rebuild
is one step, since what it holds back and replays is in `Sync`, and what the client
had sent before it has been answered by then; the client is followed up to the result.
Squares are not in the model, so a frame with the client's own number of plies may be
the echo of its last ply or another ply, which starts a rebuild; and the entries a
rebuild puts in the history carry no snapshot, so a takeback may put a fallen flag back
up or leave it down. The seconds credited to the copy are not counted, as they are the
server's.

### Runs

| run | asks | bounds |
|---|---|---|
| `client_clock` | on the server every second is charged once, the clock runs for the side to move, nobody grows rich; the client counts down for the same side and never shows less than there is | three units a side, one of increment, gifts of one or two, 2 plies, 4 units of time, two frames each way: a flag falls on either end, a gift fits whole, in part or not at all, and a takeback, a gift and a ply cross on the wire |
| `client_credit` | violated: the clock that stands still shows what the server says | the same without gifts |

The run was also made with 3 plies, 6 units of time and one frame each way.

### What disagrees with the sources

- `client_credit`: the frame of an opponent's ply carries the clock after the ply,
  increment included. The client sets its copy by it and then plays the ply on its own
  board, which credits the increment again; the opponent is shown with an increment too
  many until the next frame. An own ply that comes back only sets the clock, so it is
  right. The error is on the client's screen: the server's clock decides.
- More in section 11: `PaysOwnTime` and `NoFlagButServers`.

### Proofs

`ClientClockProofs` first proves the three server properties of `client_clock`, and the
module's type invariant, for any time
control, gifts, plies and length of time, and that a fallen flag stands on a spent
and stopped clock (`FlagIsFinal`). A takeback makes an old clock the clock, so the
invariant says of every snapshot what it says of the clock, each for the number of
plies it was taken at (`Sound`), and that a snapshot is of a clock that was running or
had a flag down, as a game under way has. Assumption: `ClockAssumption`, a starting
time above zero.

It then proves that the composition implements `ChessClock`
(`MirrorKeepsClock`), so that all of this holds of it, and that the client never shows
less than there is (`ClientShowsNoLess`), whatever is on its way. `ShowsNoLess` speaks
of a client that has heard everything; the invariant that carries it says what the
last frame on the wire says of the clock as it stands (`LastFrameSays`), that a ply
hands the clock over (`FramesConsistent`), and that the copy covers the server's clock
while no ply of the player's is out (`MirrorCovers`). Assumptions: `ClockAssumption`
and that the client plays one of the two colors.

## 8. Sync

One player's board and the server's, with the socket between them.

### Correspondence

| model | code |
|---|---|
| `hist`, `asked`, `fresh` | `Backend.move_history`, `takeback_offered_by`, `Room.history_changes` still in their grace, the last `Window` of them (`Remembered`) |
| `strikes`, `shut` | `PlayerSlot.ply_mismatch_streak`, the closed `_ResyncGate` |
| `view` | the client's history, `_resyncing`, `_resync_buffer`, the takeback banner |
| `fetches` | `_fetch_state_sync` coroutines, unanswered or answered and not yet drained |
| `link`, `resumed`, `outbox` | the client's socket, the snapshot a reconnect brings, frames queued meanwhile |
| `up`, `down` | frames on their way, with what waits in the client's event queue |
| `made`, `drops`, and `told`, `behind` of a heartbeat | observers |

`Receive` is the server's handler for the next frame (`TakeMove`, `TakeRequest`,
`TakeAnswer`, `TakePing`), `Deliver` the client's (`On`, with one operator per kind
of event). A move of the player's own is on the board before the server has it
(`MyMove`); its coming back is an `Echo`. A rebuild begins (`Begin`), fetches the
state (`Serve`, `Fetched`), and ends by replaying what was held on the snapshot,
which may start it again (`EndResync`).

Abstractions: a move is one of two that can be told apart, and every move is legal
for the side to move; no skill checks; the client's network thread and its frame are
one; a fetch that fails is left out, `Timeout` is what then happens; strikes do not
expire; the opponent's news of a resync is presentation. A heartbeat's interval is
longer than a round trip, and the grace of a change outlasts its news and the
heartbeats sent before the news came: the code picks its numbers so
(`HEARTBEAT_SECONDS`, `RESYNC_TRANSIT_GRACE_SECONDS`). On a link slower than that the
two strikes are the code's tolerance, and how well they do is not asked here.

### Runs

| run | asks | bounds |
|---|---|---|
| `sync_follows` | on a socket that held, a client that has heard everything has the server's board; no order goes to a client that had only crossed the news, as far as the server remembers them; every client comes to the server's ply | 3 changes of the history (a ply, its takeback and another ply cross a heartbeat), the last two of them remembered where the code remembers eight (`HISTORY_CHANGE_WINDOW`), so that a change is forgotten inside its grace; one drop, one fetch at a time, two plies on the board |

Fairness: frames are delivered and handled, the client beats, gates and graces
expire, a closed socket is opened again. Nobody has to move, ask or answer.
Without drops the run was also made with five changes.

### Proofs

`SyncProofs` proves, for any marks, openings, window and bounds, the three safety properties
of the run: `SyncTypeOK`, `OrdersEarned` and `MissesNothing`. They rest on three
invariants, each of which TLC checked before it was proved:

- `Typed` is `TypeOK` but for one thing that takes counting: that there are never more
  changes on their way to the client than were made, so that what a heartbeat has been
  told of is a natural number. It comes with the next.
- `Journal` says that the changes on their way to the client can be numbered: they are
  the last ones of a journal, each is the length the history got from the one before,
  and the grace of a change is not over while its news, or a heartbeat sent before it,
  is under way. What the server remembers is the end of that journal, all of it or the
  last `Window`. A heartbeat of a client that is only waiting for news, overtaken by no
  more than `Window` changes, therefore names a ply the server still remembers, which
  is why it is never taken for a strike, and why the order that follows two strikes is
  earned.
- `Faithful` is about a socket that never dropped. The frames held back and those on
  their way, one after the other, are a course (`Course`): the plies a board has after
  each, ending with the server's, and what each move says of a ply that outlives the
  rest is what the server has there. A snapshot that a rebuild will start from agrees
  with the server as far as some place on the course (`Along`). So does the board of a
  client that is not rebuilding, unless its own ply is on top of it and something is
  still to come (`Ahead`), or a refusal is. With the course at its end only the
  server's board is left, which is `NothingMissed`.

The replay of a resync is a fold, and so is the look ahead of a heartbeat. Neither
needs an induction theorem of the library: the views between two turns are a function
on the naturals, and a set of naturals with 0 and the successor of each member is all
of them, because `<` is well-founded (`AllNaturals`, `ReplayedInTurn`).
`ReplayGoesOn` is one turn: what is replayed is on the course, or the rest is held
again behind the frame that did not fit.

`CatchesUp` is liveness and model-checked only.

## 9. Client

One player's sessions from search to menu, with the server's seat for the player.

### Correspondence

| model | code |
|---|---|
| `seat`, `issued` | the room the player is filed under, its token; tokens handed out so far |
| `run` | the `OnlineClient` objects: where the thread is (`pc`), `_stop`, a cancel under way, `_queued`, `_game_active`, `_post_game`, the socket, the event queue |
| `client`, `screen`, `button`, `frame` | `OnlineCoordinator.client`, the screen or dialog, the menu's Reconnect, where in a frame the loop is |
| `pending`, `probe`, `fetch`, `answer` | `_pending_reconnect`, the reclaim probe, the reconnect worker, `_reconnect_result` |

The thread of a session goes `starting` (before it has made its loop), `asking`,
`asked`, `dialing`, `open`, `resuming`, `ended`. The frame does at most one thing the
player asks for, then one `Update`, which handles the events that are there and
only then looks at a reconnect's answer, then `Refresh`. A worker whose generation
has passed is `stale` and leaves nothing behind.

Abstractions: the opponent and the game are the server's business; an event that
nobody reads is not kept; delays and counts of retries are nondeterministic; the
end of a queued wait and of a rematch window come later than the frame in which a
search begins; versions, addresses and toasts are left out.

### Runs

| run | asks | bounds |
|---|---|---|
| `client_sessions` | a seat has one session, however long those left behind take to end; a connected session knows whether a game is on; a reconnect's answer takes over nothing begun since; a session told to stop ends | 2 sessions (one let go of while another is opened), 3 tokens (the game left behind, a search, a reclaim), one drop, restart or rematch |

Fairness: each thread goes on with what it is at, and a cancel handed to its loop
gets its turn. Threads and their loops run whatever the frame does; nothing is
assumed of the player, the frame, the server or the workers.

### Proofs

`ClientProofs` proves `ClientTypeOK`, `SeatsHaveOneSession` (of `SeatHasOneSession`),
`ConnectedKnows` (of `FlagsFollowServer`) and `AnswersAreFresh` (of the action property
`TakesOverNothing`) for any number of
sessions, drops and, from one on, tokens (`ClientAssumption`: the player of a game has
the token of it). The inductive invariant adds two things to the types. A token is in
one place (`Tokens`, `Presence`): with one session, or on its way from the probe over
the menu's offer and the fetch to the answer. So a seat has one holder, and while the
server has told a start it is this holder, on this socket, that has it to hear. And an
answer of a fetch is dropped where it should be (`Answers`): nothing is begun while one
is awaited, and if something was begun since, it was in this very frame, whose `Update`
looks at the events of the new session first; that one has no ending among them, so
there is no way back to a menu on which the answer would be taken.

What a frame makes of its events is a fold. It is unrolled by `HandledInTurn`, from the
well-foundedness of the naturals, and each fact about what is left behind is carried
over the events one by one.

## 10. Board

The engine's position, as `backend/backend.py` plays on it.

### Correspondence

| model | code |
|---|---|
| `pos` | `state`, `turn`, `castling_rights`, `en_passant_target`, `halfmove_clock` |
| `history` | `move_history`, each entry with what it has to put back |
| `counts`, `memo` | `position_counts`, `_legal_move_memo` |
| `start` | observer: the position the game was loaded with |

A board is the function of its occupied squares. Moves are generated as the code
does it: what the piece reaches (`PseudoLegal`), less what leaves the mover's king
attacked on the board as tried (`Tried`, on which a castling rook has not moved).
`TryMove` ends in `Finalize`, or leaves a promotion pending for `Promote`; `Undo`
takes back either; `Tick` is the part of `tick_clock` that asks, and remembers,
whether the side to move is stuck. `San` and `Candidates` are the two directions of
a move's name. `Result` asks in the order of `game_result`.

Abstractions: the clock is in `ChessClock`. Whoever plays names the piece of a
promotion before the next move, as every caller does (`frontend/board/board.py`,
`server/handlers.py`). Positions are loaded with rights and a target that fit
(`PositionsAssumption`): `apply_fen` does not check that, see section 11.

### Runs

| run | asks | bounds |
|---|---|---|
| `board_games` | rights and target fit the pieces; nobody is left in check; a takeback is exact; the remembered verdict is fresh; every name finds its move | five positions of four to six pieces and three plies on the board at once, with any takebacks between: castles to both sides, a rook taken at home and one leaving it, captures in passing with and without a pin along the rank, promotions pending, finished and taken back, a mate, the fifty-move rule two plies away, three knights of which one is pinned before one square |

Threefold repetition is not reached in three plies; that its count is put back
exactly is part of `UndoIsExact`.

### Proofs

`BoardProofs` proves each of the five for every set of positions there is a game from
(`PositionsAssumption`: men on squares, one king each, rights and target that fit, and
the player who has just moved not in check; `_find_king` raises without a king) and any
number of plies.

`VerdictIsFresh` needs that no verdict is filed under more plies than are on the board,
or a takeback followed by another ply could find it again.

`RightsFit`, `NobodyLeftInCheck` and `TakenBackIsExact` rest on one inductive invariant,
`HistoryLeadsHere`: the history is a line of legal plies (`Leads`) from `start` to the
game on the board. Three facts about a single ply carry it.

- `AfterSound`: a legal ply leads from a sound position to a sound one. There is a king
  of each colour still, for no legal ply takes one (the side to move would have had it
  in check); rights and target fit what stands there now; and the board a ply is tried
  on and the one it leaves are attacked alike, the castled rook and the promoted pawn
  included.
- `TakenBackGame`: undoing the last ply of a line gives the game before it. It rests on
  `TakenBackExactly`, by the way a ply takes: what it moved (`Stepped`), took (`Took`),
  took in passing (`TookInPassing`) or castled (`Castled`).
- `ReplayedInTurn`: what a line leads to is what the fold of `UndoIsExact` computes.
  The fold is a function of how many plies are replayed; two such functions agree, or
  there would be a least number at which they do not (`LeastNatural`).

`NamesResolve` needs no induction: a name carries the file of its piece, the rank or
both as soon as a rival of its kind could come to the same square (`NameFinds`).

## 11. Seen while modelling

What TLC showed on the way, where the sources say otherwise or say nothing, and no
run keeps. A property in parentheses is stated in the module and fails under the
constants given.

Rooms and sockets:

- A game taken back to the empty board after its third ply has no deadline
  (`UnderWayGameEnds` under `ClockedSpec` of `GameRoom`, 3 plies): the idle windows go
  by `plies_ever`, which a takeback does not lower, and a board without history is not
  charged, although `server/sweep.py:219` claims the abort window for it.
- A player marked away by the heartbeat timeout keeps the socket; talking again over
  it does not clear the mark, and the grace period ends the game against a player who
  is there (`TalkingPlayerKept`, 1 ply; `server/rooms.py:832`, `server/sweep.py:264`).
- A player who reconnects while the start broadcast is suspended in the send to their
  old socket gets neither the start nor the catch-up copy that
  `server/broadcasts.py:201` promises (`SitterHears` of `Sessions`, 1 game).
- `_apply_move` reads the verdict of the board it captured before its broadcast and
  ends whatever game the room holds by then (`VerdictOfItsGame` of `Sessions`, 2 games;
  the exception in `NothingPlayedNothingWon` of `GameRoom`).
- `broadcast` marks the colour it failed to reach (`server/connections.py:182`) although
  the player may be back on a newer socket, so `connected` may be false with a socket
  filed; hence `ConnectedHasSocket` states one direction only.
- The second request of a player is paired while the first is suspended in its
  farewell; the first then drops the game that has just begun, without a result and
  without telling the opponent (`server/routes_http.py:260`). A rematch agreed during
  the farewell is dropped the same way.

Plies:

- In the await of `clear_resyncing` in `_apply_move` an offer of a draw or of a
  takeback stands until after that send, so a draw can be taken up after the ply that
  should have cleared it; and if the opponent has already moved, the log entry of a won
  check and the `move_applied` frame name the opponent's ply and notation.
- `apply_fen` does not hold rights, target and kings against the board: with a right
  and no rook the king castles alone, a target without its pawn lets a pawn take
  whatever stands beside it, and a board without a king is loaded and fails later.

The clock:

- A takeback puts back the anchor of the last charge with the times. The next charge
  bills the player who took the ply back for everything since that anchor, their
  opponent's thinking included (`PaysOwnTime` of `ChessClock`, 5 units, no increment, no gifts), while
  `backend/clock.py:178` calls it how a player gets their time back. What is charged in
  all is right (`SecondsAddUp`), only not to whom.
- A resume charges any board, so it can latch a flag on a
  board without a ply (`step_clock_and_idle_windows` says such a board "is never
  charged", `server/sweep.py:219`), or one that a takeback undoes before the sweep
  has seen it; and after a resignation or an abandonment nothing stops the clock,
  as `clock.py:116` says of a resignation, so that a resume goes on charging a game
  that is over. A gift made after a ply goes with the ply when that is taken back.
- `restore_from_server` does not take back a flag that has fallen on the client's copy
  only, as it does when a gift arrives a moment too late; the client then refuses its
  player's moves in a game that is on, until a takeback or the opponent's next ply, which
  starts a rebuild (`NoFlagButServers` of `ClientClock`, the bounds of `client_clock`).

The client:

- Equal plies are taken for equal boards (`server/handlers.py:1022`). If a takeback is
  accepted and another ply played between the snapshot a reconnect fetches and the
  opening of its socket, the client misses both, its board is as long as the server's
  and differs in its last ply, and no heartbeat tells (`SamePlySameBoard` of `Sync`,
  2 changes, 1 drop).
- A reclaim probe that is out when a search begins is retired on the client only. The
  server rotates the token of whatever game the player is in by then, and the session
  that plays it is told `ROOM_LOST`, documented at `online/client.py:41` as "the room is
  gone although the server is up" (`RoomLostIsTrue` of `Client`, 3 tokens).
- `disconnect` and `cancel_queue` before the thread has made its loop set a state and
  reach nobody; the session goes on for no one, and a queued seat may be paired.
- A socket that will not open ends a session at once, whatever is left of the grace
  period; a search whose socket drops in the queue ends without a word; a refused
  search leaves its card waiting; and an answer already left when the server's address
  is changed is adopted nevertheless.

## 12. What is not modelled

The bulk of the repository's lines is the pygame client: screens, menus, panels,
modals, boards, animation, sound and the views of the skill checks. It draws state
that lives elsewhere and turns clicks into calls that are modelled where they arrive
(`MyMove`, `Search`, `OnOnlineCancel`, ...). A model of it would restate layout code
line by line and relate nothing to anything. The same goes for:

- PGN and FEN text, the openings book, the summaries of a finished game, countries,
  settings and files: parsing, formatting and data;
- mark moderation and the geometry and randomness of the skill checks: numeric
  functions without protocol state;
- chat and drawn marks: relayed and kept, nothing depends on them;
- rate limits, premoves and the local match score: one actor and one step at a time,
  fully reached by unit tests;
- server wiring, logging, process entry, health and news.

That is why the modules cover the protocol, the engine and the client's sessions
nearly completely and the repository's lines only in small part.

Not composed: `Play` gives a player one socket while `Sessions` has several and no
board, so that a handler of a displaced socket is suspended while its player's new
socket is heard, and what a check won on the old one then does to the board, is
neither modelled nor excluded. Which of two idle windows ends a game around an
accepted takeback (`server/handlers.py:871`) is not asked.

Liveness is model-checked only, as the proof system does not reach fairness or
ENABLED: `AwayPlayerIsDecided`, `OpeningGoesOn` and `FinishedRoomGoes` of the room,
`WaitEnds`, `CheckIsDecided`, `LeavingEnds` and `CatchesUp`. Every safety property that
a passing run checks is also a theorem. The library's induction theorems take an
operator and cannot be used here; where a fold had to be followed it is reasoned about
from the well-foundedness of the naturals, as in `BoardProofs`, `ClientProofs` and
`SyncProofs`.
