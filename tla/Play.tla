-------------------------------- MODULE Play --------------------------------
(***************************************************************************)
(* One game on the server's board, ply by ply: the move handler with its   *)
(* skill-check gate, the answers to a check, the sweep and the resume that *)
(* find a check dead, offers of draws and takebacks, and the lagging mark  *)
(* whose removal suspends a move that has just landed.                     *)
(*                                                                         *)
(* A player has one socket and its session handles one frame at a time, so *)
(* a handler suspended in a send keeps its player from being heard; the    *)
(* opponent, the sweep and HTTP requests go on.  A refused frame changes   *)
(* nothing and is left out.  How games end, and who is present, belongs to *)
(* GameRoom; displaced sockets belong to Sessions.                         *)
(***************************************************************************)
EXTENDS Integers, Sequences

CONSTANTS
    Moves,      \* (from, to) pairs
    Legal,      \* for each number of plies, the moves of the side to move
    Trying,     \* captures and promotions, the moves that draw a check
    MaxPlies    \* bound: plies on the board

ASSUME LegalAssumption ==
    /\ MaxPlies \in Nat \ {0}
    /\ Legal \in [0..MaxPlies -> SUBSET Moves]
    /\ Legal[MaxPlies] = {}
ASSUME TryingAssumption == Trying \subseteq Moves

Colors == {"white", "black"}
Nobody == "nobody"

VARIABLES
    hist,       \* Backend.move_history
    over,       \* Room.result is set
    check,      \* Room.pending_skillcheck, if any, and whether it is dead
    locks,      \* Room.skillcheck_locks
    log,        \* Room.skillcheck_log; its order is not read
    drawBy,     \* Room.draw_offered_by
    backBy,     \* Room.takeback_offered_by
    lagging,    \* the colours whose desync_active is set
    task        \* the await the handler of each player's frame is suspended in

vars == <<hist, over, check, locks, log, drawBy, backBy, lagging, task>>
boardVars == <<hist, over>>
checkVars == <<check, locks, log>>
offerVars == <<drawBy, backBy>>

\* The misses of the present turn, as the log has them.
MissedNow == {e.move : e \in {x \in log : ~x.won /\ x.ply = Len(hist) + 1}}

\* What the room promises of its moves, with the log read as the record of misses.
T == INSTANCE Turns WITH missed <- MissedNow

ToMove == T!MoverAt(Len(hist))
Opposite(c) == T!Opposite(c)
Available == T!Available(hist)

Outcome(ply, mv, won) == [ply |-> ply, move |-> mv, won |-> won]
Outcomes == [ply : 1..MaxPlies, move : Moves, won : BOOLEAN]
Checks == [color : Colors, move : Moves, dead : BOOLEAN]

\* Where a handler is: reading the next frame, telling of the miss it found before its
\* own move, telling of the ply just landed, mirroring a winning or a losing shot.
Idle == [at |-> "idle"]
Tasks == {Idle} \cup [at : {"retry", "won", "lost"}, move : Moves]
                \cup [at : {"landed"}, won : BOOLEAN]

Init ==
    /\ hist = <<>> /\ over = FALSE
    /\ check = {} /\ locks = {} /\ log = {}
    /\ drawBy = Nobody /\ backBy = Nobody
    /\ lagging = {}
    /\ task = [c \in Colors |-> Idle]

-----------------------------------------------------------------------------
(* Skill checks *)

\* resolve_skillcheck_fail, up to its broadcast
Lose(k) ==
    /\ check' = {}
    /\ locks' = locks \cup {k.move}
    /\ log' = log \cup {Outcome(Len(hist) + 1, k.move, FALSE)}

\* A move draws a check if it captures or promotes, but not if it is the only one left.
Draws(mv) == mv \in Trying /\ \E other \in Available \ locks : other # mv

\* _arm_skillcheck; its sends end the handler
Arm(c, mv) ==
    /\ check' = {[color |-> c, move |-> mv, dead |-> FALSE]}
    /\ task' = [task EXCEPT ![c] = Idle]
    /\ UNCHANGED <<boardVars, locks, log, offerVars, lagging>>

\* _apply_move after clear_resyncing: the offers go and a won check is logged, on
\* whatever ply is the last by now.
Record(won) ==
    /\ drawBy' = Nobody /\ backBy' = Nobody
    /\ log' = IF won THEN log \cup {Outcome(Len(hist'), hist'[Len(hist')], TRUE)} ELSE log

\* _apply_move up to clear_resyncing, which suspends it if the mover was lagging.  The
\* broadcast at its end, and the verdict of the board, are Sessions' and GameRoom's.
Land(c, mv, won) ==
    /\ hist' = Append(hist, mv)
    /\ locks' = {}
    /\ lagging' = lagging \ {c}
    /\ IF c \in lagging
       THEN /\ task' = [task EXCEPT ![c] = [at |-> "landed", won |-> won]]
            /\ UNCHANGED <<log, offerVars>>
       ELSE /\ task' = [task EXCEPT ![c] = Idle]
            /\ Record(won)
    /\ UNCHANGED <<over, check>>

\* Mutant: a move missed this turn is looked up nowhere.
PlayableAnyway(c, mv) == c = ToMove /\ mv \in Available

\* handle_move: the turn, the locks and the rules
Playable(c, mv) == c = ToMove /\ mv \notin locks /\ mv \in Available

TryMove(c, mv) ==
    /\ Playable(c, mv)
    /\ IF Draws(mv) THEN Arm(c, mv) ELSE Land(c, mv, FALSE)

-----------------------------------------------------------------------------
(* Moves and shots *)

\* handle_move with no check running
Move(c, mv) ==
    /\ task[c] = Idle /\ ~over /\ check = {}
    /\ TryMove(c, mv)

\* handle_move with a dead check: it is resolved first, and either player may do that.
MoveOnDead(c, mv) ==
    /\ task[c] = Idle /\ ~over
    /\ \E k \in check : k.dead /\ Lose(k)
    /\ task' = [task EXCEPT ![c] = [at |-> "retry", move |-> mv]]
    /\ UNCHANGED <<boardVars, offerVars, lagging>>

\* ... and then the move is tried on the board as it is now.  The handler looks at
\* the result again, and goes on with no check whatever the room has meanwhile.
Retry(c) ==
    /\ task[c].at = "retry"
    /\ IF ~over /\ Playable(c, task[c].move)
       THEN TryMove(c, task[c].move)
       ELSE /\ task' = [task EXCEPT ![c] = Idle]
            /\ UNCHANGED <<boardVars, checkVars, offerVars, lagging>>

\* The opponent has been told that the mover caught up.
Landed(c) ==
    /\ task[c].at = "landed"
    /\ UNCHANGED boardVars
    /\ Record(task[c].won)
    /\ task' = [task EXCEPT ![c] = Idle]
    /\ UNCHANGED <<check, locks, lagging>>

\* handle_skill_check_shot with a shot that wins the check: the check goes at once.
\* A shot that decides nothing only counts, and is left out.
WinningShot(c) ==
    /\ task[c] = Idle /\ ~over
    /\ \E k \in check :
          /\ k.color = c
          /\ task' = [task EXCEPT ![c] = [at |-> "won", move |-> k.move]]
    /\ check' = {}
    /\ UNCHANGED <<boardVars, locks, log, offerVars, lagging>>

\* The opponent has seen the shot: the move lands, if the board allows it.
Won(c) ==
    /\ task[c].at = "won"
    /\ IF ~over /\ task[c].move \in Available
       THEN Land(c, task[c].move, TRUE)
       ELSE /\ task' = [task EXCEPT ![c] = Idle]
            /\ UNCHANGED <<boardVars, checkVars, offerVars, lagging>>

\* handle_skill_check_shot with a shot that loses the check
LosingShot(c) ==
    /\ task[c] = Idle /\ ~over
    /\ \E k \in check :
          /\ k.color = c
          /\ task' = [task EXCEPT ![c] = [at |-> "lost", move |-> k.move]]
    /\ UNCHANGED <<boardVars, checkVars, offerVars, lagging>>

\* The opponent has seen the shot.  If the check was resolved meanwhile there is no
\* other: only its own player could have drawn one.
Lost(c) ==
    /\ task[c].at = "lost"
    /\ IF check = {} THEN UNCHANGED checkVars ELSE \E k \in check : Lose(k)
    /\ task' = [task EXCEPT ![c] = Idle]
    /\ UNCHANGED <<boardVars, offerVars, lagging>>

\* The deadline passes, or the challenge can no longer be won.
Dies ==
    /\ \E k \in check : ~k.dead /\ check' = {[k EXCEPT !.dead = TRUE]}
    /\ UNCHANGED <<boardVars, locks, log, offerVars, lagging, task>>

\* Mutant: the sweep spares a player whose handler is at work.
DeadlineIfIdle ==
    /\ ~over
    /\ \E k \in check : k.dead /\ task[k.color] = Idle /\ Lose(k)
    /\ UNCHANGED <<boardVars, offerVars, lagging, task>>

\* step_skillcheck_deadline, and post_resume, which does the same first
Deadline ==
    /\ ~over
    /\ \E k \in check : k.dead /\ Lose(k)
    /\ UNCHANGED <<boardVars, offerVars, lagging, task>>

\* post_resume at its end and set_resyncing: the player rebuilds the board.
Lags(c) ==
    /\ ~over
    /\ lagging' = lagging \cup {c}
    /\ UNCHANGED <<boardVars, checkVars, offerVars, task>>

\* handle_ping with the server's own ply: clear_resyncing
CatchesUp(c) ==
    /\ task[c] = Idle /\ ~over /\ c \in lagging
    /\ lagging' = lagging \ {c}
    /\ UNCHANGED <<boardVars, checkVars, offerVars, task>>

-----------------------------------------------------------------------------
(* Offers *)

\* finalize_result, as far as the board goes
Ends == over' = TRUE /\ check' = {}

\* handle_draw_offer: a standing offer of the opponent is taken up.
OfferDraw(c) ==
    /\ task[c] = Idle /\ ~over
    /\ IF drawBy = Opposite(c)
       THEN drawBy' = Nobody /\ Ends
       ELSE drawBy' = c /\ UNCHANGED <<over, check>>
    /\ UNCHANGED <<hist, locks, log, backBy, lagging, task>>

\* handle_draw_response
AnswerDraw(c) ==
    /\ task[c] = Idle /\ ~over /\ drawBy = Opposite(c)
    /\ drawBy' = Nobody
    /\ Ends \/ UNCHANGED <<over, check>>
    /\ UNCHANGED <<hist, locks, log, backBy, lagging, task>>

\* Mutant: the player to move may ask.
AskTakebackAnyTime(c) ==
    /\ task[c] = Idle /\ ~over /\ check = {} /\ hist # <<>>
    /\ backBy' = c
    /\ UNCHANGED <<boardVars, checkVars, drawBy, lagging, task>>

\* handle_takeback_request
AskTakeback(c) ==
    /\ task[c] = Idle /\ ~over /\ check = {} /\ c # ToMove /\ hist # <<>>
    /\ backBy' = c
    /\ UNCHANGED <<boardVars, checkVars, drawBy, lagging, task>>

\* Mutant: what was logged for the ply itself stays.
UndoKeepingPly ==
    /\ hist' = SubSeq(hist, 1, Len(hist) - 1)
    /\ log' = {e \in log : e.ply <= Len(hist)}

\* Backend.undo and the log
Undo ==
    /\ hist' = SubSeq(hist, 1, Len(hist) - 1)
    /\ log' = {e \in log : e.ply < Len(hist)}

\* Mutant: a running check does not stand in the way of an answer.
AnswerTakebackUnderCheck(c) ==
    /\ task[c] = Idle /\ ~over /\ backBy = Opposite(c)
    /\ backBy' = Nobody
    /\ Undo \/ UNCHANGED <<hist, log>>
    /\ UNCHANGED <<over, check, locks, drawBy, lagging, task>>

\* Mutant: a player may answer their own request.
AnswerAnyTakeback(c) ==
    /\ task[c] = Idle /\ ~over /\ check = {} /\ backBy # Nobody
    /\ backBy' = Nobody
    /\ Undo \/ UNCHANGED <<hist, log>>
    /\ UNCHANGED <<over, check, locks, drawBy, lagging, task>>

\* handle_takeback_response: the locks and a draw offer stay as they are.
AnswerTakeback(c) ==
    /\ task[c] = Idle /\ ~over /\ check = {} /\ backBy = Opposite(c)
    /\ backBy' = Nobody
    /\ Undo \/ UNCHANGED <<hist, log>>
    /\ UNCHANGED <<over, check, locks, drawBy, lagging, task>>

\* Everything else that ends a game: a flag, a resignation, an abandonment, a mate
End ==
    /\ ~over /\ Ends
    /\ UNCHANGED <<hist, locks, log, offerVars, lagging, task>>

-----------------------------------------------------------------------------
Next ==
    \/ \E c \in Colors, mv \in Moves : Move(c, mv) \/ MoveOnDead(c, mv)
    \/ \E c \in Colors : Retry(c) \/ Landed(c) \/ Won(c) \/ Lost(c)
    \/ \E c \in Colors : WinningShot(c) \/ LosingShot(c)
    \/ \E c \in Colors : Lags(c) \/ CatchesUp(c)
    \/ \E c \in Colors : OfferDraw(c) \/ AnswerDraw(c) \/ AskTakeback(c) \/ AnswerTakeback(c)
    \/ Dies \/ Deadline \/ End

\* Time passes and the sweep makes its passes.
Fairness == WF_vars(Dies) /\ WF_vars(Deadline)

Spec == Init /\ [][Next]_vars /\ Fairness

-----------------------------------------------------------------------------
(* Properties *)

TypeOK ==
    /\ hist \in Seq(Moves) /\ Len(hist) <= MaxPlies
    /\ over \in BOOLEAN
    /\ check \subseteq Checks /\ \A k, l \in check : k = l
    /\ locks \subseteq Moves
    /\ log \subseteq Outcomes
    /\ drawBy \in Colors \cup {Nobody} /\ backBy \in Colors \cup {Nobody}
    /\ lagging \subseteq Colors
    /\ task \in [Colors -> Tasks]

\* A running check is its player's turn: the held move could be played at once, and if
\* it is lost another move is left (forced_move).  Nothing but the check's own end may
\* move the board under it: not the opponent, not a takeback agreed earlier, not a
\* handler that was suspended when the check was drawn.
CheckOnItsBoard ==
    \A k \in check :
        /\ ~over /\ k.color = ToMove
        /\ k.move \in Available \ locks
        /\ \E other \in Available \ locks : other # k.move

\* A move missed this turn is locked, whoever found the check dead: the misses logged
\* for the coming ply are among the locks the move handler looks at.
MissesAreLocked == MissedNow \subseteq locks

\* A check that was won lands its move, unless the game ended while the opponent was
\* being shown the shot: the board cannot change during that send.
WonMoveLands ==
    [][\A c \in Colors :
         task[c].at = "won" /\ task'[c] # task[c] /\ ~over
             => hist' = Append(hist, task[c].move)]_vars

\* A takeback takes back a move of the player who asked for it.
TakebackOfOwnMove ==
    [][Len(hist') < Len(hist) => backBy = T!MoverAt(Len(hist) - 1)]_vars

\* The handlers together take turns by the rules.
TakesTurns == T!Spec

\* A check does not stay: going quiet does not dodge it.
CheckIsDecided == check # {} ~> check = {}

\* Violated: a lock is for the turn its check was lost in.  The side to move is kept
\* from a move only by a miss of this turn.
LocksOfThisTurn == ~over => locks \cap Available \subseteq MissedNow
=============================================================================
