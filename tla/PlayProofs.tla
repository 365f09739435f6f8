----------------------------- MODULE PlayProofs -----------------------------
(***************************************************************************)
(* Proofs about Play, for any moves, any rules and any length of a game: a *)
(* check stays on its board, misses are locked, a won move lands, only own *)
(* moves are taken back, and the handlers take turns as Turns asks.        *)
(*                                                                         *)
(* The argument is about who can be heard: a player whose handler is       *)
(* suspended sends nothing, and what a suspended handler will do is about  *)
(* a board that only this player, or both by consent, could change.        *)
(***************************************************************************)
EXTENDS Play, SequenceTheorems, TLAPS

\* Nothing is logged beyond the coming ply.
LogBehind == \A x \in log : x.ply <= Len(hist) + 1

\* A player with a running check is heard, or their losing shot is being shown.
CheckHeard == \A k \in check : task[k.color].at \in {"idle", "lost"}

\* While a winning shot is being shown it stays its player's turn, and the move playable.
WonHolds ==
    \A c \in Colors : task[c].at = "won" /\ ~over =>
        c = ToMove /\ check = {} /\ task[c].move \in Available \ locks

\* A takeback asked for by a player who is to move, or who has just moved, outlived its
\* position: the other one's handler is about to clear it and cannot answer it.
AskStands ==
    \A c \in Colors : backBy = c /\ (c = ToMove \/ task[c].at = "landed")
                        => task[Opposite(c)].at = "landed"

\* The ply a handler is about to report is on the board, and so is one to take back.
LandedPly == /\ \A c \in Colors : task[c].at = "landed" => hist # <<>>
             /\ backBy # Nobody => hist # <<>>

IInv ==
    /\ TypeOK /\ CheckOnItsBoard /\ MissesAreLocked
    /\ LogBehind /\ CheckHeard /\ WonHolds /\ AskStands /\ LandedPly

USE LegalAssumption, TryingAssumption

-----------------------------------------------------------------------------
(* Plies and turns *)

LEMMA Opposites ==
    \A c \in Colors : /\ Opposite(c) \in Colors /\ Opposite(c) # c
                      /\ Opposite(Opposite(c)) = c
                      /\ \A d \in Colors : d = c \/ d = Opposite(c)
BY DEF Colors, Opposite, T!Opposite

LEMMA Turns ==
    ASSUME NEW n \in Nat
    PROVE  /\ T!MoverAt(n) \in Colors
           /\ T!MoverAt(n + 1) = Opposite(T!MoverAt(n))
<1>1. n % 2 \in {0, 1} /\ (n + 1) % 2 = 1 - (n % 2)
  BY SMT
<1> QED BY <1>1 DEF T!MoverAt, Opposite, T!Opposite, Colors

\* A move can only be made where the bound leaves room for a ply.
LEMMA RoomForPly ==
    ASSUME hist \in Seq(Moves), Len(hist) <= MaxPlies, NEW mv \in Available
    PROVE  mv \in Moves /\ Len(hist) + 1 \in 1..MaxPlies
<1>1. Len(hist) \in 0..MaxPlies
  BY LenProperties
<1>2. mv \in Legal[Len(hist)]
  BY DEF Available, T!Available
<1> QED BY <1>1, <1>2

LEMMA Grown ==
    ASSUME hist \in Seq(Moves), NEW mv \in Moves, hist' = Append(hist, mv)
    PROVE  /\ hist' \in Seq(Moves) /\ Len(hist') = Len(hist) + 1 /\ hist' # <<>>
           /\ ToMove' = Opposite(ToMove) /\ Len(hist) \in Nat
           /\ hist'[Len(hist')] = mv
<1>1. /\ Len(hist) \in Nat /\ hist' \in Seq(Moves) /\ Len(hist') = Len(hist) + 1
      /\ hist'[Len(hist')] = mv
  BY AppendProperties, LenProperties
<1>2. hist' # <<>>
  BY <1>1, EmptySeq
<1> QED BY <1>1, <1>2, Turns DEF ToMove

LEMMA Shrunk ==
    ASSUME hist \in Seq(Moves), hist # <<>>, hist' = SubSeq(hist, 1, Len(hist) - 1)
    PROVE  /\ hist' \in Seq(Moves) /\ Len(hist') = Len(hist) - 1
           /\ Len(hist) \in Nat \ {0} /\ Len(hist') \in Nat
           /\ ToMove' = T!MoverAt(Len(hist) - 1) /\ ToMove = Opposite(ToMove')
<1>1. Len(hist) \in Nat \ {0}
  BY LenProperties, EmptySeq
<1>2. hist' \in Seq(Moves) /\ Len(hist') = Len(hist) - 1
  <2>1. \A i \in 1..(Len(hist) - 1) : hist[i] \in Moves
    BY <1>1, ElementOfSeq
  <2>2. Len(hist) - 1 \in Int /\ 1 \in Int
    BY <1>1
  <2>3. SubSeq(hist, 1, Len(hist) - 1) \in Seq(Moves)
    BY <2>1, <2>2, SubSeqProperties
  <2>4. Len(SubSeq(hist, 1, Len(hist) - 1))
          = IF 1 <= Len(hist) - 1 THEN Len(hist) - 1 - 1 + 1 ELSE 0
    BY <2>1, <2>2, SubSeqProperties
  <2>5. \A n \in Nat \ {0} : (IF 1 <= n - 1 THEN n - 1 - 1 + 1 ELSE 0) = n - 1
    OBVIOUS
  <2> QED BY <1>1, <2>3, <2>4, <2>5
<1>3. ToMove' = T!MoverAt(Len(hist) - 1)
  BY <1>2 DEF ToMove
<1>4. T!MoverAt(Len(hist) - 1 + 1) = Opposite(T!MoverAt(Len(hist) - 1))
  BY <1>1, Turns
<1> QED BY <1>1, <1>2, <1>3, <1>4 DEF ToMove

LEMMA Starts == Init => IInv
<1> SUFFICES ASSUME Init PROVE IInv
  OBVIOUS
<1>1. hist \in Seq(Moves) /\ Len(hist) = 0
  BY EmptySeq DEF Init
<1>2. TypeOK
  <2>1. Idle \in Tasks
    BY DEF Tasks
  <2>2. task \in [Colors -> Tasks]
    BY <2>1 DEF Init
  <2>3. Len(hist) <= MaxPlies
    BY <1>1
  <2>4. over \in BOOLEAN /\ check \subseteq Checks /\ \A k, l \in check : k = l
    BY DEF Init
  <2>5. locks \subseteq Moves /\ log \subseteq Outcomes /\ lagging \subseteq Colors
    BY DEF Init
  <2>6. drawBy \in Colors \cup {Nobody} /\ backBy \in Colors \cup {Nobody}
    BY DEF Init
  <2> QED BY <1>1, <2>2, <2>3, <2>4, <2>5, <2>6 DEF TypeOK
<1> QED BY <1>1, <1>2 DEF Init, IInv, CheckOnItsBoard, MissesAreLocked, MissedNow, LogBehind,
              CheckHeard, WonHolds, AskStands, LandedPly, Idle, Nobody, Colors

-----------------------------------------------------------------------------
(* The parts of a step *)

\* Losing the running check, whoever finds it dead and whatever the handlers do then, as
\* long as nobody is newly suspended in a won check or a landed ply.
LEMMA LoseKeeps ==
    ASSUME IInv, NEW k \in check, Lose(k), UNCHANGED <<hist, over, drawBy, backBy, lagging>>,
           task' \in [Colors -> Tasks],
           \A c \in Colors : task'[c] = task[c] \/ task'[c].at \in {"idle", "retry"},
           \A c \in Colors : task[c].at = "landed" => task'[c] = task[c]
    PROVE  IInv'
<1> USE DEF IInv
<1>1. k \in Checks /\ k.move \in Available /\ ~over
  BY DEF TypeOK, CheckOnItsBoard
<1>2. k.move \in Moves /\ Len(hist) + 1 \in 1..MaxPlies
  BY <1>1, RoomForPly DEF TypeOK
<1>3. TypeOK'
  <2>1. Outcome(Len(hist) + 1, k.move, FALSE) \in Outcomes
    BY <1>2 DEF Outcome, Outcomes
  <2> QED BY <1>2, <2>1 DEF TypeOK, Lose
<1>4. CheckOnItsBoard' /\ CheckHeard' /\ LogBehind'
  BY <1>2 DEF CheckOnItsBoard, CheckHeard, LogBehind, Lose, Outcome
<1>5. MissesAreLocked'
  BY DEF MissesAreLocked, MissedNow, Lose, Outcome
<1>6. WonHolds' /\ AskStands' /\ LandedPly'
  BY Opposites DEF WonHolds, AskStands, LandedPly, ToMove
<1> QED BY <1>3, <1>4, <1>5, <1>6

\* A step that leaves board, checks, offers and log alone and lets handlers go idle, as
\* long as those that report a landed ply stay suspended.
LEMMA QuietKeeps ==
    ASSUME IInv, UNCHANGED <<hist, over, locks, log, drawBy, backBy>>,
           lagging' \subseteq Colors, check' = check,
           task' \in [Colors -> Tasks],
           \A c \in Colors : task'[c] = task[c] \/ task'[c].at \in {"idle", "lost"},
           \A c \in Colors : task[c].at = "landed" => task'[c] = task[c]
    PROVE  IInv'
<1> USE DEF IInv
<1>1. TypeOK'
  BY DEF TypeOK
<1>2. CheckOnItsBoard' /\ CheckHeard' /\ LogBehind' /\ MissesAreLocked'
  BY DEF CheckOnItsBoard, CheckHeard, LogBehind, MissesAreLocked, MissedNow, ToMove,
         Available, TypeOK, Checks
<1>3. WonHolds' /\ AskStands' /\ LandedPly'
  BY Opposites DEF WonHolds, AskStands, LandedPly, ToMove, Available
<1> QED BY <1>1, <1>2, <1>3

\* Drawing a check, with the player's handler free again.
LEMMA ArmKeeps ==
    ASSUME IInv, NEW c \in Colors, NEW mv \in Moves, ~over, check = {},
           Playable(c, mv), Draws(mv), Arm(c, mv), task[c].at \notin {"won", "landed"}
    PROVE  IInv'
<1> USE DEF IInv
<1>1. task' \in [Colors -> Tasks] /\ task'[c] = Idle /\ \A d \in Colors : d # c => task'[d] = task[d]
  BY DEF Arm, TypeOK, Tasks
<1>2. TypeOK'
  BY <1>1 DEF TypeOK, Arm, boardVars, offerVars, Checks
<1>3. CheckOnItsBoard' /\ CheckHeard'
  BY <1>1 DEF CheckOnItsBoard, CheckHeard, Arm, Playable, Draws, ToMove, Available,
              boardVars, Idle
<1>4. LogBehind' /\ MissesAreLocked'
  BY DEF LogBehind, MissesAreLocked, MissedNow, Arm, boardVars
<1>5. WonHolds'
  BY <1>1 DEF WonHolds, Arm, Playable, ToMove, boardVars, Idle
<1>6. AskStands' /\ LandedPly'
  BY <1>1, Opposites DEF AskStands, LandedPly, Arm, ToMove, boardVars, offerVars, Idle
<1> QED BY <1>2, <1>3, <1>4, <1>5, <1>6

\* Landing a ply, reported at once or after a suspension.
LEMMA LandKeeps ==
    ASSUME IInv, NEW c \in Colors, NEW mv \in Available, NEW won \in BOOLEAN,
           ~over, check = {}, c = ToMove, Land(c, mv, won), task[c].at # "landed"
    PROVE  IInv'
<1> USE DEF IInv
<1>1. mv \in Moves /\ Len(hist) + 1 \in 1..MaxPlies
  BY RoomForPly DEF TypeOK
<1>2. /\ hist' \in Seq(Moves) /\ Len(hist') = Len(hist) + 1 /\ hist' # <<>>
      /\ ToMove' = Opposite(ToMove) /\ Len(hist) \in Nat
      /\ hist'[Len(hist')] = mv
  BY <1>1, Grown DEF Land, TypeOK
<1>3. /\ task' \in [Colors -> Tasks] /\ \A d \in Colors : d # c => task'[d] = task[d]
      /\ task'[c].at = IF c \in lagging THEN "landed" ELSE "idle"
  <2>1. [at |-> "landed", won |-> won] \in Tasks /\ Idle \in Tasks
    BY DEF Tasks
  <2>2. task' = [task EXCEPT ![c] = IF c \in lagging THEN [at |-> "landed", won |-> won]
                                                      ELSE Idle]
    BY DEF Land
  <2>3. task \in [Colors -> Tasks]
    BY DEF TypeOK
  <2>4. CASE c \in lagging
    BY <2>1, <2>2, <2>3, <2>4
  <2>5. CASE c \notin lagging
    BY <2>1, <2>2, <2>3, <2>5 DEF Idle
  <2> QED BY <2>4, <2>5
<1>4. \A x \in log' : x \in log \/ x = Outcome(Len(hist'), mv, TRUE)
  BY <1>2 DEF Land, Record, offerVars
<1>5. IF c \in lagging THEN UNCHANGED offerVars ELSE drawBy' = Nobody /\ backBy' = Nobody
  BY DEF Land, Record
<1>6. TypeOK'
  <2>1. Outcome(Len(hist'), mv, TRUE) \in Outcomes
    BY <1>1, <1>2 DEF Outcome, Outcomes
  <2>2. log' \subseteq Outcomes
    BY <2>1, <1>4 DEF TypeOK
  <2>3. Len(hist') <= MaxPlies
    BY <1>1, <1>2
  <2>4. drawBy' \in Colors \cup {Nobody} /\ backBy' \in Colors \cup {Nobody}
    BY <1>5 DEF TypeOK, offerVars
  <2>5. locks' \subseteq Moves /\ lagging' \subseteq Colors /\ UNCHANGED <<over, check>>
    BY DEF Land, TypeOK
  <2> QED BY <1>2, <1>3, <2>2, <2>3, <2>4, <2>5 DEF TypeOK
<1>7. CheckOnItsBoard' /\ CheckHeard' /\ LandedPly'
  BY <1>2 DEF CheckOnItsBoard, CheckHeard, LandedPly, Land
<1>8. LogBehind' /\ MissesAreLocked'
  BY <1>2, <1>4 DEF LogBehind, MissesAreLocked, MissedNow, Outcome, TypeOK, Outcomes
<1>9. WonHolds'
  BY <1>2, <1>3, Opposites DEF WonHolds, Land
<1>10. AskStands'
  BY <1>2, <1>3, <1>5, Opposites DEF AskStands, offerVars, Nobody, Colors
<1> QED BY <1>6, <1>7, <1>8, <1>9, <1>10

LEMMA TryKeeps ==
    ASSUME IInv, NEW c \in Colors, NEW mv \in Moves, ~over, check = {}, TryMove(c, mv),
           task[c].at \notin {"won", "landed"}
    PROVE  IInv'
BY ArmKeeps, LandKeeps DEF TryMove, Playable

\* Ending the game drops the check with it.
LEMMA EndKeeps ==
    ASSUME IInv, ~over, Ends, UNCHANGED <<hist, locks, log, lagging, task>>,
           drawBy' \in Colors \cup {Nobody}, backBy' \in {backBy, Nobody}
    PROVE  IInv'
<1> USE DEF IInv, Ends
<1>1. TypeOK'
  BY DEF TypeOK
<1>2. CheckOnItsBoard' /\ CheckHeard' /\ LogBehind' /\ MissesAreLocked'
  BY DEF CheckOnItsBoard, CheckHeard, LogBehind, MissesAreLocked, MissedNow
<1>3. WonHolds' /\ AskStands' /\ LandedPly'
  BY DEF WonHolds, AskStands, LandedPly, ToMove, Nobody, Colors
<1> QED BY <1>1, <1>2, <1>3

\* Nobody can answer a takeback while a won check or a landed ply is under way.
LEMMA AnswerAlone ==
    ASSUME IInv, NEW c \in Colors, task[c] = Idle, ~over, check = {}, backBy = Opposite(c)
    PROVE  /\ backBy # ToMove
           /\ \A d \in Colors : task[d].at \notin {"won", "landed"}
BY Opposites DEF IInv, AskStands, WonHolds, Idle

LEMMA UndoKeeps ==
    ASSUME IInv, NEW c \in Colors, task[c] = Idle, ~over, check = {}, backBy = Opposite(c),
           hist # <<>>, Undo, backBy' = Nobody,
           UNCHANGED <<over, check, locks, drawBy, lagging, task>>
    PROVE  IInv'
<1> USE DEF IInv
<1>1. /\ hist' \in Seq(Moves) /\ Len(hist') = Len(hist) - 1
      /\ Len(hist) \in Nat /\ Len(hist') \in Nat
  BY Shrunk DEF Undo, TypeOK
<1>2. \A d \in Colors : task[d].at \notin {"won", "landed"}
  BY AnswerAlone
<1>3. \A x \in log' : x \in log /\ x.ply \in Int /\ x.ply < Len(hist)
  BY DEF Undo, TypeOK, Outcomes
<1>4. TypeOK'
  BY <1>1, <1>3 DEF TypeOK
<1>5. CheckOnItsBoard' /\ CheckHeard' /\ LogBehind' /\ MissesAreLocked'
  BY <1>1, <1>3 DEF CheckOnItsBoard, CheckHeard, LogBehind, MissesAreLocked, MissedNow
<1>6. WonHolds' /\ AskStands' /\ LandedPly'
  BY <1>2, Opposites DEF WonHolds, AskStands, LandedPly, Nobody, Colors
<1> QED BY <1>4, <1>5, <1>6

-----------------------------------------------------------------------------
(* Every step keeps the invariant *)

LEMMA Suspends ==
    \A mv \in Moves : \A at \in {"retry", "won", "lost"} :
        [at |-> at, move |-> mv] \in Tasks
BY DEF Tasks

LEMMA IdleIsTask == Idle \in Tasks /\ Idle.at = "idle"
BY DEF Tasks, Idle

LEMMA TaskParts ==
    ASSUME TypeOK, NEW c \in Colors
    PROVE  /\ task[c].at \in {"retry", "won", "lost"} => task[c].move \in Moves
           /\ task[c].at = "landed" => task[c].won \in BOOLEAN
           /\ task[c].at = "idle" => task[c] = Idle
BY DEF TypeOK, Tasks, Idle

LEMMA MoveOnDeadKeeps ==
    ASSUME IInv, NEW c \in Colors, NEW mv \in Moves, MoveOnDead(c, mv)
    PROVE  IInv'
<1>1. PICK k \in check : Lose(k)
  BY DEF MoveOnDead
<1>2. /\ task' = [task EXCEPT ![c] = [at |-> "retry", move |-> mv]]
      /\ task \in [Colors -> Tasks] /\ task[c] = Idle
  BY DEF MoveOnDead, IInv, TypeOK
<1>3. task' \in [Colors -> Tasks]
  BY <1>2, Suspends
<1>4. \A d \in Colors : d # c => task'[d] = task[d]
  BY <1>2
<1>5. task'[c].at = "retry"
  BY <1>2
<1>6. UNCHANGED <<hist, over, drawBy, backBy, lagging>>
  BY DEF MoveOnDead, boardVars, offerVars
<1> QED BY <1>1, <1>2, <1>3, <1>4, <1>5, <1>6, IdleIsTask, LoseKeeps

LEMMA LostKeeps ==
    ASSUME IInv, NEW c \in Colors, Lost(c)
    PROVE  IInv'
<1>1. /\ task' = [task EXCEPT ![c] = Idle] /\ task \in [Colors -> Tasks]
      /\ task[c].at = "lost"
  BY DEF Lost, IInv, TypeOK
<1>2. task' \in [Colors -> Tasks] /\ task'[c].at = "idle"
      /\ \A d \in Colors : d # c => task'[d] = task[d]
  BY <1>1, IdleIsTask
<1>3. UNCHANGED <<hist, over, drawBy, backBy, lagging>>
  BY DEF Lost, boardVars, offerVars
<1>4. CASE check = {}
  <2>1. UNCHANGED <<check, locks, log>>
    BY <1>4 DEF Lost, checkVars
  <2>2. lagging' \subseteq Colors
    BY <1>3 DEF IInv, TypeOK
  <2> QED BY <1>1, <1>2, <1>3, <2>1, <2>2, QuietKeeps
<1>5. CASE check # {}
  <2>1. PICK k \in check : Lose(k)
    BY <1>5 DEF Lost
  <2> QED BY <1>1, <1>2, <1>3, <2>1, LoseKeeps
<1> QED BY <1>4, <1>5

LEMMA DeadlineKeeps == ASSUME IInv, Deadline PROVE IInv'
<1>1. PICK k \in check : Lose(k)
  BY DEF Deadline
<1>2. UNCHANGED <<hist, over, drawBy, backBy, lagging, task>> /\ task' \in [Colors -> Tasks]
  BY DEF Deadline, boardVars, offerVars, IInv, TypeOK
<1> QED BY <1>1, <1>2, LoseKeeps

\* A step that only lets the handler of one player go idle.
LEMMA GivesUpKeeps ==
    ASSUME IInv, NEW c \in Colors, task[c].at # "landed", task' = [task EXCEPT ![c] = Idle],
           UNCHANGED <<boardVars, checkVars, offerVars, lagging>>
    PROVE  IInv'
<1>1. task \in [Colors -> Tasks] /\ lagging' \subseteq Colors
  BY DEF IInv, TypeOK
<1>2. task' \in [Colors -> Tasks] /\ task'[c].at = "idle"
      /\ \A d \in Colors : d # c => task'[d] = task[d]
  BY <1>1, IdleIsTask
<1>3. UNCHANGED <<hist, over, check, locks, log, drawBy, backBy>>
  BY DEF boardVars, checkVars, offerVars
<1> QED BY <1>1, <1>2, <1>3, QuietKeeps

LEMMA MoveKeeps == ASSUME IInv, NEW c \in Colors, NEW mv \in Moves, Move(c, mv) PROVE IInv'
<1>1. ~over /\ check = {} /\ TryMove(c, mv) /\ task[c].at = "idle"
  BY IdleIsTask DEF Move
<1> QED BY <1>1, TryKeeps

\* A player whose own move is tried again has no check running.
LEMMA RetryAlone ==
    ASSUME IInv, NEW c \in Colors, task[c].at = "retry", c = ToMove
    PROVE  check = {}
BY DEF IInv, CheckOnItsBoard, CheckHeard

LEMMA RetryKeeps == ASSUME IInv, NEW c \in Colors, Retry(c) PROVE IInv'
<1>1. task[c].at = "retry" /\ task[c].move \in Moves
  BY TaskParts DEF Retry, IInv
<1>2. CASE ~over /\ Playable(c, task[c].move)
  <2>1. check = {} /\ TryMove(c, task[c].move)
    BY <1>1, <1>2, RetryAlone DEF Retry, Playable
  <2> QED BY <1>1, <1>2, <2>1, TryKeeps
<1>3. CASE ~(~over /\ Playable(c, task[c].move))
  <2>1. task' = [task EXCEPT ![c] = Idle] /\ UNCHANGED <<boardVars, checkVars, offerVars, lagging>>
    BY <1>3 DEF Retry
  <2> QED BY <1>1, <2>1, GivesUpKeeps
<1> QED BY <1>2, <1>3

LEMMA WonKeeps == ASSUME IInv, NEW c \in Colors, Won(c) PROVE IInv'
<1>1. task[c].at = "won"
  BY DEF Won
<1>2. CASE ~over /\ task[c].move \in Available
  <2>1. check = {} /\ c = ToMove
    BY <1>1, <1>2 DEF IInv, WonHolds
  <2>2. Land(c, task[c].move, TRUE)
    BY <1>2 DEF Won
  <2> QED BY <1>1, <1>2, <2>1, <2>2, LandKeeps
<1>3. CASE ~(~over /\ task[c].move \in Available)
  <2>1. task' = [task EXCEPT ![c] = Idle] /\ UNCHANGED <<boardVars, checkVars, offerVars, lagging>>
    BY <1>3 DEF Won
  <2> QED BY <1>1, <2>1, GivesUpKeeps
<1> QED BY <1>2, <1>3

LEMMA LandedKeeps == ASSUME IInv, NEW c \in Colors, Landed(c) PROVE IInv'
<1> USE DEF IInv
<1>1. /\ hist' = hist /\ over' = over /\ check' = check /\ locks' = locks /\ lagging' = lagging
      /\ drawBy' = Nobody /\ backBy' = Nobody
  BY DEF Landed, boardVars, Record
<1>2. task' \in [Colors -> Tasks] /\ task'[c].at = "idle"
      /\ \A d \in Colors : d # c => task'[d] = task[d]
  <2>1. task' = [task EXCEPT ![c] = Idle] /\ task \in [Colors -> Tasks]
    BY DEF Landed, TypeOK
  <2> QED BY <2>1, IdleIsTask
<1>3. Len(hist) \in 1..MaxPlies /\ hist[Len(hist)] \in Moves
  <2>1. hist \in Seq(Moves) /\ hist # <<>> /\ Len(hist) <= MaxPlies
    BY DEF Landed, LandedPly, TypeOK
  <2>2. Len(hist) \in 1..Len(hist)
    BY <2>1, LenProperties, EmptySeq
  <2>3. hist[Len(hist)] \in Moves
    BY <2>1, <2>2, ElementOfSeq
  <2> QED BY <2>1, <2>2, <2>3, LenProperties
<1>4. \A x \in log' : x \in log \/ x = Outcome(Len(hist), hist[Len(hist)], TRUE)
  BY <1>1 DEF Landed, Record
<1>5. TypeOK'
  <2>1. Outcome(Len(hist), hist[Len(hist)], TRUE) \in Outcomes
    BY <1>3 DEF Outcome, Outcomes
  <2>2. log' \subseteq Outcomes
    BY <2>1, <1>4 DEF TypeOK
  <2> QED BY <1>1, <1>2, <2>2 DEF TypeOK
<1>6. CheckOnItsBoard' /\ CheckHeard'
  BY <1>1, <1>2 DEF CheckOnItsBoard, CheckHeard, ToMove, Available, TypeOK, Checks
<1>7. LogBehind' /\ MissesAreLocked'
  BY <1>1, <1>3, <1>4 DEF LogBehind, MissesAreLocked, MissedNow, Outcome
<1>8. WonHolds' /\ LandedPly'
  BY <1>1, <1>2 DEF WonHolds, LandedPly, ToMove, Available
<1>9. AskStands'
  BY <1>1 DEF AskStands, Nobody, Colors
<1> QED BY <1>5, <1>6, <1>7, <1>8, <1>9

LEMMA WinningShotKeeps == ASSUME IInv, NEW c \in Colors, WinningShot(c) PROVE IInv'
<1> USE DEF IInv
<1>1. PICK k \in check : k.color = c /\ task' = [task EXCEPT ![c] = [at |-> "won", move |-> k.move]]
  BY DEF WinningShot
<1>2. k.move \in Moves /\ task \in [Colors -> Tasks]
  BY DEF TypeOK, Checks
<1>3. /\ task' \in [Colors -> Tasks] /\ task'[c].at = "won" /\ task'[c].move = k.move
      /\ \A d \in Colors : d # c => task'[d] = task[d]
  BY <1>1, <1>2, Suspends
<1>4. /\ UNCHANGED <<hist, over, locks, log, drawBy, backBy, lagging>> /\ check' = {}
      /\ task[c].at = "idle"
  BY IdleIsTask DEF WinningShot, boardVars, offerVars
<1>5. TypeOK'
  BY <1>3, <1>4 DEF TypeOK
<1>6. CheckOnItsBoard' /\ CheckHeard' /\ LogBehind' /\ MissesAreLocked'
  BY <1>4 DEF CheckOnItsBoard, CheckHeard, LogBehind, MissesAreLocked, MissedNow
<1>7. WonHolds'
  BY <1>1, <1>3, <1>4 DEF WonHolds, CheckOnItsBoard, ToMove, Available
<1>8. AskStands' /\ LandedPly'
  BY <1>3, <1>4, Opposites DEF AskStands, LandedPly, ToMove
<1> QED BY <1>5, <1>6, <1>7, <1>8

LEMMA LosingShotKeeps == ASSUME IInv, NEW c \in Colors, LosingShot(c) PROVE IInv'
<1>1. PICK k \in check : task' = [task EXCEPT ![c] = [at |-> "lost", move |-> k.move]]
  BY DEF LosingShot
<1>2. k.move \in Moves /\ task \in [Colors -> Tasks] /\ lagging \subseteq Colors
  BY DEF IInv, TypeOK, Checks
<1>3. /\ task' \in [Colors -> Tasks] /\ task'[c].at = "lost"
      /\ \A d \in Colors : d # c => task'[d] = task[d]
  BY <1>1, <1>2, Suspends
<1>4. UNCHANGED <<hist, over, check, locks, log, drawBy, backBy, lagging>> /\ task[c].at = "idle"
  BY IdleIsTask DEF LosingShot, boardVars, checkVars, offerVars
<1> QED BY <1>2, <1>3, <1>4, QuietKeeps

LEMMA DiesKeeps == ASSUME IInv, Dies PROVE IInv'
<1> USE DEF IInv
<1>1. PICK k \in check : check' = {[k EXCEPT !.dead = TRUE]}
  BY DEF Dies
<1>2. /\ [k EXCEPT !.dead = TRUE] \in Checks
      /\ [k EXCEPT !.dead = TRUE].color = k.color /\ [k EXCEPT !.dead = TRUE].move = k.move
  BY DEF TypeOK, Checks
<1>3. UNCHANGED <<hist, over, locks, log, drawBy, backBy, lagging, task>>
  BY DEF Dies, boardVars, offerVars
<1>4. TypeOK'
  BY <1>1, <1>2, <1>3 DEF TypeOK
<1>5. CheckOnItsBoard' /\ CheckHeard'
  BY <1>1, <1>2, <1>3 DEF CheckOnItsBoard, CheckHeard, ToMove, Available
<1>6. LogBehind' /\ MissesAreLocked' /\ AskStands' /\ LandedPly'
  BY <1>3 DEF LogBehind, MissesAreLocked, MissedNow, AskStands, LandedPly, ToMove
<1>7. WonHolds'
  BY <1>3 DEF WonHolds
<1> QED BY <1>4, <1>5, <1>6, <1>7

\* Steps that only mark a player as lagging or caught up.
LEMMA LaggingKeeps ==
    ASSUME IInv, NEW c \in Colors, Lags(c) \/ CatchesUp(c)
    PROVE  IInv'
<1>1. UNCHANGED <<hist, over, check, locks, log, drawBy, backBy, task>> /\ lagging' \subseteq Colors
  BY DEF Lags, CatchesUp, boardVars, checkVars, offerVars, IInv, TypeOK
<1>2. task' \in [Colors -> Tasks]
  BY <1>1 DEF IInv, TypeOK
<1> QED BY <1>1, <1>2, QuietKeeps

\* An offer of a draw that ends nothing.
LEMMA DrawKeeps ==
    ASSUME IInv, drawBy' \in Colors \cup {Nobody},
           UNCHANGED <<hist, over, check, locks, log, backBy, lagging, task>>
    PROVE  IInv'
BY DEF IInv, TypeOK, CheckOnItsBoard, CheckHeard, LogBehind, MissesAreLocked, MissedNow,
       WonHolds, AskStands, LandedPly, ToMove, Available

LEMMA OfferDrawKeeps ==
    ASSUME IInv, NEW c \in Colors, OfferDraw(c) \/ AnswerDraw(c)
    PROVE  IInv'
<1>1. UNCHANGED <<hist, locks, log, backBy, lagging, task>> /\ ~over
  BY DEF OfferDraw, AnswerDraw
<1>2. drawBy' \in Colors \cup {Nobody}
  BY DEF OfferDraw, AnswerDraw
<1>3. Ends \/ UNCHANGED <<over, check>>
  BY DEF OfferDraw, AnswerDraw
<1> QED BY <1>1, <1>2, <1>3, EndKeeps, DrawKeeps

LEMMA AskKeeps == ASSUME IInv, NEW c \in Colors, AskTakeback(c) PROVE IInv'
<1> USE DEF IInv
<1>1. /\ UNCHANGED <<hist, over, check, locks, log, drawBy, lagging, task>>
      /\ backBy' = c /\ c # ToMove /\ task[c].at = "idle"
  BY IdleIsTask DEF AskTakeback, boardVars, checkVars
<1>2. TypeOK' /\ CheckOnItsBoard' /\ CheckHeard' /\ LogBehind' /\ MissesAreLocked'
  BY <1>1 DEF TypeOK, CheckOnItsBoard, CheckHeard, LogBehind, MissesAreLocked, MissedNow,
              ToMove, Available
<1>3. WonHolds' /\ AskStands' /\ LandedPly'
  BY <1>1 DEF WonHolds, AskStands, LandedPly, ToMove, Available
<1> QED BY <1>2, <1>3

LEMMA AnswerKeeps == ASSUME IInv, NEW c \in Colors, AnswerTakeback(c) PROVE IInv'
<1>1. /\ UNCHANGED <<over, check, locks, drawBy, lagging, task>>
      /\ task[c] = Idle /\ ~over /\ check = {} /\ backBy = Opposite(c) /\ backBy' = Nobody
  BY DEF AnswerTakeback
<1>2. CASE UNCHANGED <<hist, log>>
  BY <1>1, <1>2 DEF IInv, TypeOK, CheckOnItsBoard, CheckHeard, LogBehind, MissesAreLocked,
       MissedNow, WonHolds, AskStands, LandedPly, ToMove, Available, Nobody, Colors
<1>3. CASE Undo
  <2>1. hist # <<>>
    BY <1>1, Opposites DEF IInv, LandedPly, Nobody, Colors
  <2> QED BY <1>1, <1>3, <2>1, UndoKeeps
<1> QED BY <1>2, <1>3 DEF AnswerTakeback

-----------------------------------------------------------------------------
(* The invariant, and what follows from it *)

LEMMA Step == ASSUME IInv, [Next]_vars PROVE IInv'
<1>1. CASE Dies \/ Deadline \/ End
  <2>1. CASE End
    BY <2>1, EndKeeps DEF End, offerVars, IInv, TypeOK
  <2> QED BY <1>1, <2>1, DiesKeeps, DeadlineKeeps
<1>2. CASE \E c \in Colors, mv \in Moves : Move(c, mv) \/ MoveOnDead(c, mv)
  BY <1>2, MoveKeeps, MoveOnDeadKeeps
<1>3. CASE \E c \in Colors : Retry(c) \/ Landed(c) \/ Won(c) \/ Lost(c)
  BY <1>3, RetryKeeps, LandedKeeps, WonKeeps, LostKeeps
<1>4. CASE \E c \in Colors : WinningShot(c) \/ LosingShot(c)
  BY <1>4, WinningShotKeeps, LosingShotKeeps
<1>5. CASE \E c \in Colors : Lags(c) \/ CatchesUp(c)
  BY <1>5, LaggingKeeps
<1>6. CASE \E c \in Colors : OfferDraw(c) \/ AnswerDraw(c) \/ AskTakeback(c) \/ AnswerTakeback(c)
  BY <1>6, OfferDrawKeeps, AskKeeps, AnswerKeeps
<1>7. CASE UNCHANGED vars
  BY <1>7, DrawKeeps DEF vars, IInv, TypeOK
<1> QED BY <1>1, <1>2, <1>3, <1>4, <1>5, <1>6, <1>7 DEF Next

LEMMA Invariance == Spec => []IInv
<1>1. Init => IInv
  BY Starts
<1>2. IInv /\ [Next]_vars => IInv'
  BY Step
<1> QED BY <1>1, <1>2, PTL DEF Spec

\* Every variable of a game keeps its type, and the board stays within its bound.
THEOREM TypeCorrect == Spec => []TypeOK
<1>1. IInv => TypeOK
  BY DEF IInv
<1> QED BY <1>1, Invariance, PTL

\* _arm_skillcheck and everything that runs beside it: a check stays on the board it was
\* drawn on, and its loss leaves another move.
THEOREM CheckStays == Spec => []CheckOnItsBoard
<1>1. IInv => CheckOnItsBoard
  BY DEF IInv
<1> QED BY <1>1, Invariance, PTL

\* resolve_skillcheck_fail: what the log calls a miss of this turn, the move handler
\* finds locked.
THEOREM MissesLocked == Spec => []MissesAreLocked
<1>1. IInv => MissesAreLocked
  BY DEF IInv
<1> QED BY <1>1, Invariance, PTL

-----------------------------------------------------------------------------
(* What the single steps do to board and misses *)

\* A step without a miss, a ply or an ending.
Still == UNCHANGED <<hist, MissedNow, over>>

LEMMA LoseMisses ==
    ASSUME IInv, NEW k \in check, Lose(k), UNCHANGED <<hist, over>>
    PROVE  T!Miss
<1>1. /\ ~over /\ k.move \in Available \ locks
      /\ \E other \in Available \ locks : other # k.move
  BY DEF IInv, CheckOnItsBoard
<1>2. MissedNow \subseteq locks
  BY DEF IInv, MissesAreLocked
<1>3. MissedNow' = MissedNow \cup {k.move}
  <2> DEFINE miss == Outcome(Len(hist) + 1, k.move, FALSE)
  <2>1. miss.move = k.move /\ miss.ply = Len(hist) + 1 /\ ~miss.won
    BY DEF Outcome
  <2>2. log' = log \cup {miss}
    BY DEF Lose
  <2> HIDE DEF miss
  <2>3. \A mv : mv \in MissedNow' <=>
               \E x \in log' : ~x.won /\ x.ply = Len(hist) + 1 /\ mv = x.move
    BY DEF MissedNow
  <2>4. \A mv : mv \in MissedNow <=>
               \E x \in log : ~x.won /\ x.ply = Len(hist) + 1 /\ mv = x.move
    BY DEF MissedNow
  <2> QED BY <2>1, <2>2, <2>3, <2>4
<1> QED BY <1>1, <1>2, <1>3 DEF T!Miss, Available

LEMMA LandPlays ==
    ASSUME IInv, NEW c \in Colors, NEW mv \in Available \ locks, NEW won \in BOOLEAN,
           ~over, Land(c, mv, won)
    PROVE  T!Play
<1>1. mv \in Moves
  BY RoomForPly DEF IInv, TypeOK
<1>2. hist' = Append(hist, mv) /\ over' = over
  BY DEF Land
<1>3. Len(hist') = Len(hist) + 1 /\ Len(hist) \in Nat /\ hist'[Len(hist')] = mv
  BY <1>1, <1>2, Grown DEF IInv, TypeOK
<1>4. \A x \in log' : x \in log \/ x.won = TRUE
  BY DEF Land, Record, Outcome, offerVars
<1>5. MissedNow' = {}
  BY <1>3, <1>4 DEF MissedNow, IInv, LogBehind, TypeOK, Outcomes
<1>6. mv \in Available \ MissedNow
  BY DEF IInv, MissesAreLocked
<1> QED BY <1>2, <1>5, <1>6 DEF T!Play, Available

LEMMA TryPlays ==
    ASSUME IInv, NEW c \in Colors, NEW mv \in Moves, ~over, TryMove(c, mv)
    PROVE  T!Play \/ Still
<1>1. CASE Arm(c, mv)
  BY <1>1 DEF Arm, Still, MissedNow, boardVars
<1>2. CASE Land(c, mv, FALSE)
  BY <1>2, LandPlays DEF TryMove, Playable
<1> QED BY <1>1, <1>2 DEF TryMove

LEMMA UndoUndoes ==
    ASSUME IInv, Undo, ~over, hist # <<>>, UNCHANGED over
    PROVE  T!Undo
<1>1. hist' = SubSeq(hist, 1, Len(hist) - 1) /\ Len(hist') = Len(hist) - 1 /\ Len(hist) \in Nat
  BY Shrunk DEF Undo, IInv, TypeOK
<1>2. MissedNow' = {}
  BY <1>1 DEF MissedNow, Undo, IInv, TypeOK, Outcomes
<1> QED BY <1>1, <1>2 DEF T!Undo

LEMMA EndEnds ==
    ASSUME ~over, Ends, UNCHANGED <<hist, log>>
    PROVE  T!End
BY DEF Ends, T!End, MissedNow

LEMMA StillStays == ASSUME UNCHANGED <<hist, log, over>> PROVE Still
BY DEF Still, MissedNow

\* The actions that move nothing on the board.
LEMMA QuietSteps ==
    ASSUME NEW c \in Colors,
           WinningShot(c) \/ LosingShot(c) \/ Lags(c) \/ CatchesUp(c) \/ AskTakeback(c)
    PROVE  UNCHANGED <<hist, log, over>>
BY DEF WinningShot, LosingShot, Lags, CatchesUp, AskTakeback, boardVars, checkVars

LEMMA LandedIsStill == ASSUME IInv, NEW c \in Colors, Landed(c) PROVE Still
<1>1. hist' = hist /\ over' = over
  BY DEF Landed, boardVars
<1>2. \A x : x \in log' /\ ~x.won <=> x \in log /\ ~x.won
  BY <1>1 DEF Landed, Record, Outcome
<1>3. MissedNow' = MissedNow
  BY <1>1, <1>2 DEF MissedNow
<1> QED BY <1>1, <1>3 DEF Still

\* Every step of the handlers is a step of Turns, or changes nothing it speaks of.
LEMMA StepTakesTurns == ASSUME IInv, [Next]_vars PROVE T!Next \/ Still
<1> USE DEF T!Next
<1>1. ASSUME NEW c \in Colors, NEW mv \in Moves, Move(c, mv) PROVE T!Play \/ Still
  BY <1>1, TryPlays DEF Move
<1>2. ASSUME NEW c \in Colors, NEW mv \in Moves, MoveOnDead(c, mv) PROVE T!Miss
  BY <1>2, LoseMisses DEF MoveOnDead, boardVars
<1>3. ASSUME NEW c \in Colors, Retry(c) PROVE T!Play \/ Still
  <2>1. task[c].move \in Moves
    BY <1>3, TaskParts DEF Retry, IInv
  <2>2. CASE ~over /\ Playable(c, task[c].move)
    BY <1>3, <2>1, <2>2, TryPlays DEF Retry
  <2>3. CASE ~(~over /\ Playable(c, task[c].move))
    BY <1>3, <2>3, StillStays DEF Retry, boardVars, checkVars
  <2> QED BY <2>2, <2>3
<1>4. ASSUME NEW c \in Colors, Won(c) PROVE T!Play \/ Still
  <2>1. CASE ~over /\ task[c].move \in Available
    <3>1. task[c].move \in Available \ locks /\ Land(c, task[c].move, TRUE)
      BY <1>4, <2>1 DEF Won, IInv, WonHolds
    <3> QED BY <2>1, <3>1, LandPlays
  <2>2. CASE ~(~over /\ task[c].move \in Available)
    BY <1>4, <2>2, StillStays DEF Won, boardVars, checkVars
  <2> QED BY <2>1, <2>2
<1>5. ASSUME NEW c \in Colors, Lost(c) PROVE T!Miss \/ Still
  <2>1. UNCHANGED <<hist, over>>
    BY <1>5 DEF Lost, boardVars
  <2>2. CASE check = {}
    BY <1>5, <2>1, <2>2, StillStays DEF Lost, checkVars
  <2>3. CASE check # {}
    BY <1>5, <2>1, <2>3, LoseMisses DEF Lost
  <2> QED BY <2>2, <2>3
<1>6. ASSUME Dies \/ Deadline \/ End PROVE T!Next \/ Still
  <2>1. CASE Dies
    BY <2>1, StillStays DEF Dies, boardVars
  <2>2. CASE Deadline
    BY <2>2, LoseMisses DEF Deadline, boardVars
  <2>3. CASE End
    BY <2>3, EndEnds DEF End
  <2> QED BY <1>6, <2>1, <2>2, <2>3
<1>7. ASSUME NEW c \in Colors, OfferDraw(c) \/ AnswerDraw(c) PROVE T!End \/ Still
  <2>1. /\ ~over /\ UNCHANGED <<hist, log>>
        /\ Ends \/ UNCHANGED <<over, check>>
    BY <1>7 DEF OfferDraw, AnswerDraw
  <2> QED BY <2>1, EndEnds, StillStays
<1>8. ASSUME NEW c \in Colors, AnswerTakeback(c) PROVE T!Undo \/ Still
  <2>1. /\ ~over /\ over' = over
        /\ backBy = Opposite(c)
        /\ Undo \/ UNCHANGED <<hist, log>>
    BY <1>8 DEF AnswerTakeback
  <2>2. hist # <<>>
    BY <2>1, Opposites DEF IInv, LandedPly, Nobody, Colors
  <2> QED BY <2>1, <2>2, UndoUndoes, StillStays
<1>9. CASE UNCHANGED vars
  BY <1>9, StillStays DEF vars
<1> QED BY <1>1, <1>2, <1>3, <1>4, <1>5, <1>6, <1>7, <1>8, <1>9, QuietSteps, StillStays,
           LandedIsStill DEF Next

\* The move handler with its skill-check gate, the sweep and the offers implement the
\* abstract game of Turns.
THEOREM Implements == Spec => TakesTurns
<1>1. Init => T!Init
  BY DEF Init, T!Init, MissedNow
<1>2. IInv /\ [Next]_vars => [T!Next]_(T!vars)
  BY StepTakesTurns DEF Still, T!vars
<1> QED BY <1>1, <1>2, Invariance, PTL DEF Spec, TakesTurns, T!Spec

-----------------------------------------------------------------------------
(* Steps of a suspended handler, and steps that shorten the history *)

\* Nobody else's handler moves.
Only(d) == \A c \in Colors : c # d => task'[c] = task[c]

LEMMA TryOnly ==
    ASSUME TypeOK, NEW d \in Colors, NEW mv \in Moves, TryMove(d, mv)
    PROVE  Only(d)
BY DEF TryMove, Arm, Land, Only, TypeOK

\* While a winning shot is being shown, its handler does nothing but land the move.
LEMMA WonMoves ==
    ASSUME IInv, [Next]_vars, NEW c \in Colors, task[c].at = "won", task'[c] # task[c]
    PROVE  Won(c)
<1> USE DEF IInv
<1>1. task[c] # Idle
  BY IdleIsTask
<1>2. ASSUME NEW d \in Colors, NEW mv \in Moves, Move(d, mv) \/ MoveOnDead(d, mv) PROVE FALSE
  BY <1>1, <1>2, TryOnly DEF Move, MoveOnDead, Only, TypeOK
<1>3. ASSUME NEW d \in Colors, Retry(d) PROVE FALSE
  <2>1. task[d].at = "retry" /\ task[d].move \in Moves
    BY <1>3, TaskParts DEF Retry
  <2>2. Only(d)
    BY <1>3, <2>1, TryOnly DEF Retry, Only, TypeOK
  <2> QED BY <2>1, <2>2 DEF Only
<1>4. ASSUME NEW d \in Colors, Landed(d) \/ Lost(d) PROVE FALSE
  BY <1>4 DEF Landed, Lost, TypeOK
<1>5. ASSUME NEW d \in Colors, Won(d) PROVE d = c
  BY <1>5 DEF Won, Land, TypeOK
<1>6. ASSUME NEW d \in Colors, WinningShot(d) \/ LosingShot(d) PROVE FALSE
  BY <1>1, <1>6 DEF WinningShot, LosingShot, TypeOK
<1>7. ASSUME NEW d \in Colors,
             Lags(d) \/ CatchesUp(d) \/ OfferDraw(d) \/ AnswerDraw(d) \/ AskTakeback(d)
                \/ AnswerTakeback(d)
      PROVE  FALSE
  BY <1>7 DEF Lags, CatchesUp, OfferDraw, AnswerDraw, AskTakeback, AnswerTakeback
<1>8. CASE Dies \/ Deadline \/ End \/ UNCHANGED vars
  BY <1>8 DEF Dies, Deadline, End, vars
<1> QED BY <1>2, <1>3, <1>4, <1>5, <1>6, <1>7, <1>8 DEF Next

\* handle_skill_check_shot: the move of a won check lands on the board it was won on.
THEOREM WonLands == Spec => WonMoveLands
<1>1. ASSUME IInv, [Next]_vars
      PROVE  \A c \in Colors : task[c].at = "won" /\ task'[c] # task[c] /\ ~over
                                  => hist' = Append(hist, task[c].move)
  <2> SUFFICES ASSUME NEW c \in Colors, task[c].at = "won", task'[c] # task[c], ~over
               PROVE  hist' = Append(hist, task[c].move)
    OBVIOUS
  <2>1. task[c].move \in Available
    BY <1>1 DEF IInv, WonHolds
  <2>2. Won(c)
    BY <1>1, WonMoves
  <2> QED BY <2>1, <2>2 DEF Won, Land
<1> QED BY <1>1, Invariance, PTL DEF Spec, WonMoveLands

\* No step but an agreed takeback shortens the history.
LEMMA Shortens ==
    ASSUME IInv, [Next]_vars, Len(hist') < Len(hist)
    PROVE  \E c \in Colors : AnswerTakeback(c) /\ Undo
<1>1. Len(hist) \in Nat /\ hist \in Seq(Moves)
  BY LenProperties DEF IInv, TypeOK
<1>2. hist' # hist
  BY <1>1
<1>3. ASSUME NEW c \in Colors, NEW mv \in Available, NEW won \in BOOLEAN, Land(c, mv, won)
      PROVE  FALSE
  <2>1. mv \in Moves
    BY RoomForPly DEF IInv, TypeOK
  <2> QED BY <1>1, <1>3, <2>1, Grown DEF Land
<1>4. ASSUME NEW c \in Colors, NEW mv \in Moves, TryMove(c, mv) PROVE FALSE
  BY <1>2, <1>3, <1>4 DEF TryMove, Playable, Arm, boardVars
<1>5. ASSUME NEW c \in Colors, NEW mv \in Moves, Move(c, mv) \/ MoveOnDead(c, mv) PROVE FALSE
  BY <1>2, <1>4, <1>5 DEF Move, MoveOnDead, boardVars
<1>6. ASSUME NEW c \in Colors, Retry(c) \/ Landed(c) \/ Won(c) \/ Lost(c) PROVE FALSE
  <2>1. CASE Retry(c)
    <3>1. task[c].move \in Moves
      BY <2>1, TaskParts DEF Retry, IInv
    <3> QED BY <1>2, <1>4, <2>1, <3>1 DEF Retry, boardVars
  <2>2. CASE Won(c)
    BY <1>2, <1>3, <2>2 DEF Won, boardVars
  <2> QED BY <1>2, <1>6, <2>1, <2>2 DEF Landed, Lost, boardVars
<1>7. ASSUME NEW c \in Colors,
             WinningShot(c) \/ LosingShot(c) \/ Lags(c) \/ CatchesUp(c) \/ AskTakeback(c)
      PROVE  FALSE
  BY <1>2, <1>7, QuietSteps
<1>8. ASSUME NEW c \in Colors, OfferDraw(c) \/ AnswerDraw(c) PROVE FALSE
  BY <1>2, <1>8 DEF OfferDraw, AnswerDraw
<1>9. ASSUME NEW c \in Colors, AnswerTakeback(c) PROVE Undo
  BY <1>2, <1>9 DEF AnswerTakeback
<1>10. CASE Dies \/ Deadline \/ End \/ UNCHANGED vars
  BY <1>2, <1>10 DEF Dies, Deadline, End, vars, boardVars
<1> QED BY <1>5, <1>6, <1>7, <1>8, <1>9, <1>10 DEF Next

\* handle_takeback_request and handle_takeback_response together: only the player who
\* made the last move gets it back, although requests outlive moves for a while.
THEOREM OwnTakebacks == Spec => TakebackOfOwnMove
<1>1. ASSUME IInv, [Next]_vars
      PROVE  Len(hist') < Len(hist) => backBy = T!MoverAt(Len(hist) - 1)
  <2> SUFFICES ASSUME Len(hist') < Len(hist) PROVE backBy = T!MoverAt(Len(hist) - 1)
    OBVIOUS
  <2>1. PICK c \in Colors : AnswerTakeback(c) /\ Undo
    BY <1>1, Shortens
  <2>2. backBy = Opposite(c) /\ backBy # ToMove /\ backBy # Nobody
    BY <1>1, <2>1, AnswerAlone, Opposites DEF AnswerTakeback, Nobody, Colors
  <2>3. hist # <<>>
    BY <1>1, <2>2 DEF IInv, LandedPly
  <2>4. ToMove' = T!MoverAt(Len(hist) - 1) /\ ToMove = Opposite(ToMove') /\ ToMove' \in Colors
    BY <1>1, <2>1, <2>3, Shrunk, Turns DEF IInv, TypeOK, Undo, ToMove
  <2> QED BY <2>2, <2>4, Opposites
<1> QED BY <1>1, Invariance, PTL DEF Spec, TakebackOfOwnMove
=============================================================================
