--------------------------- MODULE GameRoomProofs ---------------------------
(* Proofs about GameRoom, for any deadlines and any bounds. *)
EXTENDS GameRoom, TLAPS

LEMMA SeatType ==
    ASSUME white \in Players
    PROVE  /\ \A c \in Colors : Seat(c) \in Players
           /\ \A p \in Players : ColorOf(p) \in Colors /\ Other(p) \in Players
           /\ \A c \in Colors : Opp(c) \in Colors
           /\ ToMove \in Colors
BY PlayersAssumption DEF Seat, ColorOf, Other, Opp, ToMove, Colors, Players

LEMMA OlderType ==
    ASSUME NEW limit \in Nat \ {0}
    PROVE  /\ \A age \in Ages(limit) : Older(age, limit) \in Ages(limit)
           /\ \A age \in 0..limit : Older(age, limit) \in 0..limit
BY DEF Older, Ages, Off

LEMMA AwardType ==
    ASSUME TypeOK, NEW r \in Results
    PROVE  Award(r) \in [Players -> Nat]
BY SeatType DEF Award, TypeOK, Results, Colors

LEMMA RecordedType ==
    ASSUME NEW reason \in Reasons, NEW winner \in Colors \cup {"none"}
    PROVE  Recorded(reason, winner) \in Results
BY DEF Recorded, Results, Reasons

LEMMA VerdictType ==
    ASSUME TypeOK, NEW flag \in Colors \cup {"none"}, Verdict(flag) # NoResult
    PROVE  /\ Verdict(flag).reason \in Reasons
           /\ Verdict(flag).winner \in Colors \cup {"none"}
BY SeatType DEF Verdict, TypeOK, Reasons, Colors, Positions, Opp, NoResult

LEMMA FinalizeType ==
    ASSUME TypeOK, NEW reason \in Reasons, NEW winner \in Colors \cup {"none"},
           Finalize(reason, winner)
    PROVE  /\ result' \in Results \cup {NoResult}
           /\ endedFor' \in Ages(RematchCap) /\ activeFor' \in Ages(RematchIdle)
           /\ disconnectedFor' \in [Players -> Ages(Grace)]
           /\ idleFor' \in Ages(IdleWindow)
           /\ atResult' \in [Players -> BOOLEAN]
           /\ score' \in [Players -> Nat] /\ decided' \in Nat
<1>1. CASE inTable /\ Live
  <2> DEFINE r == Recorded(reason, winner)
  <2>1. r \in Results
    BY RecordedType
  <2>2. /\ result' = r /\ endedFor' = 0 /\ activeFor' = 0
        /\ disconnectedFor' = [p \in Players |->
               IF disconnectedFor[p] = Off THEN Off ELSE 0]
        /\ idleFor' = Off
        /\ atResult' = [p \in Players |-> TRUE]
        /\ score' = Award(r)
        /\ decided' = IF r.reason = "aborted" THEN decided ELSE decided + 1
    BY <1>1 DEF Finalize
  <2>3. score' \in [Players -> Nat]
    BY <2>1, <2>2, AwardType
  <2> HIDE DEF r
  <2>4. QED
    BY <2>1, <2>2, <2>3, TimersAssumption DEF TypeOK, Ages, Off
<1>2. CASE ~(inTable /\ Live)
  BY <1>2 DEF Finalize, TypeOK, endVars
<1>3. QED
  BY <1>1, <1>2

LEMMA MarkedType ==
    ASSUME TypeOK, NEW p \in Players, Marked(p)
    PROVE  /\ connected' \in [Players -> BOOLEAN]
           /\ disconnectedFor' \in [Players -> Ages(Grace)]
<1>1. 0 \in Ages(Grace)
  BY TimersAssumption DEF Ages
<1>2. CASE inTable /\ connected[p]
  BY <1>1, <1>2 DEF Marked, TypeOK
<1>3. CASE ~(inTable /\ connected[p])
  BY <1>3 DEF Marked, TypeOK
<1>4. QED
  BY <1>2, <1>3

LEMMA VerdictIs ==
    ASSUME TypeOK, NEW flag \in Colors \cup {"none"}
    PROVE  Verdict(flag) \in Verdicts
BY SeatType DEF Verdict, Verdicts, TypeOK, Colors, Positions, Opp

\* A suspended handler that holds a verdict holds a result.
LEMMA SaysType ==
    ASSUME NEW h \in Handling, h.says # NoResult
    PROVE  /\ h.says.reason \in Reasons \ {"abandonment"}
           /\ h.says.winner \in Colors \cup {"none"}
BY DEF Handling, Verdicts, Reasons

LEMMA DoingType ==
    /\ Idle \in Handling
    /\ \A what \in {"move", "takeback", "decline"} : Doing(what) \in Handling
BY DEF Idle, Doing, Handling, Verdicts

LEMMA SupersedeType ==
    ASSUME TypeOK, NEW p \in Players, Supersede(p)
    PROVE  handler' \in [Players -> Handling] /\ late' \in [Players -> Handling]
BY DoingType DEF Supersede, TypeOK

LEMMA ReturnsType ==
    ASSUME TypeOK, NEW p \in Players, NEW h, Returns(p, h)
    PROVE  handler' \in [Players -> Handling] /\ late' \in [Players -> Handling]
BY DoingType DEF Returns, TypeOK

LEMMA OutdatedType ==
    ASSUME TypeOK, NEW h \in Handling
    PROVE  Outdated(h) \in Handling
<1>1. Verdict(flagged) \in Verdicts
  BY VerdictIs DEF TypeOK
<1>2. CASE h.doing = "move"
  BY <1>1, <1>2 DEF Outdated, Handling
<1>3. CASE h.doing # "move"
  BY <1>3 DEF Outdated
<1>4. QED
  BY <1>2, <1>3

LEMMA TypeInit == Init => TypeOK
BY TimersAssumption
   DEF Init, TypeOK, Ages, Off, Positions, Colors, Players, NoResult, Handling, Verdicts,
       Idle, Doing

LEMMA TypeConnect == ASSUME TypeOK, NEW p \in Players, Connect(p) PROVE TypeOK'
BY TimersAssumption, SupersedeType
   DEF Connect, Ages, TypeOK, slotVars, boardVars, endVars, seriesVars,
       taskVars, sweepVars

LEMMA TypeDisconnect ==
    ASSUME TypeOK, NEW p \in Players, Disconnect(p) PROVE TypeOK'
BY MarkedType
   DEF Disconnect, TypeOK, slotVars, boardVars, endVars, seriesVars,
       taskVars, sweepVars

LEMMA TypePing == ASSUME TypeOK, NEW p \in Players, Ping(p) PROVE TypeOK'
BY TimersAssumption
   DEF Ping, Heard, TypeOK, slotVars, boardVars, endVars, seriesVars,
       taskVars, sweepVars

LEMMA TypeAct == ASSUME TypeOK, NEW p \in Players, Act(p) PROVE TypeOK'
BY TimersAssumption
   DEF Act, Heard, TouchIdle, Ages, TypeOK, slotVars, boardVars, endVars, seriesVars,
       taskVars, sweepVars

LEMMA TypeMove == ASSUME TypeOK, NEW p \in Players, Move(p) PROVE TypeOK'
BY TimersAssumption, SeatType, DoingType
   DEF Move, Heard, Ages, TypeOK, slotVars, boardVars, endVars, seriesVars,
       taskVars, sweepVars

\* What the end of a ply's announcement can do to the room.
LEMMA MoveSentEnds ==
    ASSUME TypeOK, NEW p \in Players, MoveSent(p)
    PROVE  \/ UNCHANGED <<endVars, disconnectedFor, idleFor, atResult>>
           \/ \E v \in Verdicts :
                 /\ v = Verdict(flagged) \/ \E h \in Handling :
                       h.doing = "stale" /\ Returns(p, h) /\ h.says = v
                 /\ v.reason \in Reasons \ {"abandonment"}
                 /\ v.winner \in Colors \cup {"none"}
                 /\ v # NoResult /\ Finalize(v.reason, v.winner)
<1>1. PICK h \in {handler[p], late[p]} :
        /\ h.doing \in {"move", "stale"}
        /\ Returns(p, h)
        /\ LET v == IF h.doing = "move" THEN Verdict(flagged) ELSE h.says IN
           IF v # NoResult THEN Finalize(v.reason, v.winner)
           ELSE UNCHANGED <<endVars, disconnectedFor, idleFor, atResult>>
  BY DEF MoveSent
<1>2. h \in Handling /\ h.says \in Verdicts /\ Verdict(flagged) \in Verdicts
  BY VerdictIs DEF TypeOK, Handling
<1>3. \A v \in Verdicts : v # NoResult =>
        v.reason \in Reasons \ {"abandonment"} /\ v.winner \in Colors \cup {"none"}
  BY DEF Verdicts, Reasons
<1>4. CASE h.doing = "move"
  BY <1>1, <1>2, <1>3, <1>4
<1>5. CASE h.doing # "move"
  BY <1>1, <1>2, <1>3, <1>5
<1>6. QED
  BY <1>4, <1>5

LEMMA TypeMoveSent ==
    ASSUME TypeOK, NEW p \in Players, MoveSent(p) PROVE TypeOK'
<1>1. \/ UNCHANGED <<endVars, disconnectedFor, idleFor, atResult>>
      \/ \E reason \in Reasons, winner \in Colors \cup {"none"} : Finalize(reason, winner)
  BY MoveSentEnds
<1>2. handler' \in [Players -> Handling] /\ late' \in [Players -> Handling]
  BY ReturnsType DEF MoveSent
<1>3. QED
  BY <1>1, <1>2, FinalizeType
     DEF MoveSent, TypeOK, boardVars, endVars, seriesVars, sweepVars

LEMMA TypeAcceptTakeback ==
    ASSUME TypeOK, NEW p \in Players, AcceptTakeback(p) PROVE TypeOK'
BY TimersAssumption, DoingType
   DEF AcceptTakeback, Heard, Positions, TypeOK, slotVars, boardVars, endVars, seriesVars,
       taskVars, sweepVars

LEMMA TypeTakebackSent ==
    ASSUME TypeOK, NEW p \in Players, TakebackSent(p) PROVE TypeOK'
BY TimersAssumption, ReturnsType
   DEF TakebackSent, Ages, TypeOK, slotVars, boardVars, endVars, seriesVars,
       taskVars, sweepVars

LEMMA TypeResign == ASSUME TypeOK, NEW p \in Players, Resign(p) PROVE TypeOK'
BY FinalizeType, SeatType, TimersAssumption
   DEF Resign, Heard, Reasons, TypeOK, slotVars, boardVars, endVars, seriesVars,
       taskVars, sweepVars

LEMMA TypeAgreeDraw ==
    ASSUME TypeOK, NEW p \in Players, AgreeDraw(p) PROVE TypeOK'
BY FinalizeType, TimersAssumption
   DEF AgreeDraw, Heard, Reasons, TypeOK, slotVars, boardVars, endVars, seriesVars,
       taskVars, sweepVars

LEMMA RestartType ==
    ASSUME TypeOK, NEW p \in Players, NEW asked \in SUBSET Colors, Restart(p, asked)
    PROVE  /\ white' \in Players /\ games' \in Nat /\ startedFor' \in 0..PregameGrace
           /\ hist' \in Nat /\ pliesEver' \in Nat
           /\ over' \in Positions /\ flagged' \in Colors \cup {"none"}
           /\ idleFor' \in Ages(IdleWindow) /\ atResult' \in [Players -> BOOLEAN]
           /\ disconnectedFor' \in [Players -> Ages(Grace)]
           /\ result' \in Results \cup {NoResult}
           /\ endedFor' \in Ages(RematchCap) /\ activeFor' \in Ages(RematchIdle)
           /\ offered' \in SUBSET Colors
           /\ score' \in [Players -> Nat] /\ decided' \in Nat
           /\ handler' \in [Players -> Handling] /\ late' \in [Players -> Handling]
<1>1. CASE present[Other(p)] /\ inTable
  <2>1. Reset
    BY <1>1 DEF Restart
  <2>2. white' \in Players
    BY <2>1, PlayersAssumption DEF Reset, TypeOK, Other, Players
  <2>3. disconnectedFor' \in [Players -> Ages(Grace)]
    BY <2>1, TimersAssumption DEF Reset, TypeOK, Ages, Off
  <2>4. handler' \in [Players -> Handling] /\ late' \in [Players -> Handling]
    BY <2>1, OutdatedType DEF Reset, TypeOK
  <2>5. QED
    BY <2>1, <2>2, <2>3, <2>4, TimersAssumption
       DEF Reset, TypeOK, Positions, Ages, Off
<1>2. CASE ~(present[Other(p)] /\ inTable)
  BY <1>2, SeatType, TimersAssumption DEF Restart, TypeOK, Ages, boardVars
<1>3. QED
  BY <1>1, <1>2

LEMMA TypeRequestRematch ==
    ASSUME TypeOK, NEW p \in Players, RequestRematch(p) PROVE TypeOK'
<1> DEFINE asked == offered \cup {ColorOf(p)}
<1>1. asked \in SUBSET Colors
  BY SeatType DEF TypeOK
<1>2. CASE asked = Colors
  <2>1. Restart(p, asked)
    BY <1>2 DEF RequestRematch
  <2>2. QED
    BY <1>1, <2>1, RestartType, TimersAssumption
       DEF RequestRematch, Heard, TypeOK, taskVars, sweepVars
<1>3. CASE asked # Colors
  BY <1>1, <1>3, TimersAssumption
     DEF RequestRematch, Heard, Ages, TypeOK, boardVars, taskVars, sweepVars
<1>4. QED
  BY <1>2, <1>3

LEMMA TypeAcceptRematch ==
    ASSUME TypeOK, NEW p \in Players, AcceptRematch(p) PROVE TypeOK'
BY RestartType, TimersAssumption
   DEF AcceptRematch, Heard, TypeOK, slotVars, boardVars, endVars, seriesVars,
       taskVars, sweepVars

LEMMA TypeDeclineRematch ==
    ASSUME TypeOK, NEW p \in Players, DeclineRematch(p) PROVE TypeOK'
BY TimersAssumption, DoingType
   DEF DeclineRematch, Heard, TypeOK, slotVars, boardVars, endVars, seriesVars,
       taskVars, sweepVars

LEMMA TypeDeclineSent ==
    ASSUME TypeOK, NEW p \in Players, DeclineSent(p) PROVE TypeOK'
BY ReturnsType DEF DeclineSent, TypeOK, slotVars, boardVars, endVars, seriesVars,
       taskVars, sweepVars

LEMMA TypeLeftResult ==
    ASSUME TypeOK, NEW p \in Players, LeftResult(p) PROVE TypeOK'
BY TimersAssumption
   DEF LeftResult, Heard, TypeOK, slotVars, boardVars, endVars, seriesVars,
       taskVars, sweepVars

LEMMA TypeLeaveForNewGame ==
    ASSUME TypeOK, NEW p \in Players, LeaveForNewGame(p) PROVE TypeOK'
BY FinalizeType, SeatType
   DEF LeaveForNewGame, Reasons, TypeOK, slotVars, boardVars, endVars, seriesVars,
       taskVars, sweepVars

LEMMA TypeLeaveSent ==
    ASSUME TypeOK, NEW p \in Players, LeaveSent(p) PROVE TypeOK'
BY DEF LeaveSent, TypeOK, slotVars, boardVars, endVars, seriesVars,
       taskVars, sweepVars

LEMMA WindowType ==
    ASSUME NEW n \in Nat
    PROVE  WindowAt(n) \in {"aborted", "resignation", "none"}
BY DEF WindowAt

LEMMA IdleType ==
    ASSUME TypeOK, StepIdle
    PROVE  /\ result' \in Results \cup {NoResult}
           /\ endedFor' \in Ages(RematchCap) /\ activeFor' \in Ages(RematchIdle)
           /\ disconnectedFor' \in [Players -> Ages(Grace)]
           /\ idleFor' \in Ages(IdleWindow)
           /\ atResult' \in [Players -> BOOLEAN]
           /\ score' \in [Players -> Nat] /\ decided' \in Nat
<1>1. CASE Quiet
  BY <1>1 DEF Quiet, TypeOK, endVars
<1>2. CASE \E window \in {"aborted", "resignation"}, winner \in Colors \cup {"none"} :
              Finalize(window, winner)
  BY <1>2, FinalizeType DEF Reasons
<1>3. QED
  BY <1>1, <1>2, WindowType, SeatType DEF StepIdle, TypeOK

LEMMA TypeSweepClock == ASSUME TypeOK, SweepClock PROVE TypeOK'
<1>1. CASE ~(inTable /\ Live)
  BY <1>1 DEF SweepClock, Quiet, TypeOK, slotVars, boardVars, endVars,
          seriesVars, taskVars, sweepVars
<1>2. CASE inTable /\ Live
  <2> DEFINE ticking == pliesEver > 0 /\ hist > 0
  <2>1. PICK flag \in IF ticking /\ flagged = "none" THEN {"none", ToMove}
                      ELSE {flagged} :
          /\ flagged' = flag
          /\ LET v == Verdict(flag) IN
             IF ticking /\ v # NoResult THEN Finalize(v.reason, v.winner) ELSE StepIdle
    BY <1>2 DEF SweepClock
  <2>2. flag \in Colors \cup {"none"}
    BY SeatType DEF TypeOK
  <2>3. \/ StepIdle
        \/ \E reason \in Reasons, winner \in Colors \cup {"none"} : Finalize(reason, winner)
    BY <2>1, <2>2, VerdictType
  <2>4. QED
    BY <2>1, <2>2, <2>3, IdleType, FinalizeType
       DEF SweepClock, TypeOK, seriesVars, taskVars, sweepVars
<1>3. QED
  BY <1>1, <1>2

LEMMA TypeSweepHeartbeat == ASSUME TypeOK, SweepHeartbeat PROVE TypeOK'
BY DEF SweepHeartbeat, TypeOK, slotVars, boardVars, endVars, seriesVars,
       taskVars, sweepVars

LEMMA TypeSweepGrace == ASSUME TypeOK, SweepGrace PROVE TypeOK'
BY DEF SweepGrace, TypeOK, slotVars, boardVars, endVars, seriesVars,
       taskVars, sweepVars

LEMMA TypeSweepOrphans == ASSUME TypeOK, SweepOrphans PROVE TypeOK'
BY DEF SweepOrphans, TypeOK, slotVars, boardVars, endVars, seriesVars,
       taskVars, sweepVars

LEMMA TypeSweepPostGame == ASSUME TypeOK, SweepPostGame PROVE TypeOK'
BY DEF SweepPostGame, TypeOK, slotVars, boardVars, endVars, seriesVars,
       taskVars, sweepVars

LEMMA TypeSweepDrop == ASSUME TypeOK, SweepDrop PROVE TypeOK'
BY DEF SweepDrop, TypeOK, slotVars, boardVars, endVars, seriesVars,
       taskVars, sweepVars

LEMMA TypeSweepGc == ASSUME TypeOK, SweepGc PROVE TypeOK'
BY DEF SweepGc, TypeOK, slotVars, boardVars, endVars, seriesVars,
       taskVars, sweepVars

LEMMA FirstType == First \in Colors
BY DEF First, Colors

LEMMA TypeSweepMark == ASSUME TypeOK, SweepMark PROVE TypeOK'
<1>1. Seat(First) \in Players
  BY FirstType, SeatType DEF TypeOK
<1>2. QED
  BY <1>1, MarkedType DEF SweepMark, TypeOK, boardVars, endVars, seriesVars, taskVars

LEMMA TypeSweepEnd == ASSUME TypeOK, SweepEnd PROVE TypeOK'
<1>1. Opp(First) \in Colors
  BY FirstType, SeatType DEF TypeOK
<1>2. QED
  BY <1>1, FinalizeType
     DEF SweepEnd, Reasons, TypeOK, boardVars, endVars, seriesVars, taskVars

LEMMA TypeTick == ASSUME TypeOK, Tick PROVE TypeOK'
BY OlderType, TimersAssumption DEF Tick, TypeOK, taskVars, sweepVars

LEMMA TypeNext == TypeOK /\ [Next]_vars => TypeOK'
<1> SUFFICES ASSUME TypeOK, [Next]_vars PROVE TypeOK'
  OBVIOUS
<1>1. CASE UNCHANGED vars
  BY <1>1 DEF vars, TypeOK, slotVars, boardVars, endVars, seriesVars, taskVars, sweepVars
<1>2. ASSUME NEW p \in Players, Requests(p) PROVE TypeOK'
  BY <1>2, TypeConnect, TypeDisconnect, TypePing, TypeAct, TypeMove,
     TypeAcceptTakeback, TypeResign, TypeAgreeDraw, TypeRequestRematch,
     TypeAcceptRematch, TypeDeclineRematch, TypeLeftResult, TypeLeaveForNewGame
     DEF Requests
<1>3. ASSUME NEW p \in Players, Handlers(p) PROVE TypeOK'
  BY <1>3, TypeMoveSent, TypeTakebackSent, TypeDeclineSent, TypeLeaveSent DEF Handlers
<1>4. CASE Sweep
  BY <1>4, TypeSweepClock, TypeSweepHeartbeat, TypeSweepMark, TypeSweepGrace,
     TypeSweepEnd, TypeSweepOrphans, TypeSweepPostGame, TypeSweepDrop, TypeSweepGc
     DEF Sweep
<1>5. QED
  BY <1>1, <1>2, <1>3, <1>4, TypeTick DEF Next

\* Every variable keeps its type, and no age passes the deadline it is read
\* against, in every reachable state of the room.
THEOREM TypeCorrect == Spec => []TypeOK
BY TypeInit, TypeNext, PTL DEF Spec

-----------------------------------------------------------------------------
(* The result and the series score *)

Played == <<result, score, decided, games>>

\* What a step can do to the result and the score: nothing, end the game once,
\* or start the next one.
Ends == \E reason \in Reasons, winner \in Colors \cup {"none"} :
            Finalize(reason, winner) /\ games' = games
Restarts == ~Live /\ Reset

LEMMA PlayedSteps ==
    ASSUME TypeOK, [Next]_vars PROVE UNCHANGED Played \/ Ends \/ Restarts
<1>1. CASE UNCHANGED vars
  BY <1>1 DEF vars, endVars, seriesVars, Played
<1>2. CASE Tick
  BY <1>2 DEF Tick, Played
<1>3. CASE Sweep
  <2>1. CASE SweepClock
    <3>1. CASE ~(inTable /\ Live)
      BY <2>1, <3>1 DEF SweepClock, Quiet, endVars, seriesVars, Played
    <3>2. CASE inTable /\ Live
      <4>1. PICK flag \in {"none", ToMove, flagged} :
              \/ Verdict(flag) # NoResult
                 /\ Finalize(Verdict(flag).reason, Verdict(flag).winner)
              \/ StepIdle
        BY <2>1, <3>2 DEF SweepClock
      <4>2. flag \in Colors \cup {"none"}
        BY SeatType DEF TypeOK
      <4>3. games' = games
        BY <2>1 DEF SweepClock, seriesVars
      <4>4. CASE StepIdle
        BY <4>3, <4>4, WindowType, SeatType
           DEF StepIdle, Quiet, Ends, Reasons, Played, endVars, TypeOK
      <4>5. QED
        BY <4>1, <4>2, <4>3, <4>4, VerdictType DEF Ends
    <3>3. QED
      BY <3>1, <3>2
  <2>2. CASE SweepEnd
    <3>1. Opp(First) \in Colors
      BY FirstType, SeatType DEF TypeOK
    <3>2. QED
      BY <2>2, <3>1 DEF SweepEnd, Ends, Reasons, Played, endVars, seriesVars
  <2>3. QED
    BY <1>3, <2>1, <2>2
       DEF Sweep, SweepHeartbeat, SweepMark, SweepGrace, SweepOrphans, SweepPostGame,
           SweepDrop, SweepGc, Played, endVars, seriesVars
<1>4. ASSUME NEW p \in Players, Requests(p)
      PROVE  UNCHANGED Played \/ Ends \/ Restarts
  <2>1. CASE Resign(p)
    BY <2>1, SeatType DEF Resign, Ends, Reasons, seriesVars, TypeOK
  <2>2. CASE AgreeDraw(p)
    BY <2>2 DEF AgreeDraw, Ends, Reasons, seriesVars
  <2>3. CASE LeaveForNewGame(p)
    BY <2>3, SeatType DEF LeaveForNewGame, Ends, Reasons, seriesVars, TypeOK
  <2>4. CASE RequestRematch(p) \/ AcceptRematch(p)
    BY <2>4 DEF RequestRematch, AcceptRematch, Restart, Restarts, Played
  <2>5. QED
    BY <1>4, <2>1, <2>2, <2>3, <2>4
       DEF Requests, Connect, Disconnect, Ping, Act, Move, AcceptTakeback,
           DeclineRematch, LeftResult, Played, endVars, seriesVars
<1>5. ASSUME NEW p \in Players, Handlers(p)
      PROVE  UNCHANGED Played \/ Ends \/ Restarts
  <2>1. CASE MoveSent(p)
    BY <2>1, MoveSentEnds DEF Ends, Played, endVars, MoveSent, seriesVars
  <2>2. QED
    BY <1>5, <2>1
       DEF Handlers, TakebackSent, DeclineSent, LeaveSent, Played, endVars, seriesVars
<1>6. QED
  BY <1>1, <1>2, <1>3, <1>4, <1>5 DEF Next

LEMMA ResultIsNoNoResult == \A r \in Results : r # NoResult
BY DEF Results, NoResult, Reasons

LEMMA AwardShares ==
    ASSUME TypeOK, NEW r \in Results
    PROVE  Award(r)[A] + Award(r)[B]
             = score[A] + score[B] + (IF r.reason = "aborted" THEN 0 ELSE 2)
<1>1. CASE r.reason = "aborted"
  BY <1>1 DEF Award, TypeOK, Players
<1>2. CASE r.reason # "aborted" /\ r.winner = "none"
  BY <1>2 DEF Award, TypeOK, Players
<1>3. CASE r.reason # "aborted" /\ r.winner # "none"
  <2> DEFINE w == Seat(r.winner)
  <2>1. w = A \/ w = B
    BY <1>3, SeatType DEF Results, TypeOK, Players
  <2>2. Award(r) = [score EXCEPT ![w] = @ + 2]
    BY <1>3 DEF Award
  <2> HIDE DEF w
  <2>3. QED
    BY <1>3, <2>1, <2>2, PlayersAssumption DEF TypeOK, Players
<1>4. QED
  BY <1>1, <1>2, <1>3

LEMMA FairNext == TypeOK /\ SeriesIsFair /\ [Next]_vars => SeriesIsFair'
<1> SUFFICES ASSUME TypeOK, SeriesIsFair, [Next]_vars PROVE SeriesIsFair'
  OBVIOUS
<1>1. CASE UNCHANGED Played
  BY <1>1 DEF Played, SeriesIsFair, Live
<1>2. CASE Restarts
  BY <1>2 DEF Restarts, Reset, SeriesIsFair, Live, TypeOK
<1>3. CASE Ends
  <2>1. PICK reason \in Reasons, winner \in Colors \cup {"none"} :
          Finalize(reason, winner) /\ games' = games
    BY <1>3 DEF Ends
  <2>2. CASE ~(inTable /\ Live)
    BY <2>1, <2>2 DEF Finalize, endVars, SeriesIsFair, Live
  <2>3. CASE inTable /\ Live
    <3> DEFINE r == Recorded(reason, winner)
    <3>1. /\ result' = r /\ score' = Award(r)
          /\ decided' = IF r.reason = "aborted" THEN decided ELSE decided + 1
      BY <2>1, <2>3 DEF Finalize
    <3>2. r \in Results
      BY RecordedType
    <3> HIDE DEF r
    <3>3. ~Live'
      BY <3>1, <3>2, ResultIsNoNoResult DEF Live
    <3>4. QED
      BY <2>1, <2>3, <3>1, <3>2, <3>3, AwardShares, PlayersAssumption
         DEF SeriesIsFair, TypeOK, Players
  <2>4. QED
    BY <2>2, <2>3
<1>4. QED
  BY <1>1, <1>2, <1>3, PlayedSteps

\* Whoever ends a game, and however many try to, it shares out one point, and
\* the points given are those of the games that were decided.
THEOREM SeriesFair == Spec => []SeriesIsFair
<1>1. Init => SeriesIsFair
  BY PlayersAssumption DEF Init, SeriesIsFair, Players, Live, NoResult
<1>2. QED
  BY <1>1, TypeCorrect, FairNext, PTL DEF Spec

\* A result is never rewritten: it goes only when the next game starts.
THEOREM ResultsStand == Spec => ResultStands
<1>1. TypeOK /\ [Next]_vars
        => [~Live => result' = result \/ (result' = NoResult /\ games' = games + 1)]_vars
  BY PlayedSteps DEF Played, Ends, Restarts, Finalize, endVars, Reset
<1>2. QED
  BY <1>1, TypeCorrect, PTL DEF Spec, ResultStands
-----------------------------------------------------------------------------
(* Presence *)

SocketVars == <<present, connected, disconnectedFor>>

LEMMA MarkedAgrees ==
    ASSUME TypeOK, PresenceAgrees, NEW p \in Players, Marked(p), inTable' = inTable,
           \A q \in Players \ {p} : present'[q] = present[q],
           present'[p] = present[p] \/ ~present'[p]
    PROVE  PresenceAgrees'
<1>1. CASE inTable /\ connected[p]
  BY <1>1 DEF Marked, PresenceAgrees, TypeOK, Off
<1>2. CASE ~(inTable /\ connected[p])
  BY <1>2 DEF Marked, PresenceAgrees, TypeOK
<1>3. QED
  BY <1>1, <1>2

\* Ending the game restarts the stamps that are set and sets none.
LEMMA FinalizeAgrees ==
    ASSUME TypeOK, PresenceAgrees, NEW reason, NEW winner, Finalize(reason, winner),
           inTable' = inTable, UNCHANGED <<present, connected>>
    PROVE  PresenceAgrees'
BY DEF Finalize, PresenceAgrees, TypeOK, Off

\* Steps that leave the sockets alone, or forget the room.
LEMMA SocketsAgree ==
    ASSUME PresenceAgrees, UNCHANGED SocketVars, inTable' => inTable
    PROVE  PresenceAgrees'
BY DEF PresenceAgrees, SocketVars

LEMMA IdleAgrees ==
    ASSUME TypeOK, PresenceAgrees, StepIdle, inTable' = inTable,
           UNCHANGED <<present, connected>>
    PROVE  PresenceAgrees'
BY FinalizeAgrees, SocketsAgree DEF StepIdle, Quiet, SocketVars

LEMMA RestartAgrees ==
    ASSUME TypeOK, PresenceAgrees, NEW p, NEW asked, Restart(p, asked),
           inTable' = inTable, UNCHANGED <<present, connected>>
    PROVE  PresenceAgrees'
BY DEF Restart, Reset, PresenceAgrees

LEMMA PresenceNext == TypeOK /\ PresenceAgrees /\ [Next]_vars => PresenceAgrees'
<1> SUFFICES ASSUME TypeOK, PresenceAgrees, [Next]_vars PROVE PresenceAgrees'
  OBVIOUS
<1>1. CASE UNCHANGED vars
  BY <1>1, SocketsAgree DEF vars, slotVars, SocketVars
<1>2. CASE Tick
  BY <1>2 DEF Tick, PresenceAgrees, Older, Off, TypeOK
<1>3. CASE Sweep
  <2>1. CASE SweepClock
    BY <2>1, FinalizeAgrees, IdleAgrees, SocketsAgree
       DEF SweepClock, Quiet, SocketVars
  <2>2. CASE SweepEnd
    BY <2>2, FinalizeAgrees, SocketsAgree DEF SweepEnd, SocketVars
  <2>3. CASE SweepMark
    <3>1. Seat(First) \in Players
      BY FirstType, SeatType DEF TypeOK
    <3>2. QED
      BY <2>3, <3>1, MarkedAgrees DEF SweepMark
  <2>4. CASE SweepHeartbeat \/ SweepGrace
    BY <2>4, SocketsAgree DEF SweepHeartbeat, SweepGrace, slotVars, SocketVars
  <2>5. CASE SweepOrphans \/ SweepPostGame \/ SweepDrop \/ SweepGc
    BY <2>5, SocketsAgree
       DEF SweepOrphans, SweepPostGame, SweepDrop, SweepGc, slotVars, SocketVars
  <2>6. QED
    BY <1>3, <2>1, <2>2, <2>3, <2>4, <2>5 DEF Sweep
<1>4. ASSUME NEW p \in Players, Requests(p) PROVE PresenceAgrees'
  <2>1. CASE Connect(p)
    BY <2>1 DEF Connect, PresenceAgrees, TypeOK
  <2>2. CASE Disconnect(p)
    BY <2>2, MarkedAgrees DEF Disconnect, TypeOK
  <2>3. CASE Resign(p) \/ AgreeDraw(p) \/ LeaveForNewGame(p)
    BY <2>3, FinalizeAgrees DEF Resign, AgreeDraw, LeaveForNewGame
  <2>4. CASE RequestRematch(p) \/ AcceptRematch(p)
    BY <2>4, RestartAgrees, SocketsAgree DEF RequestRematch, AcceptRematch, SocketVars
  <2>5. QED
    BY <1>4, <2>1, <2>2, <2>3, <2>4, SocketsAgree
       DEF Requests, Ping, Act, Move, AcceptTakeback, DeclineRematch, LeftResult,
           SocketVars
<1>5. ASSUME NEW p \in Players, Handlers(p) PROVE PresenceAgrees'
  BY <1>5, FinalizeAgrees, SocketsAgree
     DEF Handlers, MoveSent, TakebackSent, DeclineSent, LeaveSent, slotVars, SocketVars
<1>6. QED
  BY <1>1, <1>2, <1>3, <1>4, <1>5 DEF Next

\* A grace period runs only for a player the server knows to be away, and
\* nobody is believed connected without a socket.
THEOREM PresenceCorrect == Spec => []PresenceAgrees
<1>1. Init => PresenceAgrees
  BY DEF Init, PresenceAgrees, Players, Off
<1>2. QED
  BY <1>1, TypeCorrect, PresenceNext, PTL DEF Spec

LEMMA GraceNext ==
    ASSUME TypeOK, PresenceAgrees, Next, Live, Live', NEW p \in Players,
           disconnectedFor[p] # Off
    PROVE  connected'[p] \/ disconnectedFor'[p] >= disconnectedFor[p]
<1>1. /\ ~connected[p]
      /\ disconnectedFor[p] \in 0..Grace
  BY DEF PresenceAgrees, TypeOK, Ages
<1>2. CASE UNCHANGED disconnectedFor
  BY <1>1, <1>2
<1>3. ASSUME NEW q \in Players, Marked(q) PROVE disconnectedFor'[p] = disconnectedFor[p]
  BY <1>1, <1>3 DEF Marked, TypeOK
<1>4. ASSUME NEW reason \in Reasons, NEW winner, Finalize(reason, winner)
      PROVE  UNCHANGED disconnectedFor
  BY <1>4 DEF Finalize, Recorded, Live, NoResult, Reasons
<1>5. CASE Tick
  BY <1>1, <1>5 DEF Tick, Older, Off
<1>6. CASE Sweep
  <2>1. CASE SweepMark
    <3>1. Seat(First) \in Players
      BY FirstType, SeatType DEF TypeOK
    <3>2. QED
      BY <1>1, <1>3, <2>1, <3>1 DEF SweepMark
  <2>2. CASE SweepClock
    <3>1. \/ Quiet \/ StepIdle
          \/ \E flag \in {"none", ToMove, flagged} :
                /\ Verdict(flag) # NoResult
                /\ Finalize(Verdict(flag).reason, Verdict(flag).winner)
      BY <2>2 DEF SweepClock
    <3>2. \A flag \in {"none", ToMove, flagged} : flag \in Colors \cup {"none"}
      BY SeatType DEF TypeOK
    <3>3. CASE StepIdle
      BY <1>2, <1>4, <3>3, WindowType DEF StepIdle, Quiet, Reasons, TypeOK
    <3>4. QED
      BY <1>2, <1>4, <3>1, <3>2, <3>3, VerdictType DEF Quiet
  <2>3. CASE SweepEnd
    BY <1>2, <1>4, <2>3 DEF SweepEnd, Reasons
  <2>4. QED
    BY <1>2, <1>6, <2>1, <2>2, <2>3
       DEF Sweep, SweepHeartbeat, SweepGrace, SweepOrphans, SweepPostGame, SweepDrop,
           SweepGc, slotVars
<1>7. ASSUME NEW q \in Players, Requests(q) \/ Handlers(q)
      PROVE  connected'[p] \/ disconnectedFor'[p] >= disconnectedFor[p]
  <2>1. CASE Connect(q)
    BY <1>1, <2>1 DEF Connect, TypeOK
  <2>2. CASE Disconnect(q)
    BY <1>1, <1>3, <2>2 DEF Disconnect
  <2>3. CASE Resign(q) \/ AgreeDraw(q) \/ LeaveForNewGame(q)
    BY <1>2, <1>4, <2>3 DEF Resign, AgreeDraw, LeaveForNewGame, Reasons
  <2>4. CASE MoveSent(q)
    BY <1>2, <1>4, <2>4, MoveSentEnds
  <2>5. CASE RequestRematch(q) \/ AcceptRematch(q)
    BY <2>5 DEF RequestRematch, AcceptRematch
  <2>6. QED
    BY <1>2, <1>7, <2>1, <2>2, <2>3, <2>4, <2>5
       DEF Requests, Handlers, Ping, Act, Move, AcceptTakeback, DeclineRematch,
           LeftResult, TakebackSent, DeclineSent, LeaveSent, slotVars
<1>8. QED
  BY <1>5, <1>6, <1>7 DEF Next

\* Nothing but being connected again stops or restarts the grace of a player who
\* is away while the game goes on.
THEOREM GraceNotStretched == Spec => GraceRunsOn
<1>1. TypeOK /\ PresenceAgrees /\ [Next]_vars
        => [\A p \in Players :
               Live /\ Live' /\ disconnectedFor[p] # Off
                 => connected'[p] \/ disconnectedFor'[p] >= disconnectedFor[p]]_vars
  BY GraceNext
<1>2. QED
  BY <1>1, TypeCorrect, PresenceCorrect, PTL DEF Spec, GraceRunsOn
-----------------------------------------------------------------------------
(* Rematch offers *)

\* Whoever has an offer standing is still at the result screen of a finished
\* game: what RematchByConsent rests on.
OffersStand == \A c \in offered : ~Live /\ atResult[Seat(c)]

OfferVars == <<white, offered, result, atResult>>

LEMMA OffersKept ==
    ASSUME OffersStand, UNCHANGED OfferVars
    PROVE  OffersStand'
BY DEF OffersStand, OfferVars, Live, Seat

LEMMA FinalizeOffers ==
    ASSUME TypeOK, OffersStand, NEW reason \in Reasons,
           NEW winner \in Colors \cup {"none"}, Finalize(reason, winner),
           UNCHANGED <<white, offered>>
    PROVE  OffersStand'
<1>1. CASE inTable /\ Live
  BY <1>1 DEF OffersStand
<1>2. CASE ~(inTable /\ Live)
  BY <1>2, OffersKept DEF Finalize, OfferVars, endVars
<1>3. QED
  BY <1>1, <1>2

LEMMA ReasonTypes ==
    /\ \A reason \in {"aborted", "resignation", "abandonment", "draw"} : reason \in Reasons
    /\ \A c \in Colors : c \in Colors \cup {"none"}
BY DEF Reasons

LEMMA OffersNext == TypeOK /\ OffersStand /\ [Next]_vars => OffersStand'
<1> SUFFICES ASSUME TypeOK, OffersStand, [Next]_vars PROVE OffersStand'
  OBVIOUS
<1>1. CASE UNCHANGED vars
  BY <1>1, OffersKept DEF vars, slotVars, endVars, seriesVars, OfferVars
<1>2. CASE Tick
  BY <1>2, OffersKept DEF Tick, OfferVars
<1>3. CASE Sweep
  <2>1. CASE SweepClock
    <3>1. UNCHANGED <<white, offered>>
      BY <2>1 DEF SweepClock, seriesVars
    <3>2. \/ UNCHANGED OfferVars
          \/ \E reason \in Reasons, winner \in Colors \cup {"none"} :
                Finalize(reason, winner)
      <4>1. CASE ~(inTable /\ Live) \/ Quiet
        BY <2>1, <3>1, <4>1 DEF SweepClock, Quiet, endVars, OfferVars
      <4>2. CASE inTable /\ Live /\ ~Quiet
        <5>1. PICK flag \in {"none", ToMove, flagged} :
                \/ Verdict(flag) # NoResult
                   /\ Finalize(Verdict(flag).reason, Verdict(flag).winner)
                \/ StepIdle
          BY <2>1, <4>2 DEF SweepClock
        <5>2. flag \in Colors \cup {"none"}
          BY SeatType DEF TypeOK
        <5>3. CASE StepIdle
          BY <4>2, <5>3, WindowType, SeatType, ReasonTypes DEF StepIdle, TypeOK
        <5>4. QED
          BY <5>1, <5>2, <5>3, VerdictType
      <4>3. QED
        BY <4>1, <4>2
    <3>3. QED
      BY <3>1, <3>2, OffersKept, FinalizeOffers
  <2>2. CASE SweepEnd
    BY <2>2, FirstType, SeatType, ReasonTypes, OffersKept, FinalizeOffers
       DEF SweepEnd, TypeOK, OfferVars, endVars, seriesVars
  <2>3. QED
    BY <1>3, <2>1, <2>2, OffersKept
       DEF Sweep, SweepHeartbeat, SweepMark, SweepGrace, SweepOrphans, SweepPostGame,
           SweepDrop, SweepGc, OfferVars, endVars, seriesVars, slotVars
<1>4. ASSUME NEW p \in Players, Requests(p) PROVE OffersStand'
  <2>1. CASE Resign(p) \/ AgreeDraw(p) \/ LeaveForNewGame(p)
    BY <2>1, SeatType, ReasonTypes, FinalizeOffers
       DEF Resign, AgreeDraw, LeaveForNewGame, seriesVars, TypeOK
  <2>2. ASSUME NEW asked, Restart(p, asked), asked \subseteq offered \cup {ColorOf(p)},
               ~Live, ColorOf(p) \in asked => atResult[p]
        PROVE  OffersStand'
    <3>1. CASE Reset
      BY <3>1 DEF Reset, OffersStand
    <3>2. CASE ~Reset
      <4>1. /\ offered' \subseteq asked
            /\ UNCHANGED <<white, result, atResult>>
        BY <2>2, <3>2 DEF Restart
      <4>2. Seat(ColorOf(p)) = p
        BY PlayersAssumption DEF Seat, ColorOf, Other, TypeOK, Players
      <4>3. QED
        BY <2>2, <4>1, <4>2 DEF OffersStand, Live, Seat
    <3>3. QED
      BY <3>1, <3>2
  <2>3. CASE RequestRematch(p)
    <3> DEFINE asked == offered \cup {ColorOf(p)}
    <3>1. CASE asked = Colors
      BY <2>2, <2>3, <3>1 DEF RequestRematch
    <3>2. CASE asked # Colors
      <4>1. Seat(ColorOf(p)) = p
        BY PlayersAssumption DEF Seat, ColorOf, Other, TypeOK, Players
      <4>2. QED
        BY <2>3, <3>2, <4>1 DEF RequestRematch, OffersStand, Live, Seat
    <3>3. QED
      BY <3>1, <3>2
  <2>4. CASE AcceptRematch(p)
    BY <2>2, <2>4 DEF AcceptRematch
  <2>5. CASE LeftResult(p)
    <3>1. \A c \in Colors \ {ColorOf(p)} : Seat(c) # p /\ Seat(c) \in Players
      BY PlayersAssumption DEF Seat, ColorOf, Other, TypeOK, Players, Colors
    <3>2. QED
      BY <2>5, <3>1 DEF LeftResult, OffersStand, Live, Seat, TypeOK, endVars
  <2>6. QED
    BY <1>4, <2>1, <2>3, <2>4, <2>5, OffersKept
       DEF Requests, Connect, Disconnect, Ping, Act, Move, AcceptTakeback,
           DeclineRematch, OfferVars, endVars, seriesVars
<1>5. ASSUME NEW p \in Players, Handlers(p) PROVE OffersStand'
  <2>1. CASE MoveSent(p)
    <3>1. UNCHANGED <<white, offered>>
      BY <2>1 DEF MoveSent, seriesVars
    <3>2. \/ UNCHANGED <<endVars, atResult>>
          \/ \E reason \in Reasons, winner \in Colors \cup {"none"} : Finalize(reason, winner)
      BY <2>1, MoveSentEnds
    <3>3. QED
      BY <3>1, <3>2, OffersKept, FinalizeOffers DEF OfferVars, endVars
  <2>2. CASE DeclineSent(p)
    BY <2>2 DEF DeclineSent, OffersStand
  <2>3. QED
    BY <1>5, <2>1, <2>2, OffersKept
       DEF Handlers, TakebackSent, LeaveSent, OfferVars, endVars, seriesVars, slotVars
<1>6. QED
  BY <1>1, <1>2, <1>3, <1>4, <1>5 DEF Next

\* A rematch starts only with both sockets there and on the offer of somebody
\* still at the result screen.
THEOREM RematchConsented == Spec => RematchByConsent
<1> DEFINE Consent == /\ \A p \in Players : present[p]
                      /\ \E c \in offered : atResult[Seat(c)]
<1>1. Init => OffersStand
  BY DEF Init, OffersStand
<1>2. TypeOK /\ OffersStand /\ [Next]_vars => [games' # games => Consent]_vars
  <2> SUFFICES ASSUME TypeOK, OffersStand, Next, games' # games PROVE Consent
    BY DEF vars, seriesVars
  <2>1. PICK p \in Players : RequestRematch(p) \/ AcceptRematch(p)
    BY DEF Next, Tick, Sweep, SweepClock, SweepHeartbeat, SweepMark, SweepGrace,
           SweepEnd, SweepOrphans, SweepPostGame, SweepDrop, SweepGc, Requests,
           Connect, Disconnect, Ping, Act, Move, AcceptTakeback, Resign, AgreeDraw,
           DeclineRematch, LeftResult, LeaveForNewGame, Handlers, MoveSent,
           TakebackSent, DeclineSent, LeaveSent, seriesVars
  <2>2. present[p] /\ present[Other(p)]
    BY <2>1 DEF RequestRematch, AcceptRematch, Restart, Speaks
  <2>3. \A q \in Players : q = p \/ q = Other(p)
    BY DEF Players, Other
  <2>4. offered # {}
    BY <2>1 DEF RequestRematch, AcceptRematch, Colors
  <2>5. QED
    BY <2>2, <2>3, <2>4 DEF OffersStand
<1>3. QED
  BY <1>1, <1>2, TypeCorrect, OffersNext, PTL DEF Spec, RematchByConsent
-----------------------------------------------------------------------------
(* Games without a ply, and games lost by staying away *)

\* Until a ply is played the board says nothing and no flag can have fallen.
NothingYet == pliesEver = 0 => hist = 0 /\ over = "no" /\ flagged = "none"

BoardEnds == <<pliesEver, hist, over, flagged>>

LEMMA NothingYetNext == TypeOK /\ NothingYet /\ [Next]_vars => NothingYet'
<1> SUFFICES ASSUME TypeOK, NothingYet, [Next]_vars PROVE NothingYet'
  OBVIOUS
<1>1. CASE UNCHANGED BoardEnds
  BY <1>1 DEF NothingYet, BoardEnds
<1>2. CASE SweepClock
  BY <1>2 DEF SweepClock, NothingYet
<1>3. ASSUME NEW p \in Players, Move(p) \/ AcceptTakeback(p)
      PROVE  NothingYet'
  BY <1>3 DEF Move, AcceptTakeback, NothingYet, TypeOK
<1>4. ASSUME NEW p \in Players, RequestRematch(p) \/ AcceptRematch(p)
      PROVE  NothingYet'
  BY <1>4 DEF RequestRematch, AcceptRematch, Restart, Reset, boardVars, NothingYet
<1>5. CASE Sweep
  BY <1>1, <1>2, <1>5
     DEF Sweep, SweepHeartbeat, SweepMark, SweepGrace, SweepEnd, SweepOrphans,
         SweepPostGame, SweepDrop, SweepGc, boardVars, BoardEnds
<1>6. ASSUME NEW p \in Players, Requests(p) \/ Handlers(p) PROVE NothingYet'
  BY <1>1, <1>3, <1>4, <1>6
     DEF Requests, Handlers, Connect, Disconnect, Ping, Act, Resign, AgreeDraw,
         DeclineRematch, LeftResult, LeaveForNewGame, MoveSent, TakebackSent,
         DeclineSent, LeaveSent, boardVars, BoardEnds
<1>7. QED
  BY <1>1, <1>5, <1>6 DEF Next, Tick, vars, boardVars, BoardEnds

\* The endings that can be claimed before the first ply.
LEMMA FinalizeUntouched ==
    ASSUME Live, pliesEver = 0, NEW reason, NEW winner, Finalize(reason, winner),
           reason \in {"aborted", "resignation", "draw", "timeout", "abandonment"}
    PROVE  Live' \/ result'.reason \in {"aborted", "resignation", "draw"}
BY DEF Finalize, Recorded, Live, endVars

LEMMA VerdictUntouched ==
    ASSUME NothingYet, pliesEver = 0
    PROVE  Verdict(flagged) = NoResult
BY DEF NothingYet, Verdict

\* Before the first ply a game is aborted, resigned or agreed drawn, never lost on
\* time or by abandonment; a mate or a draw can only be the verdict of the board a
\* rematch has replaced, read by a handler that was still announcing a ply on it.
THEOREM NothingPlayed == Spec => NothingPlayedNothingWon
<1> DEFINE Ended == Live /\ ~Live' /\ pliesEver = 0
           Fair == result'.reason \in {"aborted", "resignation", "draw"}
           Stale == \E p \in Players, h \in Handling :
                      h.doing = "stale" /\ h.says = result' /\ Returns(p, h)
<1>1. Init => NothingYet
  BY DEF Init, NothingYet
<1>2. TypeOK /\ NothingYet /\ [Next]_vars => [Ended => Fair \/ Stale]_vars
  <2> SUFFICES ASSUME TypeOK, NothingYet, Next, Ended PROVE Fair \/ Stale
    OBVIOUS
  <2>1. result' # result
    BY DEF Live
  <2>2. CASE SweepClock
    <3>1. hist = 0
      BY DEF NothingYet
    <3>2. StepIdle /\ ~Quiet
      BY <2>1, <2>2, <3>1 DEF SweepClock, Quiet, endVars
    <3>3. QED
      BY <3>2, FinalizeUntouched DEF StepIdle, WindowAt
  <2>3. CASE SweepEnd
    BY <2>1, <2>3, FinalizeUntouched DEF SweepEnd, endVars
  <2>4. ASSUME NEW p \in Players, MoveSent(p) PROVE Fair \/ Stale
    <3>1. PICK v \in Verdicts :
            /\ v = Verdict(flagged) \/ \E h \in Handling :
                  h.doing = "stale" /\ Returns(p, h) /\ h.says = v
            /\ v # NoResult /\ Finalize(v.reason, v.winner)
      BY <2>1, <2>4, MoveSentEnds DEF endVars
    <3>2. \E h \in Handling : h.doing = "stale" /\ Returns(p, h) /\ h.says = v
      BY <3>1, VerdictUntouched
    <3>3. v.reason \in {"mate", "draw", "timeout"} /\ v = [reason |-> v.reason, winner |-> v.winner]
      BY <3>1 DEF Verdicts
    <3>4. CASE v.reason \in {"timeout", "draw"}
      BY <3>1, <3>4, FinalizeUntouched
    <3>5. CASE v.reason = "mate"
      <4>1. result' = v
        BY <2>1, <3>1, <3>3, <3>5 DEF Finalize, Recorded, endVars
      <4>2. QED
        BY <3>2, <4>1
    <3>6. QED
      BY <3>3, <3>4, <3>5
  <2>5. ASSUME NEW p \in Players, Requests(p) PROVE Fair \/ Stale
    <3>1. CASE Resign(p) \/ AgreeDraw(p) \/ LeaveForNewGame(p)
      BY <3>1, FinalizeUntouched DEF Resign, AgreeDraw, LeaveForNewGame
    <3>2. CASE RequestRematch(p) \/ AcceptRematch(p)
      BY <3>2 DEF RequestRematch, AcceptRematch
    <3>3. QED
      BY <2>1, <2>5, <3>1, <3>2
         DEF Requests, Connect, Disconnect, Ping, Act, Move, AcceptTakeback,
             DeclineRematch, LeftResult, endVars
  <2>6. QED
    BY <2>1, <2>2, <2>3, <2>4, <2>5
       DEF Next, Tick, Sweep, SweepHeartbeat, SweepMark, SweepGrace, SweepOrphans,
           SweepPostGame, SweepDrop, SweepGc, Handlers, TakebackSent, DeclineSent,
           LeaveSent, endVars
<1>3. QED
  BY <1>1, <1>2, TypeCorrect, NothingYetNext, PTL DEF Spec, NothingPlayedNothingWon

LEMMA RecordedReason ==
    ASSUME NEW reason, NEW winner, Finalize(reason, winner), Live,
           result'.reason = "abandonment"
    PROVE  reason = "abandonment" /\ result'.winner = winner
BY DEF Finalize, Recorded, Live, NoResult, endVars

\* The sweep takes a game only from a player away for a whole grace period,
\* however stale the shortlist it works through.
THEOREM AbandonedAway == Spec => AbandonedWasAway
<1> DEFINE Taken == /\ Live /\ result'.reason = "abandonment" /\ leaving' = leaving
           Away == disconnectedFor[Seat(Opp(result'.winner))] = Grace
<1>1. TypeOK /\ [Next]_vars => [Taken => Away]_vars
  <2> SUFFICES ASSUME TypeOK, Next, Taken PROVE Away
    OBVIOUS
  <2>1. CASE result' = result
    BY <2>1 DEF Live, NoResult
  <2>2. CASE SweepEnd
    <3>1. Opp(Opp(First)) = First
      BY DEF Opp, First
    <3>2. Finalize("abandonment", Opp(First)) /\ disconnectedFor[Seat(First)] = Grace
      BY <2>1, <2>2 DEF SweepEnd, endVars, Live, NoResult
    <3>3. result'.winner = Opp(First)
      BY <3>2, RecordedReason
    <3>4. QED
      BY <3>1, <3>2, <3>3
  <2>3. CASE SweepClock
    <3>1. PICK flag \in {"none", ToMove, flagged} :
            \/ Verdict(flag) # NoResult /\ Finalize(Verdict(flag).reason, Verdict(flag).winner)
            \/ StepIdle
            \/ result' = result
      BY <2>3 DEF SweepClock, Quiet, endVars
    <3>2. Verdict(flag).reason # "abandonment"
      BY DEF Verdict, NoResult
    <3>3. ~StepIdle \/ result' = result
      BY RecordedReason DEF StepIdle, WindowAt, Quiet, endVars
    <3>4. QED
      BY <2>1, <3>1, <3>2, <3>3, RecordedReason
  <2>4. ASSUME NEW p \in Players, Requests(p) \/ Handlers(p), ~(result' = result)
        PROVE  FALSE
    <3>1. CASE MoveSent(p)
      BY <2>4, <3>1, MoveSentEnds, RecordedReason DEF endVars
    <3>2. CASE Resign(p) \/ AgreeDraw(p)
      BY <3>2, RecordedReason DEF Resign, AgreeDraw
    <3>3. CASE LeaveForNewGame(p)
      BY <3>3 DEF LeaveForNewGame, TypeOK
    <3>4. CASE RequestRematch(p) \/ AcceptRematch(p)
      BY <3>4 DEF RequestRematch, AcceptRematch
    <3>5. QED
      BY <2>4, <3>1, <3>2, <3>3, <3>4
         DEF Requests, Handlers, Connect, Disconnect, Ping, Act, Move, AcceptTakeback,
             DeclineRematch, LeftResult, TakebackSent, DeclineSent, LeaveSent, endVars
  <2>5. QED
    BY <2>1, <2>2, <2>3, <2>4
       DEF Next, Tick, Sweep, SweepHeartbeat, SweepMark, SweepGrace, SweepOrphans,
           SweepPostGame, SweepDrop, SweepGc, endVars
<1>2. QED
  BY <1>1, TypeCorrect, PTL DEF Spec, AbandonedWasAway
=============================================================================
