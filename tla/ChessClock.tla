----------------------------- MODULE ChessClock -----------------------------
(***************************************************************************)
(* The chess clock of a game on the server: the clock itself, the engine   *)
(* calls that charge it, snapshot it with every ply and put it back with a *)
(* takeback, and the callers that reach it (a move, an accepted takeback,  *)
(* a gift of time, the sweep, a resume).                                   *)
(*                                                                         *)
(* Time is the server's monotonic clock, counted in whole units from the   *)
(* moment the clock was set up.  Each handler runs to its end before       *)
(* another touches the clock: none of them awaits between reading and      *)
(* writing it.  Which moves are legal, and who may ask for what, is Play's *)
(* concern; a position that is out of moves is one that a ply has mated.   *)
(***************************************************************************)
EXTENDS Integers, Sequences

CONSTANTS
    Initial,    \* initial_seconds, for each side
    Increment,  \* increment_seconds
    Gifts,      \* seconds a giver may ask for: GIVE_TIME_SECONDS times the ticks held
    MaxPlies,   \* bound: plies on the board
    MaxTime     \* bound: units of time

ASSUME ClockAssumption ==
    /\ Initial \in Nat \ {0} /\ Increment \in Nat
    /\ Gifts \subseteq Nat \ {0}
    /\ MaxPlies \in Nat /\ MaxTime \in Nat

Colors == {"white", "black"}
Nobody == "nobody"      \* None, for running_for and flagged
Never == -1             \* None, for last_tick_at

VARIABLES
    now,        \* the monotonic clock
    clock,      \* Backend.clock
    snapshots,  \* prev_clock_snapshot of each ply in Backend.move_history
    over,       \* Room.result is set
    thought     \* auxiliary: the time each side has been to move for

vars == <<now, clock, snapshots, over, thought>>

(* credited is auxiliary: the seconds that increments and gifts have put on *)
(* each side's clock, as far as they are still in force.                    *)
Clocks == [remaining : [Colors -> Nat], running_for : Colors \cup {Nobody},
           last_tick_at : Nat \cup {Never}, flagged : Colors \cup {Nobody},
           credited : [Colors -> Nat]]

Opponent(c) == IF c = "white" THEN "black" ELSE "white"
MoverAt(n) == IF n % 2 = 0 THEN "white" ELSE "black"
ToMove == MoverAt(Len(snapshots))

Zero == [c \in Colors |-> 0]
Least(m, n) == IF m <= n THEN m ELSE n
Most(m, n) == IF m >= n THEN m ELSE n

-----------------------------------------------------------------------------
(* The clock *)

\* Freezes the clock without flagging anybody.
Stop(k) == [k EXCEPT !.running_for = Nobody, !.last_tick_at = Never]

\* Mutant of Tick: the charge leaves its anchor behind, and the time is charged again.
TickFromAnchor(k) ==
    LET side == k.running_for
        left == k.remaining[side] - (now - k.last_tick_at)
    IN  IF side = Nobody THEN k
        ELSE IF left <= 0
             THEN [Stop(k) EXCEPT !.remaining[side] = 0, !.flagged = side]
             ELSE [k EXCEPT !.remaining[side] = left]

\* Charges the running side, once, for the time since the last charge.
Tick(k) ==
    LET side == k.running_for
        left == k.remaining[side] - (now - k.last_tick_at)
    IN  IF side = Nobody THEN k
        ELSE IF left <= 0
             THEN [Stop(k) EXCEPT !.remaining[side] = 0, !.flagged = side]
             ELSE [k EXCEPT !.remaining[side] = left, !.last_tick_at = now]

Credit(k, c, seconds) == [k EXCEPT !.remaining[c] = @ + seconds, !.credited[c] = @ + seconds]

OnMoveMade(k, mover) ==
    LET charged == Tick(k)
    IN  IF charged.flagged # Nobody THEN charged
        ELSE [Credit(charged, mover, Increment) EXCEPT
                !.running_for = Opponent(mover), !.last_tick_at = now]

\* What a gift adds: nothing to a fallen flag, and nothing above the starting time.
Headroom(k, c, seconds) ==
    IF k.flagged # Nobody THEN 0
    ELSE Least(seconds, Most(Initial - k.remaining[c], 0))

AddTime(k, c, seconds) == Credit(k, c, Headroom(k, c, seconds))

\* The engine charges the clock unless the game is over on it.
TickClock == IF clock.flagged # Nobody THEN clock ELSE Tick(clock)

-----------------------------------------------------------------------------
(* Its callers *)

Init ==
    /\ now = 0
    /\ clock = [remaining |-> [c \in Colors |-> Initial], running_for |-> "white",
                last_tick_at |-> 0, flagged |-> Nobody, credited |-> Zero]
    /\ snapshots = <<>>
    /\ over = FALSE
    /\ thought = Zero

TimePasses ==
    /\ now < MaxTime
    /\ now' = now + 1
    /\ thought' = IF over THEN thought ELSE [thought EXCEPT ![ToMove] = @ + 1]
    /\ UNCHANGED <<clock, snapshots, over>>

\* A ply lands, perhaps a mating one; a fallen flag makes every move illegal.
\* A mover whose time is found to have run out has lost on time.
Move(mates) ==
    /\ ~over /\ clock.flagged = Nobody
    /\ Len(snapshots) < MaxPlies
    /\ snapshots' = Append(snapshots, clock)
    /\ clock' = IF mates THEN Stop(clock) ELSE OnMoveMade(clock, ToMove)
    /\ over' = (mates \/ clock'.flagged # Nobody)
    /\ UNCHANGED <<now, thought>>

\* Mutant of Takeback: the ply goes and the clock stays.
TakebackOfPlyOnly ==
    /\ ~over
    /\ snapshots # <<>>
    /\ clock' = clock
    /\ snapshots' = SubSeq(snapshots, 1, Len(snapshots) - 1)
    /\ UNCHANGED <<now, over, thought>>

\* The last ply is taken back, and the clock with it.
Takeback ==
    /\ ~over
    /\ snapshots # <<>>
    /\ clock' = snapshots[Len(snapshots)]
    /\ snapshots' = SubSeq(snapshots, 1, Len(snapshots) - 1)
    /\ UNCHANGED <<now, over, thought>>

GiveTime(giver, seconds) ==
    /\ ~over
    /\ clock' = AddTime(clock, Opponent(giver), seconds)
    /\ UNCHANGED <<now, snapshots, over, thought>>

\* The sweep charges a board with plies on it and ends the game of a fallen flag.
Sweep ==
    /\ ~over
    /\ snapshots # <<>>
    /\ clock' = TickClock
    /\ over' = (clock'.flagged # Nobody)
    /\ UNCHANGED <<now, snapshots, thought>>

\* A resume charges any board, and leaves a fallen flag for the sweep to find.
Resume ==
    /\ clock' = TickClock
    /\ UNCHANGED <<now, snapshots, over, thought>>

\* Every other ending (resignation, agreement, abandonment, idleness) leaves the clock be.
End ==
    /\ ~over
    /\ over' = TRUE
    /\ UNCHANGED <<now, clock, snapshots, thought>>

Next ==
    \/ TimePasses
    \/ \E mates \in BOOLEAN : Move(mates)
    \/ Takeback
    \/ \E giver \in Colors, seconds \in Gifts : GiveTime(giver, seconds)
    \/ Sweep
    \/ Resume
    \/ End

Spec == Init /\ [][Next]_vars

-----------------------------------------------------------------------------
(* Properties *)

\* The clock is a clock, its snapshots too, and a stopped clock has no anchor.
TypeOK ==
    /\ now \in Nat
    /\ clock \in Clocks
    /\ snapshots \in Seq(Clocks)
    /\ over \in BOOLEAN
    /\ thought \in [Colors -> Nat]
    /\ clock.running_for = Nobody <=> clock.last_tick_at = Never

\* Backend.undo and Clock.tick: however the clock is charged, topped up and put back, every
\* second up to the last charge has been taken from exactly one of the two players.
Balanced(k) ==
    k.running_for # Nobody =>
        k.remaining["white"] + k.remaining["black"] + k.last_tick_at
            = 2 * Initial + k.credited["white"] + k.credited["black"]
SecondsAddUp == Balanced(clock)

\* Clock.on_move_made and Backend.undo: the clock runs for the side to move or for nobody, and
\* it was anchored in the past, so no charge can hand out time.
RunsFor(k, mover, t) == k.running_for # Nobody => k.running_for = mover /\ k.last_tick_at <= t
RunsForMover == RunsFor(clock, ToMove, now)

\* Clock.add_time, Clock.on_move_made and Backend.undo together: moves, gifts and takebacks never
\* make a side richer than the starting time and the increments of its plies on the board.
PliesBy(c, n) == IF c = "white" THEN (n + 1) \div 2 ELSE n \div 2
WithinMeans(k, n) == \A c \in Colors : k.remaining[c] <= Initial + Increment * PliesBy(c, n)
NobodyGrowsRich == WithinMeans(clock, Len(snapshots))

\* Clock.tick and Clock.add_time: a fallen flag stands on a spent and stopped clock, whatever
\* gifts cross it.
FlagSpent(k) == k.flagged # Nobody => k.running_for = Nobody /\ k.remaining[k.flagged] = 0
FlagStandsSpent == FlagSpent(clock)

\* Clock.tick says it charges the side to move for the real time gone by: nobody is charged
\* for longer than they have been to move.
PaysOwnTime ==
    \A c \in Colors : Initial + clock.credited[c] - clock.remaining[c] <= thought[c]
=============================================================================
