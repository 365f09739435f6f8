--------------------------- MODULE SessionsProofs ---------------------------
(***************************************************************************)
(* Proofs about Sessions, for any number of coroutines, sockets and games: *)
(* the newest socket stays filed while it works, a connected player has a  *)
(* socket filed, a complete pair hears of its game, and a seat of the      *)
(* first game that counts as told has heard of it in its own colours.      *)
(***************************************************************************)
EXTENDS Sessions, TLAPS

\* What no session has opened yet neither works nor runs.
Unopened ==
    \A p \in Players, s \in Sockets :
        s > opened[p] => ~alive[p][s] /\ session[p][s] = "none"

\* The socket on file is the newest one, or there is none.
FiledNewest == \A p \in Players : filed[p] \in {NoSocket, opened[p]}

\* A coroutine sends to sockets that were opened, and counts as failed only colours
\* whose socket will never work again; an announcement counts none.
Captured(r) ==
    /\ \A c \in Colors : \A x \in r.to[c] : x[2] <= opened[x[1]]
    /\ \A c \in r.failed : \A x \in r.to[c] : ~alive[x[1]][x[2]]
    /\ r.kind = "start" => r.failed = {} /\ r.at # "tell"
CapturesHold == \A t \in Tasks : Captured(task[t])

\* A session that runs a coroutine waits for it, and runs no other.
BusyWithOne ==
    /\ \A t \in Tasks : \A x \in task[t].by : session[x[1]][x[2]] = "busy"
    /\ \A t, u \in Tasks : t # u => task[t].by \cap task[u].by = {}

IInv ==
    /\ TypeOK /\ Unopened /\ FiledNewest /\ CapturesHold /\ BusyWithOne
    /\ NewestIsFiled /\ ConnectedHasSocket /\ PairHearsOfStart

\* A session moves on, either alone or by starting a coroutine of its own.
MovesOn(p, s) ==
    \/ /\ \E w \in {"reading", "knocking"} : session' = [session EXCEPT ![p][s] = w]
       /\ task' = task
    \/ /\ session' = [session EXCEPT ![p][s] = "busy"]
       /\ \E t \in Tasks, r \in Coroutines :
            /\ Free(t) /\ task' = [task EXCEPT ![t] = r]
            /\ r.by = {<<p, s>>} /\ r.failed = {} /\ r.at = "white"
            /\ \A c \in Colors : \A x \in r.to[c] : x[2] <= opened'[x[1]]

-----------------------------------------------------------------------------
(* Types *)

LEMMA SeatType ==
    ASSUME white \in Players
    PROVE  /\ \A c \in Colors : Seat(c) \in Players /\ Opposite(c) \in Colors
           /\ \A p \in Players : ColorOf(p) \in Colors /\ Other(p) \in Players
BY PlayersAssumption DEF Seat, ColorOf, Other, Opposite, Colors, Players

LEMMA IdleType == Idle \in Coroutines
BY DEF Idle, First, Coroutines, Kinds, Steps, Targets, Colors

LEMMA FirstType ==
    ASSUME NEW target \in Targets
    PROVE  /\ First(target) \in [Colors -> Targets]
           /\ \A c \in Colors : \A x \in First(target)[c] : x \in target
BY DEF First, Targets

LEMMA TargetType ==
    ASSUME TypeOK, NEW c \in Colors
    PROVE  Target(c) \in Targets
BY SeatType DEF Target, TypeOK, Targets, NoSocket

LEMMA CatchUpMoves ==
    ASSUME TypeOK, NEW p \in Players, NEW s \in Sockets, auth'[p][s] \in Colors,
           s <= opened'[p], CatchUp(p, s)
    PROVE  MovesOn(p, s)
<1>1. CASE announced /\ ~told[p]
  <2> DEFINE r == Sending("catchup", {<<p, s>>}, game, FALSE, auth'[p][s], First({<<p, s>>}))
  <2>1. PICK t \in Tasks :
          /\ Free(t) /\ session' = [session EXCEPT ![p][s] = "busy"]
          /\ task' = [task EXCEPT ![t] = r]
    BY <1>1 DEF CatchUp, Goto
  <2>2. {<<p, s>>} \in Targets
    BY DEF Targets
  <2>3. First({<<p, s>>}) \in [Colors -> Targets]
    BY <2>2, FirstType
  <2>4. /\ r \in Coroutines /\ r.at = "white" /\ r.by = {<<p, s>>} /\ r.failed = {}
        /\ r.to = First({<<p, s>>})
    BY <2>2, <2>3 DEF Sending, Coroutines, Kinds, Steps, TypeOK
  <2>5. \A c \in Colors : \A x \in First({<<p, s>>})[c] : x = <<p, s>>
    BY <2>2, FirstType
  <2> HIDE DEF r
  <2>6. \A c \in Colors : \A x \in r.to[c] : x[2] <= opened'[x[1]]
    BY <2>4, <2>5
  <2>7. QED
    BY <2>1, <2>4, <2>6 DEF MovesOn
<1>2. CASE ~(announced /\ ~told[p])
  BY <1>2 DEF CatchUp, Goto, MovesOn
<1>3. QED
  BY <1>1, <1>2

LEMMA AnnounceMoves ==
    ASSUME TypeOK, NEW p \in Players, NEW s \in Sockets, NEW t \in Tasks,
           game' \in Nat, white' \in Players,
           filed' \in [Players -> Sockets \cup {NoSocket}],
           \A q \in Players : filed'[q] <= opened'[q],
           Free(t), Goto(p, s, "busy"), Announce(t, p, s)
    PROVE  MovesOn(p, s) /\ task'[t].kind = "start" /\ ~Free(t)'
<1> DEFINE target == Target("white")'
           r == Sending("start", {<<p, s>>}, game', FALSE, "white", First(target))
<1>1. Seat("white")' = white'
  BY DEF Seat
<1>2. target \in Targets /\ \A x \in target : x[2] <= opened'[x[1]]
  BY <1>1 DEF Target, Targets, NoSocket
<1>3. {<<p, s>>} \in Targets
  BY DEF Targets
<1> HIDE DEF target
<1>4. First(target) \in [Colors -> Targets]
  BY <1>2, FirstType
<1>5. /\ r \in Coroutines /\ r.kind = "start" /\ r.at = "white"
      /\ r.by = {<<p, s>>} /\ r.failed = {} /\ r.to = First(target)
  BY <1>3, <1>4 DEF Sending, Coroutines, Kinds, Steps, Colors
<1>7. \A c \in Colors : \A x \in r.to[c] : x[2] <= opened'[x[1]]
  BY <1>2, <1>5, FirstType
<1>8. task' = [task EXCEPT ![t] = r]
  BY DEF Announce, target
<1>9. session' = [session EXCEPT ![p][s] = "busy"]
  BY DEF Goto
<1> HIDE DEF r
<1>10. MovesOn(p, s)
  BY <1>5, <1>7, <1>8, <1>9 DEF MovesOn
<1>11. task'[t] = r
  BY <1>8 DEF TypeOK
<1>12. QED
  BY <1>5, <1>10, <1>11 DEF Free

LEMMA GreetMoves ==
    ASSUME TypeOK, NEW p \in Players, NEW s \in Sockets, auth'[p][s] \in Colors,
           s <= opened'[p], game' \in Nat, white' \in Players,
           filed' \in [Players -> Sockets \cup {NoSocket}],
           \A q \in Players : filed'[q] <= opened'[q], Greet(p, s)
    PROVE  /\ MovesOn(p, s)
           /\ \/ over \/ announced \/ ~BothFiled'
              \/ \E t \in Tasks : task'[t].kind = "start" /\ ~Free(t)'
<1>1. CASE over
  BY <1>1 DEF Greet, Goto, MovesOn
<1>2. CASE ~over /\ BothFiled' /\ ~announced
  <2>1. PICK t \in Tasks : Free(t) /\ Goto(p, s, "busy") /\ Announce(t, p, s)
    BY <1>2 DEF Greet
  <2>2. QED
    BY <2>1, AnnounceMoves
<1>3. CASE ~over /\ ~(BothFiled' /\ ~announced)
  <2>1. CASE filed'[Seat(Opposite(auth'[p][s]))] # NoSocket
    BY <1>3, <2>1 DEF Greet, Goto, MovesOn
  <2>2. CASE ~(filed'[Seat(Opposite(auth'[p][s]))] # NoSocket)
    BY <1>3, <2>2, CatchUpMoves DEF Greet
  <2>3. QED
    BY <1>3, <2>1, <2>2
<1>4. QED
  BY <1>1, <1>2, <1>3

-----------------------------------------------------------------------------
(* Steps of coroutines and sessions *)

\* Sockets are opened, never closed twice: what once was captured as failed stays so.
NoneRevived ==
    /\ \A q \in Players : opened[q] <= opened'[q]
    /\ \A q \in Players, k \in Sockets : k <= opened[q] /\ ~alive[q][k] => ~alive'[q][k]

LEMMA MovesOnKeeps ==
    ASSUME TypeOK, Unopened, CapturesHold, BusyWithOne, NEW p \in Players,
           NEW s \in Sockets, MovesOn(p, s), session[p][s] # "busy", s <= opened'[p],
           opened' \in [Players -> 0..MaxSockets], NoneRevived
    PROVE  /\ session' \in [Players -> [Sockets -> Stages]]
           /\ task' \in [Tasks -> Coroutines]
           /\ \A q \in Players, k \in Sockets : k > opened'[q] => session'[q][k] = "none"
           /\ CapturesHold' /\ BusyWithOne'
<1>1. PICK w \in {"reading", "knocking", "busy"} : session' = [session EXCEPT ![p][s] = w]
  BY DEF MovesOn
<1>2. session' \in [Players -> [Sockets -> Stages]]
  BY <1>1 DEF TypeOK, Stages
<1>3. \A q \in Players, k \in Sockets :
          session'[q][k] = IF q = p /\ k = s THEN w ELSE session[q][k]
  BY <1>1 DEF TypeOK
<1>4. ASSUME NEW q \in Players, NEW k \in Sockets, k > opened'[q]
      PROVE  session'[q][k] = "none"
  <2>1. k > opened[q] /\ k \in Nat /\ s \in Nat
    BY <1>4 DEF TypeOK, NoneRevived, Sockets
  <2>2. ~(q = p /\ k = s)
    BY <1>4, <2>1
  <2>3. QED
    BY <1>3, <2>1, <2>2 DEF Unopened
<1>5. \A t \in Tasks : task[t] \in Coroutines /\ <<p, s>> \notin task[t].by
  BY DEF TypeOK, BusyWithOne
<1>6. \A r \in Coroutines : \A x \in r.by : x \in Players \X Sockets
  BY DEF Coroutines, Targets
<1>7. \A r \in Coroutines : \A c \in Colors : \A x \in r.to[c] : x \in Players \X Sockets
  BY DEF Coroutines, Targets
<1>8. \A t \in Tasks : \A x \in task[t].by : session'[x[1]][x[2]] = "busy"
  <2> SUFFICES ASSUME NEW t \in Tasks, NEW x \in task[t].by
               PROVE  session'[x[1]][x[2]] = "busy"
    OBVIOUS
  <2>1. x \in Players \X Sockets /\ x # <<p, s>> /\ session[x[1]][x[2]] = "busy"
    BY <1>5, <1>6 DEF BusyWithOne
  <2>2. QED
    BY <1>3, <2>1
<1>9. \A t \in Tasks : Captured(task[t])'
                        <=> /\ \A c \in Colors : \A x \in task'[t].to[c] : x[2] <= opened'[x[1]]
                            /\ \A c \in task'[t].failed : \A x \in task'[t].to[c] :
                                   ~alive'[x[1]][x[2]]
                            /\ task'[t].kind = "start"
                                 => task'[t].failed = {} /\ task'[t].at # "tell"
  BY DEF Captured
<1>10. ASSUME NEW t \in Tasks, task'[t] = task[t]
       PROVE  Captured(task[t])'
  <2>1. Captured(task[t]) /\ task[t] \in Coroutines
    BY <1>5 DEF CapturesHold
  <2>2. task[t].failed \subseteq Colors
    BY <2>1 DEF Coroutines
  <2>3. \A c \in Colors : \A x \in task[t].to[c] :
            x \in Players \X Sockets /\ x[2] <= opened[x[1]]
    BY <1>7, <2>1 DEF Captured
  <2>4. \A c \in Colors : \A x \in task[t].to[c] : x[2] <= opened'[x[1]]
    BY <2>3 DEF NoneRevived, Sockets, TypeOK
  <2>5. \A c \in task[t].failed : \A x \in task[t].to[c] : ~alive'[x[1]][x[2]]
    BY <2>1, <2>2, <2>3 DEF Captured, NoneRevived
  <2>6. task[t].kind = "start" => task[t].failed = {} /\ task[t].at # "tell"
    BY <2>1 DEF Captured
  <2>7. QED
    BY <1>10, <2>4, <2>5, <2>6, <1>9
<1>11. CASE task' = task
  BY <1>2, <1>4, <1>8, <1>10, <1>11 DEF TypeOK, CapturesHold, BusyWithOne
<1>12. ASSUME w = "busy",
              NEW t \in Tasks, NEW r \in Coroutines, task' = [task EXCEPT ![t] = r],
              r.by = {<<p, s>>}, r.failed = {}, r.at = "white",
              \A c \in Colors : \A x \in r.to[c] : x[2] <= opened'[x[1]]
       PROVE  task' \in [Tasks -> Coroutines] /\ CapturesHold' /\ BusyWithOne'
  <2>1. task' \in [Tasks -> Coroutines] /\ task'[t] = r
        /\ \A u \in Tasks : u # t => task'[u] = task[u]
    BY <1>12 DEF TypeOK
  <2>2. CapturesHold'
    BY <1>9, <1>10, <1>12, <2>1 DEF CapturesHold
  <2>3. \A u \in Tasks : \A x \in task'[u].by : session'[x[1]][x[2]] = "busy"
    BY <1>3, <1>8, <1>12, <2>1
  <2>4. \A u, v \in Tasks : u # v => task'[u].by \cap task'[v].by = {}
    BY <1>5, <1>12, <2>1 DEF BusyWithOne
  <2>5. QED
    BY <2>1, <2>2, <2>3, <2>4 DEF BusyWithOne
<1>13. QED
  <2>1. CASE task' # task
    <3>1. session' = [session EXCEPT ![p][s] = "busy"]
          /\ \E t \in Tasks, r \in Coroutines :
               /\ task' = [task EXCEPT ![t] = r] /\ r.by = {<<p, s>>} /\ r.failed = {}
               /\ r.at = "white"
               /\ \A c \in Colors : \A x \in r.to[c] : x[2] <= opened'[x[1]]
      BY <2>1 DEF MovesOn
    <3>2. w = "busy"
      BY <1>1, <1>3, <3>1 DEF TypeOK
    <3>3. QED
      BY <1>2, <1>4, <1>12, <3>1, <3>2
  <2>2. QED
    BY <1>2, <1>4, <1>11, <2>1 DEF TypeOK

LEMMA FinishedKeeps ==
    ASSUME TypeOK, Unopened, CapturesHold, BusyWithOne, NEW t \in Tasks,
           Resume(t), task' = [task EXCEPT ![t] = Idle], UNCHANGED <<opened, alive>>
    PROVE  /\ session' \in [Players -> [Sockets -> Stages]]
           /\ task' \in [Tasks -> Coroutines]
           /\ \A q \in Players, k \in Sockets :
                 /\ session[q][k] = "none" => session'[q][k] = "none"
                 /\ session[q][k] = "displacing" => session'[q][k] = "displacing"
           /\ CapturesHold' /\ BusyWithOne'
<1>1. task' \in [Tasks -> Coroutines] /\ task'[t] = Idle
      /\ \A u \in Tasks : u # t => task'[u] = task[u]
  BY IdleType DEF TypeOK
<1>2. \A q \in Players, k \in Sockets :
          session'[q][k] = IF <<q, k>> \in task[t].by THEN "reading" ELSE session[q][k]
  BY DEF Resume
<1>3. session' \in [Players -> [Sockets -> Stages]]
  BY DEF Resume, TypeOK, Stages
<1>4. \A q \in Players, k \in Sockets :
          <<q, k>> \in task[t].by => session[q][k] = "busy"
  BY DEF BusyWithOne
<1>5. Idle.by = {} /\ Idle.failed = {} /\ Idle.kind = "note" /\ \A c \in Colors : Idle.to[c] = {}
  BY DEF Idle, First
<1>6. CapturesHold'
  BY <1>1, <1>5 DEF CapturesHold, Captured
<1>7. \A u \in Tasks : \A x \in task[u].by : x \in Players \X Sockets
  BY DEF TypeOK, Coroutines, Targets
<1>8. ASSUME NEW u \in Tasks, NEW x \in task'[u].by
      PROVE  session'[x[1]][x[2]] = "busy"
  <2>1. u # t /\ x \in task[u].by
    BY <1>1, <1>5, <1>8
  <2>2. x \notin task[t].by /\ session[x[1]][x[2]] = "busy" /\ x \in Players \X Sockets
    BY <1>7, <2>1 DEF BusyWithOne
  <2>3. QED
    BY <1>2, <2>2
<1>9. \A u, v \in Tasks : u # v => task'[u].by \cap task'[v].by = {}
  BY <1>1, <1>5 DEF BusyWithOne
<1>10. BusyWithOne'
  BY <1>8, <1>9 DEF BusyWithOne
<1>11. QED
  BY <1>1, <1>2, <1>3, <1>4, <1>6, <1>10

LEMMA TurnKeeps ==
    ASSUME TypeOK, CapturesHold, BusyWithOne, NEW t \in Tasks, NEW r \in Coroutines,
           task' = [task EXCEPT ![t] = r], r.by \subseteq task[t].by, Captured(r),
           UNCHANGED <<opened, alive, session>>
    PROVE  task' \in [Tasks -> Coroutines] /\ CapturesHold' /\ BusyWithOne'
<1>1. task' \in [Tasks -> Coroutines] /\ task'[t] = r
      /\ \A u \in Tasks : u # t => task'[u] = task[u]
  BY DEF TypeOK
<1>2. CapturesHold'
  BY <1>1 DEF CapturesHold, Captured
<1>3. \A u \in Tasks : task'[u].by \subseteq task[u].by
  BY <1>1
<1>4. BusyWithOne'
  BY <1>3 DEF BusyWithOne
<1>5. QED
  BY <1>1, <1>2, <1>4

\* The sockets of both seats, as a broadcast captures them.
Everybody == [c \in Colors |-> Target(c)]

LEMMA BroadcastType ==
    ASSUME TypeOK, FiledNewest, NEW r,
           r = Sending(r.kind, r.by, game, r.decided, "white", Everybody),
           r.kind \in {"move", "note"}, r.by \in Targets, r.decided \in BOOLEAN
    PROVE  r \in Coroutines /\ r.failed = {} /\ r.at = "white" /\ Captured(r)
<1> DEFINE to == Everybody
<1>1. to \in [Colors -> Targets]
  BY TargetType DEF Everybody
<1>2. \A c \in Colors : \A x \in to[c] : x[2] <= opened[x[1]]
  BY SeatType DEF Everybody, Target, TypeOK, FiledNewest, NoSocket
<1>3. r = Sending(r.kind, r.by, game, r.decided, "white", to)
  OBVIOUS
<1> HIDE DEF to
<1>4. r \in Coroutines /\ r.failed = {} /\ r.at = "white" /\ r.to = to
  BY <1>1, <1>3 DEF Sending, Coroutines, Kinds, Steps, Colors, TypeOK
<1>5. QED
  BY <1>2, <1>4 DEF Captured

-----------------------------------------------------------------------------
(* The invariant *)

LEMMA InitIInv == Init => IInv
<1> SUFFICES ASSUME Init PROVE IInv
  OBVIOUS
<1>1. Idle.by = {} /\ Idle.failed = {} /\ Idle.kind = "note" /\ \A c \in Colors : Idle.to[c] = {}
  BY DEF Idle, First
<1>2. TypeOK
  <2>1. 0 \in 0..MaxSockets /\ 1 \in Nat /\ [game |-> 0, color |-> "white"] \in [game : Nat, color : Colors]
    BY BoundsAssumption DEF Colors
  <2>2. /\ white \in Players /\ game \in Nat /\ over \in BOOLEAN
        /\ offered \subseteq Players /\ announced \in BOOLEAN /\ endedBy \in Nat
    BY DEF Init
  <2>3. /\ told \in [Players -> BOOLEAN] /\ connected \in [Players -> BOOLEAN]
        /\ heard \in [Players -> [game : Nat, color : Colors]]
        /\ opened \in [Players -> 0..MaxSockets]
        /\ filed \in [Players -> Sockets \cup {NoSocket}]
    BY <2>1 DEF Init
  <2>4. alive \in [Players -> [Sockets -> BOOLEAN]]
    BY DEF Init
  <2>5. session \in [Players -> [Sockets -> Stages]] /\ auth \in [Players -> [Sockets -> Colors]]
    BY DEF Init, Stages, Colors
  <2>6. task \in [Tasks -> Coroutines]
    BY IdleType DEF Init
  <2>7. QED
    BY <2>2, <2>3, <2>4, <2>5, <2>6 DEF TypeOK
<1>3. CapturesHold /\ BusyWithOne
  BY <1>1 DEF Init, CapturesHold, Captured, BusyWithOne
<1>4. Unopened /\ FiledNewest /\ NewestIsFiled /\ ConnectedHasSocket
  BY DEF Init, Unopened, FiledNewest, NewestIsFiled, ConnectedHasSocket
<1>5. PairHearsOfStart
  BY DEF Init, PairHearsOfStart, BothFiled, Players
<1>6. QED
  BY <1>2, <1>3, <1>4, <1>5 DEF IInv

\* What an announcement on its way and a displacing session mean for the pair.
LEMMA PairStays ==
    ASSUME PairHearsOfStart, over => over', announced' = announced,
           \A p \in Players : filed[p] = NoSocket => filed'[p] = NoSocket,
           \A u \in Tasks : task[u].kind = "start" /\ ~Free(u)
                              => task'[u].kind = "start" /\ ~Free(u)',
           \A p \in Players, s \in Sockets :
               session[p][s] = "displacing" => session'[p][s] = "displacing"
    PROVE  PairHearsOfStart'
BY DEF PairHearsOfStart, BothFiled

LEMMA EndKeeps == ASSUME IInv, End PROVE IInv'
BY DEF IInv, End, roomVars, slotVars, sockVars, TypeOK, Unopened, FiledNewest, CapturesHold,
       Captured, BusyWithOne, NewestIsFiled, ConnectedHasSocket, PairHearsOfStart

LEMMA OfferKeeps ==
    ASSUME IInv, NEW p \in Players, NEW s \in Sockets, Offer(p, s) PROVE IInv'
BY DEF IInv, Offer, slotVars, sockVars, TypeOK, Unopened, FiledNewest, CapturesHold,
       Captured, BusyWithOne, NewestIsFiled, ConnectedHasSocket, PairHearsOfStart,
       BothFiled, Free

LEMMA BreakKeeps ==
    ASSUME IInv, NEW p \in Players, NEW s \in Sockets, Break(p, s) PROVE IInv'
<1>1. TypeOK
  BY DEF IInv
<1>2. /\ alive' \in [Players -> [Sockets -> BOOLEAN]]
      /\ \A q \in Players, k \in Sockets : alive'[q][k] => alive[q][k]
  BY <1>1 DEF Break, TypeOK
<1>3. TypeOK'
  BY <1>1, <1>2 DEF Break, roomVars, slotVars, TypeOK
<1>4. \A t \in Tasks : task[t].failed \subseteq Colors
                       /\ \A c \in Colors : task[t].to[c] \subseteq Players \X Sockets
  BY <1>1 DEF TypeOK, Coroutines, Targets
<1>5. CapturesHold'
  BY <1>2, <1>4 DEF IInv, Break, CapturesHold, Captured
<1>6. BusyWithOne' /\ PairHearsOfStart' /\ ConnectedHasSocket' /\ FiledNewest'
  BY DEF IInv, Break, roomVars, slotVars, BusyWithOne, PairHearsOfStart, BothFiled, Free,
         ConnectedHasSocket, FiledNewest
<1>7. Unopened'
  BY <1>2 DEF IInv, Break, Unopened
<1>8. NewestIsFiled'
  <2>1. \A q \in Players : opened[q] # 0 => opened[q] \in Sockets
    BY <1>1 DEF TypeOK, Sockets
  <2>2. QED
    BY <1>2, <2>1 DEF IInv, Break, NewestIsFiled
<1>9. QED
  BY <1>3, <1>5, <1>6, <1>7, <1>8 DEF IInv

LEMMA LeaveKeeps ==
    ASSUME IInv, NEW p \in Players, NEW s \in Sockets, Leave(p, s) PROVE IInv'
<1>1. TypeOK
  BY DEF IInv
<1>2. /\ session' = [session EXCEPT ![p][s] = "gone"] /\ session[p][s] = "reading"
      /\ UNCHANGED <<roomVars, opened, task, told, heard, auth>>
  BY DEF Leave, Goto
<1>3. /\ alive' \in [Players -> [Sockets -> BOOLEAN]] /\ ~alive'[p][s]
      /\ \A q \in Players, k \in Sockets : alive'[q][k] => alive[q][k]
  BY <1>1 DEF Leave, TypeOK
<1>4. /\ filed' \in [Players -> Sockets \cup {NoSocket}]
      /\ \A q \in Players :
            filed'[q] = IF q = p /\ filed[p] = s THEN NoSocket ELSE filed[q]
  BY <1>1 DEF Leave, TypeOK
<1>5. /\ connected' \in [Players -> BOOLEAN]
      /\ \A q \in Players : connected'[q] => connected[q] /\ (q = p => filed'[p] # NoSocket)
  BY <1>1 DEF Leave, TypeOK
<1>6. session' \in [Players -> [Sockets -> Stages]]
  BY <1>1, <1>2 DEF TypeOK, Stages
<1>7. TypeOK'
  BY <1>1, <1>2, <1>3, <1>4, <1>5, <1>6 DEF roomVars, TypeOK
<1>8. \A t \in Tasks : /\ task[t].failed \subseteq Colors
                       /\ \A c \in Colors : task[t].to[c] \subseteq Players \X Sockets
                       /\ task[t].by \subseteq Players \X Sockets
  BY <1>1 DEF TypeOK, Coroutines, Targets
<1>9. CapturesHold'
  BY <1>2, <1>3, <1>8 DEF IInv, CapturesHold, Captured
<1>10. \A q \in Players, k \in Sockets :
           session'[q][k] = IF q = p /\ k = s THEN "gone" ELSE session[q][k]
  BY <1>1, <1>2 DEF TypeOK
<1>11. BusyWithOne'
  <2> SUFFICES ASSUME NEW t \in Tasks, NEW x \in task[t].by
               PROVE  session'[x[1]][x[2]] = "busy"
    BY <1>2 DEF IInv, BusyWithOne
  <2>1. session[x[1]][x[2]] = "busy" /\ x \in Players \X Sockets
    BY <1>8 DEF IInv, BusyWithOne
  <2>2. QED
    BY <1>2, <1>10, <2>1
<1>12. Unopened'
  BY <1>2, <1>3, <1>10 DEF IInv, Unopened
<1>13. FiledNewest'
  BY <1>2, <1>4 DEF IInv, FiledNewest
<1>14. NewestIsFiled'
  <2>1. \A q \in Players : opened[q] # 0 => opened[q] \in Sockets
    BY <1>1 DEF TypeOK, Sockets
  <2>2. filed[p] = s => opened[p] = s
    BY DEF IInv, FiledNewest, Sockets, NoSocket
  <2>3. QED
    BY <1>2, <1>3, <1>4, <2>1, <2>2 DEF IInv, NewestIsFiled
<1>15. ConnectedHasSocket'
  BY <1>4, <1>5 DEF IInv, ConnectedHasSocket
<1>16. PairHearsOfStart'
  BY <1>2, <1>4, <1>10 DEF IInv, PairHearsOfStart, BothFiled, Free, roomVars
<1>17. QED
  BY <1>7, <1>9, <1>11, <1>12, <1>13, <1>14, <1>15, <1>16 DEF IInv

LEMMA SentWhiteKeeps ==
    ASSUME IInv, NEW t \in Tasks, SentWhite(t) PROVE IInv'
<1> DEFINE failed == IF Reaches(task[t].to["white"]) THEN {} ELSE {"white"}
           r == [task[t] EXCEPT !.at = "black", !.failed = failed]
<1>1. TypeOK /\ task[t] \in Coroutines
  BY DEF IInv, TypeOK
<1>2. task' = [task EXCEPT ![t] = r] /\ task[t].kind \in {"move", "note"}
      /\ UNCHANGED <<roomVars, slotVars, sockVars>>
  BY DEF SentWhite
<1>3. failed \subseteq Colors /\ \A c \in failed : \A x \in task[t].to[c] : ~alive[x[1]][x[2]]
  BY DEF Reaches, Colors
<1> HIDE DEF failed
<1>4. /\ r \in Coroutines /\ r.by = task[t].by /\ r.to = task[t].to /\ r.failed = failed
      /\ r.kind = task[t].kind
  BY <1>1, <1>3 DEF Coroutines, Steps
<1> HIDE DEF r
<1>5. Captured(r)
  BY <1>2, <1>3, <1>4 DEF IInv, CapturesHold, Captured
<1>6. task' \in [Tasks -> Coroutines] /\ CapturesHold' /\ BusyWithOne'
  BY <1>1, <1>2, <1>4, <1>5, TurnKeeps DEF IInv, sockVars
<1>7. TypeOK'
  BY <1>1, <1>2, <1>6 DEF TypeOK, roomVars, slotVars, sockVars
<1>8. \A u \in Tasks : task[u].kind = "start" /\ ~Free(u) => task'[u].kind = "start" /\ ~Free(u)'
  BY <1>1, <1>2 DEF TypeOK, Free
<1>9. PairHearsOfStart'
  BY <1>2, <1>8, PairStays DEF IInv, roomVars, sockVars
<1>10. Unopened' /\ FiledNewest' /\ NewestIsFiled' /\ ConnectedHasSocket'
  BY <1>2 DEF IInv, slotVars, sockVars, Unopened, FiledNewest, NewestIsFiled, ConnectedHasSocket
<1>11. QED
  BY <1>6, <1>7, <1>9, <1>10 DEF IInv

\* The end of a coroutine, with whatever it leaves filed, connected and told.
LEMMA FinishKeeps ==
    ASSUME IInv, NEW t \in Tasks, Resume(t), task' = [task EXCEPT ![t] = Idle],
           UNCHANGED <<white, game, offered, opened, alive, auth>>,
           over' \in BOOLEAN, over => over', endedBy' \in Nat,
           told' \in [Players -> BOOLEAN],
           heard' \in [Players -> [game : Nat, color : Colors]],
           connected' \in [Players -> BOOLEAN],
           filed' \in [Players -> Sockets \cup {NoSocket}],
           announced' \in BOOLEAN,
           announced' \/ (announced' = announced /\ task[t].kind # "start"),
           \A p \in Players : filed'[p] = filed[p]
                           \/ (filed'[p] = NoSocket /\ ~alive[p][filed[p]]),
           \A p \in Players : connected'[p] => connected[p] /\ filed'[p] = filed[p]
    PROVE  IInv'
<1>1. TypeOK
  BY DEF IInv
<1>2. /\ session' \in [Players -> [Sockets -> Stages]]
      /\ task' \in [Tasks -> Coroutines]
      /\ \A q \in Players, k \in Sockets :
            /\ session[q][k] = "none" => session'[q][k] = "none"
            /\ session[q][k] = "displacing" => session'[q][k] = "displacing"
      /\ CapturesHold' /\ BusyWithOne'
  BY FinishedKeeps DEF IInv
<1>3. TypeOK'
  BY <1>1, <1>2 DEF TypeOK
<1>4. Unopened' /\ FiledNewest' /\ ConnectedHasSocket'
  BY <1>2 DEF IInv, Unopened, FiledNewest, ConnectedHasSocket
<1>5. NewestIsFiled'
  BY DEF IInv, NewestIsFiled, FiledNewest, NoSocket
<1>6. PairHearsOfStart'
  <2>1. CASE announced'
    BY <2>1 DEF PairHearsOfStart
  <2>2. CASE announced' = announced /\ task[t].kind # "start"
    <3>1. \A u \in Tasks : task[u].kind = "start" /\ ~Free(u)
                           => task'[u].kind = "start" /\ ~Free(u)'
      BY <1>1, <2>2 DEF TypeOK, Free
    <3>2. QED
      BY <1>2, <2>2, <3>1, PairStays DEF IInv
  <2>3. QED
    BY <2>1, <2>2
<1>7. QED
  BY <1>2, <1>3, <1>4, <1>5, <1>6 DEF IInv

LEMMA SentBlackKeeps ==
    ASSUME IInv, NEW t \in Tasks, SentBlack(t) PROVE IInv'
<1> DEFINE lost == task[t].failed \cup
                     IF Reaches(task[t].to["black"]) THEN {} ELSE {"black"}
           r == [task[t] EXCEPT !.at = "tell", !.failed = lost]
<1>1. TypeOK /\ task[t] \in Coroutines
  BY DEF IInv, TypeOK
<1>2. /\ Unfile(lost, task[t].to) /\ MarkAway(lost) /\ task[t].kind \in {"move", "note"}
      /\ UNCHANGED <<white, game, offered, announced, told, heard, opened, alive, auth>>
      /\ \/ task' = [task EXCEPT ![t] = r] /\ UNCHANGED <<over, endedBy, session>>
         \/ Finish(t)
  BY DEF SentBlack
<1>3. lost \subseteq Colors /\ \A c \in lost : \A x \in task[t].to[c] : ~alive[x[1]][x[2]]
  BY <1>1 DEF IInv, CapturesHold, Captured, Coroutines, Reaches, Colors
<1> HIDE DEF lost
<1>4. /\ filed' \in [Players -> Sockets \cup {NoSocket}]
      /\ \A p \in Players : \/ filed'[p] = filed[p]
                           \/ /\ filed'[p] = NoSocket /\ ColorOf(p) \in lost
                              /\ <<p, filed[p]>> \in task[t].to[ColorOf(p)]
  BY <1>1, <1>2 DEF Unfile, TypeOK
<1>5. \A p \in Players : filed'[p] = filed[p] \/ (filed'[p] = NoSocket /\ ~alive[p][filed[p]])
  BY <1>3, <1>4
<1>6. /\ connected' \in [Players -> BOOLEAN]
      /\ \A p \in Players : connected'[p] => connected[p] /\ ColorOf(p) \notin lost
  BY <1>1, <1>2 DEF MarkAway, TypeOK
<1>7. \A p \in Players : connected'[p] => connected[p] /\ filed'[p] = filed[p]
  BY <1>4, <1>6
<1>8. CASE Finish(t)
  <2>1. /\ Resume(t) /\ task' = [task EXCEPT ![t] = Idle]
        /\ over' \in BOOLEAN /\ (over => over') /\ endedBy' \in Nat
    BY <1>1, <1>8 DEF Finish, TypeOK, Coroutines
  <2>2. told' \in [Players -> BOOLEAN] /\ heard' \in [Players -> [game : Nat, color : Colors]]
        /\ announced' \in BOOLEAN
    BY <1>1, <1>2 DEF TypeOK
  <2>3. QED
    BY <1>2, <1>4, <1>5, <1>6, <1>7, <2>1, <2>2, FinishKeeps
<1>9. CASE task' = [task EXCEPT ![t] = r] /\ UNCHANGED <<over, endedBy, session>>
  <2>1. /\ r \in Coroutines /\ r.by = task[t].by /\ r.to = task[t].to /\ r.failed = lost
        /\ r.kind = task[t].kind
    BY <1>1, <1>3 DEF Coroutines, Steps
  <2> HIDE DEF r
  <2>2. Captured(r)
    BY <1>2, <1>3, <2>1 DEF IInv, CapturesHold, Captured
  <2>3. task' \in [Tasks -> Coroutines] /\ CapturesHold' /\ BusyWithOne'
    BY <1>1, <1>2, <1>9, <2>1, <2>2, TurnKeeps DEF IInv
  <2>4. TypeOK'
    BY <1>1, <1>2, <1>4, <1>6, <1>9, <2>3 DEF TypeOK
  <2>5. \A u \in Tasks : task[u].kind = "start" /\ ~Free(u)
                         => task'[u].kind = "start" /\ ~Free(u)'
    BY <1>1, <1>2, <1>9 DEF TypeOK, Free
  <2>6. PairHearsOfStart'
    BY <1>2, <1>4, <1>9, <2>5, PairStays DEF IInv
  <2>7. Unopened' /\ FiledNewest' /\ ConnectedHasSocket'
    BY <1>2, <1>5, <1>7, <1>9 DEF IInv, Unopened, FiledNewest, ConnectedHasSocket
  <2>8. NewestIsFiled'
    BY <1>2, <1>5 DEF IInv, NewestIsFiled, FiledNewest, NoSocket
  <2>9. QED
    BY <2>3, <2>4, <2>6, <2>7, <2>8 DEF IInv
<1>10. QED
  BY <1>2, <1>8, <1>9

LEMMA TellSentKeeps ==
    ASSUME IInv, NEW t \in Tasks, TellSent(t) PROVE IInv'
<1>1. TypeOK /\ task[t] \in Coroutines
  BY DEF IInv, TypeOK
<1>2. /\ Resume(t) /\ task' = [task EXCEPT ![t] = Idle]
      /\ over' \in BOOLEAN /\ (over => over') /\ endedBy' \in Nat
  BY <1>1 DEF TellSent, Finish, TypeOK, Coroutines
<1>3. /\ UNCHANGED <<white, game, offered, announced, slotVars, opened, alive, auth, filed>>
      /\ task[t].kind # "start"
  BY DEF TellSent, IInv, CapturesHold, Captured
<1>4. QED
  BY <1>1, <1>2, <1>3, FinishKeeps DEF TypeOK, slotVars

LEMMA CatchupSentKeeps ==
    ASSUME IInv, NEW t \in Tasks, CatchupSent(t) PROVE IInv'
<1>1. TypeOK /\ task[t] \in Coroutines
  BY DEF IInv, TypeOK
<1>2. /\ Resume(t) /\ task' = [task EXCEPT ![t] = Idle] /\ task[t].kind = "catchup"
      /\ UNCHANGED <<roomVars, connected, opened, alive, auth, filed>>
      /\ Told(task[t].to["white"], task[t].board, task[t].color)
  BY DEF CatchupSent
<1>3. told' \in [Players -> BOOLEAN] /\ heard' \in [Players -> [game : Nat, color : Colors]]
  BY <1>1, <1>2 DEF Told, TypeOK, Coroutines
<1>4. QED
  BY <1>1, <1>2, <1>3, FinishKeeps DEF TypeOK, roomVars

LEMMA StartSentKeeps ==
    ASSUME IInv, NEW t \in Tasks, StartSent(t) PROVE IInv'
<1>1. TypeOK /\ task[t] \in Coroutines
  BY DEF IInv, TypeOK
<1>2. /\ Told(task[t].to[task[t].at], task[t].board, task[t].at)
      /\ task[t].at \in Colors /\ task[t].kind = "start"
      /\ UNCHANGED <<white, game, over, offered, endedBy, connected, opened, alive, auth, filed>>
  BY DEF StartSent
<1>3. told' \in [Players -> BOOLEAN] /\ heard' \in [Players -> [game : Nat, color : Colors]]
  BY <1>1, <1>2 DEF Told, TypeOK, Coroutines
<1>4. CASE task[t].at = "white"
  <2> DEFINE target == Target("black")
             r == [task[t] EXCEPT !.at = "black", !.board = game, !.to["black"] = target]
  <2>1. task' = [task EXCEPT ![t] = r] /\ UNCHANGED <<announced, session>>
    BY <1>4 DEF StartSent
  <2>2. target \in Targets /\ \A x \in target : x[2] <= opened[x[1]]
    <3>1. "black" \in Colors /\ Seat("black") \in Players
      BY <1>1, SeatType DEF Colors, TypeOK
    <3>2. target \in Targets
      BY <1>1, <3>1, TargetType
    <3>3. \A x \in target : x[2] <= opened[x[1]]
      BY <1>1, <3>1 DEF Target, IInv, FiledNewest, NoSocket, TypeOK
    <3>4. QED
      BY <3>2, <3>3
  <2> HIDE DEF target
  <2>3. /\ r \in Coroutines /\ r.by = task[t].by /\ r.failed = task[t].failed /\ r.at = "black"
        /\ r.kind = "start" /\ r.to = [task[t].to EXCEPT !["black"] = target]
    BY <1>1, <1>2, <2>2 DEF Coroutines, Steps, TypeOK
  <2>4. task[t].failed = {}
    BY <1>2 DEF IInv, CapturesHold, Captured
  <2>5. \A c \in Colors : \A x \in r.to[c] : x \in target \/ x \in task[t].to[c]
    BY <1>1, <2>3 DEF Coroutines
  <2> HIDE DEF r
  <2>6. Captured(r)
    BY <2>2, <2>3, <2>4, <2>5 DEF IInv, CapturesHold, Captured
  <2>7. task' \in [Tasks -> Coroutines] /\ CapturesHold' /\ BusyWithOne'
    BY <1>1, <1>2, <2>1, <2>3, <2>6, TurnKeeps DEF IInv
  <2>8. TypeOK'
    BY <1>1, <1>2, <1>3, <2>1, <2>7 DEF TypeOK
  <2>9. \A u \in Tasks : task[u].kind = "start" /\ ~Free(u)
                         => task'[u].kind = "start" /\ ~Free(u)'
    BY <1>1, <2>1, <2>3 DEF TypeOK, Free
  <2>10. PairHearsOfStart'
    BY <1>2, <2>1, <2>9, PairStays DEF IInv
  <2>11. Unopened' /\ FiledNewest' /\ ConnectedHasSocket' /\ NewestIsFiled'
    BY <1>2, <2>1 DEF IInv, Unopened, FiledNewest, ConnectedHasSocket, NewestIsFiled
  <2>12. QED
    BY <2>7, <2>8, <2>10, <2>11 DEF IInv
<1>5. CASE task[t].at # "white"
  <2>1. announced' = TRUE /\ Resume(t) /\ task' = [task EXCEPT ![t] = Idle]
    BY <1>5 DEF StartSent
  <2>2. QED
    BY <1>1, <1>2, <1>3, <2>1, FinishKeeps DEF TypeOK
<1>6. QED
  BY <1>4, <1>5

LEMMA NoteKeeps ==
    ASSUME IInv, NEW t \in Tasks, Note(t) PROVE IInv'
<1> DEFINE r == Sending("note", {}, game, FALSE, "white", [c \in Colors |-> Target(c)])
<1>1. TypeOK /\ FiledNewest
  BY DEF IInv
<1>2. task' = [task EXCEPT ![t] = r] /\ Free(t) /\ UNCHANGED <<roomVars, slotVars, sockVars>>
  BY DEF Note, Broadcast
<1>3. r \in Coroutines /\ r.by = {} /\ Captured(r)
  <2>1. /\ r = Sending(r.kind, r.by, game, r.decided, "white", Everybody)
        /\ r.kind = "note" /\ r.by = {} /\ r.decided = FALSE
    BY DEF Sending, Everybody
  <2> HIDE DEF r
  <2>2. QED
    BY <1>1, <2>1, BroadcastType DEF Targets
<1> HIDE DEF r
<1>4. task' \in [Tasks -> Coroutines] /\ CapturesHold' /\ BusyWithOne'
  BY <1>1, <1>2, <1>3, TurnKeeps DEF IInv, sockVars
<1>5. TypeOK'
  BY <1>1, <1>2, <1>4 DEF TypeOK, roomVars, slotVars, sockVars
<1>6. \A u \in Tasks : task[u].kind = "start" /\ ~Free(u) => task'[u].kind = "start" /\ ~Free(u)'
  BY <1>1, <1>2 DEF TypeOK, Free
<1>7. PairHearsOfStart'
  BY <1>2, <1>6, PairStays DEF IInv, roomVars, sockVars
<1>8. Unopened' /\ FiledNewest' /\ NewestIsFiled' /\ ConnectedHasSocket'
  BY <1>2 DEF IInv, slotVars, sockVars, Unopened, FiledNewest, NewestIsFiled, ConnectedHasSocket
<1>9. QED
  BY <1>4, <1>5, <1>7, <1>8 DEF IInv

\* A session moves on while the room changes only in what the pair is told.
LEMMA MovedKeeps ==
    ASSUME IInv, NEW p \in Players, NEW s \in Sockets, MovesOn(p, s),
           session[p][s] \notin {"none", "busy"},
           UNCHANGED <<opened, filed, connected, auth, heard>>, endedBy' \in Nat,
           alive' \in [Players -> [Sockets -> BOOLEAN]],
           \A q \in Players, k \in Sockets : alive'[q][k] => alive[q][k],
           white' \in Players, game' \in Nat, over' \in BOOLEAN, offered' \subseteq Players,
           announced' \in BOOLEAN, told' \in [Players -> BOOLEAN], PairHearsOfStart'
    PROVE  IInv'
<1>1. TypeOK
  BY DEF IInv
<1>2. UNCHANGED <<opened, filed, connected, auth, heard>> /\ endedBy' \in Nat
  BY <1>1 DEF TypeOK
<1>3. s <= opened[p]
  BY <1>1 DEF IInv, Unopened, TypeOK, Sockets
<1>4. opened' \in [Players -> 0..MaxSockets] /\ NoneRevived /\ s <= opened'[p]
  BY <1>1, <1>2, <1>3 DEF TypeOK, NoneRevived
<1>5. /\ session' \in [Players -> [Sockets -> Stages]]
      /\ task' \in [Tasks -> Coroutines]
      /\ \A q \in Players, k \in Sockets : k > opened'[q] => session'[q][k] = "none"
      /\ CapturesHold' /\ BusyWithOne'
  BY <1>1, <1>4, MovesOnKeeps DEF IInv
<1>6. TypeOK'
  BY <1>1, <1>2, <1>5 DEF TypeOK
<1>7. Unopened' /\ FiledNewest' /\ ConnectedHasSocket'
  BY <1>2, <1>5 DEF IInv, Unopened, FiledNewest, ConnectedHasSocket
<1>8. NewestIsFiled'
  <2>1. \A q \in Players : opened[q] # 0 => opened[q] \in Sockets
    BY <1>1 DEF TypeOK, Sockets
  <2>2. QED
    BY <1>2, <2>1 DEF IInv, NewestIsFiled
<1>9. QED
  BY <1>5, <1>6, <1>7, <1>8 DEF IInv

LEMMA OpenedNumbers ==
    ASSUME IInv
    PROVE  /\ \A p \in Players : opened[p] \in Nat /\ filed[p] \in Nat /\ filed[p] <= opened[p]
           /\ \A s \in Sockets : s \in Nat /\ s > 0
           /\ \A p \in Players, s \in Sockets : session[p][s] # "none" => s <= opened[p]
<1>1. TypeOK /\ FiledNewest /\ Unopened
  BY DEF IInv
<1>2. \A s \in Sockets : s \in Nat /\ s > 0
  BY DEF Sockets
<1>3. \A p \in Players : opened[p] \in Nat
  BY <1>1 DEF TypeOK
<1>4. \A p \in Players : filed[p] \in Nat /\ filed[p] <= opened[p]
  BY <1>1, <1>3 DEF FiledNewest, NoSocket
<1>5. QED
  BY <1>1, <1>2, <1>3, <1>4 DEF Unopened

LEMMA MovedPair ==
    ASSUME IInv, NEW p \in Players, NEW s \in Sockets, MovesOn(p, s),
           session[p][s] # "displacing", UNCHANGED <<over, announced, filed>>
    PROVE  PairHearsOfStart'
<1>1. TypeOK
  BY DEF IInv
<1>2. \A u \in Tasks : task[u].kind = "start" /\ ~Free(u) => task'[u].kind = "start" /\ ~Free(u)'
  BY <1>1 DEF MovesOn, TypeOK, Free
<1>3. \A q \in Players, k \in Sockets :
          session[q][k] = "displacing" => session'[q][k] = "displacing"
  <2>1. PICK w \in {"reading", "knocking", "busy"} : session' = [session EXCEPT ![p][s] = w]
    BY DEF MovesOn
  <2>2. \A q \in Players, k \in Sockets :
            session'[q][k] = IF q = p /\ k = s THEN w ELSE session[q][k]
    BY <1>1, <2>1 DEF TypeOK
  <2>3. QED
    BY <2>2
<1>4. QED
  BY <1>2, <1>3, PairStays DEF IInv

LEMMA PlayKeeps ==
    ASSUME IInv, NEW t \in Tasks, NEW p \in Players, NEW s \in Sockets,
           NEW decided \in BOOLEAN, Play(t, p, s, decided)
    PROVE  IInv'
<1> DEFINE r == Sending("move", {<<p, s>>}, game, decided, "white",
                        [c \in Colors |-> Target(c)])
<1>1. TypeOK /\ FiledNewest
  BY DEF IInv
<1>2. /\ task' = [task EXCEPT ![t] = r] /\ Free(t) /\ session[p][s] = "reading"
      /\ session' = [session EXCEPT ![p][s] = "busy"]
      /\ UNCHANGED <<roomVars, slotVars, opened, alive, auth, filed>>
  BY DEF Play, Broadcast, Goto, Reads
<1>3. {<<p, s>>} \in Targets
  BY DEF Targets
<1>4. r \in Coroutines /\ r.by = {<<p, s>>} /\ r.failed = {} /\ r.at = "white" /\ Captured(r)
  <2>1. /\ r = Sending(r.kind, r.by, game, r.decided, "white", Everybody)
        /\ r.kind = "move" /\ r.by = {<<p, s>>} /\ r.decided \in BOOLEAN
    BY DEF Sending, Everybody
  <2> HIDE DEF r
  <2>2. QED
    BY <1>1, <1>3, <2>1, BroadcastType
<1> HIDE DEF r
<1>5. MovesOn(p, s)
  BY <1>2, <1>4 DEF MovesOn, Captured
<1>6. PairHearsOfStart'
  BY <1>2, <1>5, MovedPair DEF roomVars
<1>7. QED
  BY <1>1, <1>2, <1>5, <1>6, MovedKeeps DEF TypeOK, roomVars, slotVars

LEMMA RematchKeeps ==
    ASSUME IInv, NEW t \in Tasks, NEW p \in Players, NEW s \in Sockets, Rematch(t, p, s)
    PROVE  IInv'
<1>1. TypeOK /\ FiledNewest
  BY DEF IInv
<1>2. /\ session[p][s] = "reading" /\ Free(t)
      /\ game' = game + 1 /\ white' = Other(white)
      /\ over' = FALSE /\ offered' = {} /\ announced' = FALSE /\ endedBy' = 0
      /\ told' = [q \in Players |-> FALSE]
      /\ UNCHANGED <<heard, connected, opened, alive, auth, filed>>
      /\ Goto(p, s, "busy") /\ Announce(t, p, s)
  BY DEF Rematch, Reads
<1>3. game' \in Nat /\ white' \in Players /\ \A q \in Players : filed'[q] <= opened'[q]
  <2>1. game' = game + 1 /\ white' = Other(white) /\ filed' = filed /\ opened' = opened
    BY <1>2
  <2>2. Other(white) \in Players
    BY <1>1, SeatType DEF TypeOK
  <2>3. QED
    BY <1>1, <2>1, <2>2, OpenedNumbers DEF TypeOK
<1>4. MovesOn(p, s) /\ task'[t].kind = "start" /\ ~Free(t)'
  BY <1>1, <1>2, <1>3, AnnounceMoves DEF TypeOK
<1>5. PairHearsOfStart'
  BY <1>4 DEF PairHearsOfStart
<1>6. QED
  BY <1>1, <1>2, <1>3, <1>4, <1>5, MovedKeeps DEF TypeOK

LEMMA DisplacedKeeps ==
    ASSUME IInv, NEW p \in Players, NEW s \in Sockets, Displaced(p, s) PROVE IInv'
<1>1. TypeOK /\ FiledNewest
  BY DEF IInv
<1>2. /\ session[p][s] = "displacing" /\ Greet(p, s)
      /\ UNCHANGED <<roomVars, slotVars, opened, auth, filed>>
  BY DEF Displaced
<1>3. /\ alive' \in [Players -> [Sockets -> BOOLEAN]]
      /\ \A q \in Players, k \in Sockets : alive'[q][k] => alive[q][k]
  BY <1>1 DEF Displaced, TypeOK
<1>4. s <= opened[p] /\ \A q \in Players : filed[q] <= opened[q]
  BY <1>2, OpenedNumbers
<1>5. /\ MovesOn(p, s)
      /\ \/ over \/ announced \/ ~BothFiled'
         \/ \E t \in Tasks : task'[t].kind = "start" /\ ~Free(t)'
  BY <1>1, <1>2, <1>4, GreetMoves DEF TypeOK, roomVars
<1>6. PairHearsOfStart'
  BY <1>2, <1>5 DEF PairHearsOfStart, roomVars
<1>7. QED
  BY <1>1, <1>2, <1>3, <1>5, <1>6, MovedKeeps DEF TypeOK, roomVars, slotVars

LEMMA KnockedKeeps ==
    ASSUME IInv, NEW p \in Players, NEW s \in Sockets, Knocked(p, s) PROVE IInv'
<1>1. TypeOK
  BY DEF IInv
<1>2. /\ session[p][s] = "knocking" /\ CatchUp(p, s)
      /\ UNCHANGED <<roomVars, slotVars, opened, alive, auth, filed>>
  BY DEF Knocked
<1>3. s <= opened[p]
  BY <1>2, OpenedNumbers
<1>4. MovesOn(p, s)
  BY <1>1, <1>2, <1>3, CatchUpMoves DEF TypeOK
<1>5. PairHearsOfStart'
  BY <1>2, <1>4, MovedPair DEF roomVars
<1>6. QED
  BY <1>1, <1>2, <1>4, <1>5, MovedKeeps DEF TypeOK, roomVars, slotVars

LEMMA OpenKeeps ==
    ASSUME IInv, NEW p \in Players, Open(p) PROVE IInv'
<1> DEFINE s == opened[p] + 1
<1>1. TypeOK /\ FiledNewest
  BY DEF IInv
<1>2. opened[A] \in Nat /\ opened[B] \in Nat /\ A \in Players /\ B \in Players
      /\ opened[A] + opened[B] < MaxSockets
  BY <1>1 DEF TypeOK, Open, Players
<1>3. s \in Sockets /\ s > opened[p] /\ s # NoSocket
  BY <1>2, BoundsAssumption DEF Sockets, Players, NoSocket
<1>4. /\ opened' = [opened EXCEPT ![p] = s]
      /\ alive' = [alive EXCEPT ![p][s] = TRUE]
      /\ auth' = [auth EXCEPT ![p][s] = ColorOf(p)]
      /\ connected' = [connected EXCEPT ![p] = TRUE]
      /\ filed' = [filed EXCEPT ![p] = s]
      /\ UNCHANGED <<roomVars, told, heard>>
      /\ \/ session' = [session EXCEPT ![p][s] = "displacing"] /\ task' = task
         \/ Greet(p, s)
  BY DEF Open, Goto
<1>5. session[p][s] = "none" /\ ~alive[p][s]
  BY <1>3 DEF IInv, Unopened
<1> HIDE DEF s
<1>6. /\ opened' \in [Players -> 0..MaxSockets]
      /\ alive' \in [Players -> [Sockets -> BOOLEAN]]
      /\ auth' \in [Players -> [Sockets -> Colors]] /\ auth'[p][s] \in Colors
      /\ connected' \in [Players -> BOOLEAN]
      /\ filed' \in [Players -> Sockets \cup {NoSocket}]
  <2>1. s \in 0..MaxSockets /\ ColorOf(p) \in Colors
    BY <1>1, <1>3, SeatType DEF TypeOK, Sockets
  <2>2. /\ opened' \in [Players -> 0..MaxSockets] /\ connected' \in [Players -> BOOLEAN]
        /\ filed' \in [Players -> Sockets \cup {NoSocket}]
    BY <1>1, <1>3, <1>4, <2>1 DEF TypeOK
  <2>3. alive' \in [Players -> [Sockets -> BOOLEAN]]
    BY <1>1, <1>4 DEF TypeOK
  <2>4. auth' \in [Players -> [Sockets -> Colors]] /\ auth'[p][s] \in Colors
    BY <1>1, <1>3, <1>4, <2>1 DEF TypeOK
  <2>5. QED
    BY <2>2, <2>3, <2>4
<1>7. \A q \in Players, k \in Sockets :
          alive'[q][k] = IF q = p /\ k = s THEN TRUE ELSE alive[q][k]
  BY <1>1, <1>4 DEF TypeOK
<1>8. opened'[p] = s /\ filed'[p] = s
      /\ \A q \in Players : q # p => opened'[q] = opened[q] /\ filed'[q] = filed[q]
  BY <1>1, <1>4 DEF TypeOK
<1>9. NoneRevived
  <2>1. \A q \in Players : opened[q] <= opened'[q]
    BY <1>3, <1>8, OpenedNumbers
  <2>2. ASSUME NEW q \in Players, NEW k \in Sockets, k <= opened[q], ~alive[q][k]
        PROVE  ~alive'[q][k]
    <3>1. ~(q = p /\ k = s)
      BY <1>3, <2>2, OpenedNumbers
    <3>2. QED
      BY <1>7, <2>2, <3>1
  <2>3. QED
    BY <2>1, <2>2 DEF NoneRevived
<1>10. FiledNewest' /\ NewestIsFiled'
  <2>1. FiledNewest'
    BY <1>1, <1>8 DEF FiledNewest
  <2>2. ASSUME NEW q \in Players, q # p, opened[q] # 0
        PROVE  filed'[q] = opened'[q] \/ ~alive'[q][opened'[q]]
    <3>1. opened[q] \in Sockets
      BY <1>1, <2>2 DEF TypeOK, Sockets
    <3>2. alive'[q][opened[q]] = alive[q][opened[q]]
      BY <1>7, <2>2, <3>1
    <3>3. QED
      BY <1>8, <2>2, <3>2 DEF IInv, NewestIsFiled
  <2>3. QED
    BY <1>8, <2>1, <2>2 DEF NewestIsFiled
<1>11. ConnectedHasSocket'
  BY <1>1, <1>3, <1>4, <1>8 DEF IInv, ConnectedHasSocket, TypeOK
<1>12. \A q \in Players, k \in Sockets : k > opened'[q] => ~alive'[q][k] /\ session[q][k] = "none"
  <2> SUFFICES ASSUME NEW q \in Players, NEW k \in Sockets, k > opened'[q]
               PROVE  ~alive'[q][k] /\ session[q][k] = "none"
    OBVIOUS
  <2>1. k > opened[q] /\ ~(q = p /\ k = s)
    BY <1>3, <1>8, OpenedNumbers
  <2>2. alive'[q][k] = alive[q][k]
    BY <1>7, <2>1
  <2>3. QED
    BY <2>1, <2>2 DEF IInv, Unopened
<1>13. CASE session' = [session EXCEPT ![p][s] = "displacing"] /\ task' = task
  <2>1. session' \in [Players -> [Sockets -> Stages]]
    BY <1>1, <1>13 DEF TypeOK, Stages
  <2>2. TypeOK'
    BY <1>1, <1>4, <1>6, <1>13, <2>1 DEF TypeOK, roomVars
  <2>3. \A q \in Players, k \in Sockets :
            session'[q][k] = IF q = p /\ k = s THEN "displacing" ELSE session[q][k]
    BY <1>1, <1>13 DEF TypeOK
  <2>4. Unopened'
    BY <1>3, <1>8, <1>12, <2>3 DEF Unopened, Sockets
  <2>5. \A t \in Tasks : /\ task[t].failed \subseteq Colors
                         /\ \A c \in Colors : task[t].to[c] \subseteq Players \X Sockets
                         /\ task[t].by \subseteq Players \X Sockets
    BY <1>1 DEF TypeOK, Coroutines, Targets
  <2>6. CapturesHold'
    <3> SUFFICES ASSUME NEW t \in Tasks PROVE Captured(task[t])'
      BY DEF CapturesHold
    <3>1. Captured(task[t])
      BY DEF IInv, CapturesHold
    <3>2. \A c \in Colors : \A x \in task[t].to[c] : x \in Players \X Sockets /\ x[2] <= opened[x[1]]
      BY <2>5, <3>1 DEF Captured
    <3>3. \A c \in Colors : \A x \in task[t].to[c] : x[2] <= opened'[x[1]]
      BY <1>1, <1>6, <1>9, <3>2 DEF NoneRevived, TypeOK, Sockets
    <3>4. \A c \in task[t].failed : \A x \in task[t].to[c] : ~alive'[x[1]][x[2]]
      BY <1>9, <2>5, <3>1, <3>2 DEF Captured, NoneRevived
    <3>5. QED
      BY <1>13, <3>1, <3>3, <3>4 DEF Captured
  <2>7. BusyWithOne'
    <3> SUFFICES ASSUME NEW t \in Tasks, NEW x \in task[t].by
                 PROVE  session'[x[1]][x[2]] = "busy"
      BY <1>13 DEF IInv, BusyWithOne
    <3>1. x \in Players \X Sockets /\ session[x[1]][x[2]] = "busy"
      BY <2>5 DEF IInv, BusyWithOne
    <3>2. QED
      BY <1>5, <2>3, <3>1
  <2>8. PairHearsOfStart'
    BY <1>3, <2>3 DEF PairHearsOfStart
  <2>9. QED
    BY <1>10, <1>11, <2>2, <2>4, <2>6, <2>7, <2>8 DEF IInv
<1>14. CASE Greet(p, s)
  <2>1. game' \in Nat /\ white' \in Players /\ s <= opened'[p]
        /\ \A q \in Players : filed'[q] <= opened'[q]
    <3>1. game' = game /\ white' = white
      BY <1>4 DEF roomVars
    <3>2. QED
      <4>1. s \in Nat /\ \A q \in Players : filed[q] \in Nat /\ filed[q] <= opened[q]
        BY <1>3, OpenedNumbers
      <4>2. \A q \in Players : filed'[q] <= opened'[q]
        BY <1>8, <4>1
      <4>3. QED
        BY <1>1, <1>8, <3>1, <4>1, <4>2 DEF TypeOK
  <2>2. /\ MovesOn(p, s)
        /\ \/ over \/ announced \/ ~BothFiled'
           \/ \E t \in Tasks : task'[t].kind = "start" /\ ~Free(t)'
    BY <1>1, <1>3, <1>6, <1>14, <2>1, GreetMoves
  <2>3. /\ session' \in [Players -> [Sockets -> Stages]]
        /\ task' \in [Tasks -> Coroutines]
        /\ \A q \in Players, k \in Sockets : k > opened'[q] => session'[q][k] = "none"
        /\ CapturesHold' /\ BusyWithOne'
    BY <1>1, <1>3, <1>5, <1>6, <1>9, <2>1, <2>2, MovesOnKeeps DEF IInv
  <2>4. TypeOK'
    BY <1>1, <1>4, <1>6, <2>3 DEF TypeOK, roomVars
  <2>5. Unopened'
    BY <1>12, <2>3 DEF Unopened
  <2>6. PairHearsOfStart'
    BY <1>4, <2>2 DEF PairHearsOfStart, roomVars
  <2>7. QED
    BY <1>10, <1>11, <2>3, <2>4, <2>5, <2>6 DEF IInv
<1>15. QED
  BY <1>4, <1>13, <1>14

LEMMA StutterKeeps == ASSUME IInv, UNCHANGED vars PROVE IInv'
BY DEF IInv, vars, roomVars, slotVars, sockVars, TypeOK, Unopened, FiledNewest, CapturesHold,
       Captured, BusyWithOne, NewestIsFiled, ConnectedHasSocket, PairHearsOfStart, BothFiled, Free

LEMMA Inductive == IInv /\ [Next]_vars => IInv'
<1> SUFFICES ASSUME IInv, [Next]_vars PROVE IInv'
  OBVIOUS
<1>1. CASE End
  BY <1>1, EndKeeps
<1>2. CASE \E t \in Tasks : SentWhite(t) \/ SentBlack(t) \/ TellSent(t) \/ Note(t)
                          \/ StartSent(t) \/ CatchupSent(t)
  BY <1>2, SentWhiteKeeps, SentBlackKeeps, TellSentKeeps, NoteKeeps, StartSentKeeps,
     CatchupSentKeeps
<1>3. CASE \E t \in Tasks, p \in Players, s \in Sockets :
               Rematch(t, p, s) \/ \E decided \in BOOLEAN : Play(t, p, s, decided)
  BY <1>3, RematchKeeps, PlayKeeps
<1>4. CASE \E p \in Players :
             \/ Open(p)
             \/ \E s \in Sockets : \/ Displaced(p, s) \/ Knocked(p, s) \/ Offer(p, s)
                                  \/ Leave(p, s) \/ Break(p, s)
  BY <1>4, OpenKeeps, DisplacedKeeps, KnockedKeeps, OfferKeeps, LeaveKeeps, BreakKeeps
<1>5. CASE UNCHANGED vars
  BY <1>5, StutterKeeps
<1>6. QED
  BY <1>1, <1>2, <1>3, <1>4, <1>5 DEF Next

\* The inductive invariant holds of every behaviour, for any number of coroutines,
\* sockets and games.
THEOREM Invariant == Spec => []IInv
<1>1. QED
  BY InitIInv, Inductive, PTL DEF Spec

\* Every variable keeps its type: what a broadcast captures are sockets of the room.
THEOREM TypeCorrect == Spec => []TypeOK
<1>1. IInv => TypeOK
  BY DEF IInv
<1>2. QED
  BY <1>1, Invariant, PTL

\* ConnectionRegistry.remove and the broadcasts never unregister the socket that
\* replaced the one they failed on: the newest is filed while it works.
THEOREM NewestFiled == Spec => []NewestIsFiled
<1>1. IInv => NewestIsFiled
  BY DEF IInv
<1>2. QED
  BY <1>1, Invariant, PTL

\* mark_connected and mark_disconnected never leave a player connected without a
\* socket on file.
THEOREM ConnectedFiled == Spec => []ConnectedHasSocket
<1>1. IInv => ConnectedHasSocket
  BY DEF IInv
<1>2. QED
  BY <1>1, Invariant, PTL

\* A session that completes the pair announces the game, whatever the sessions, the
\* broadcasts and a rematch do in between.
THEOREM PairHears == Spec => []PairHearsOfStart
<1>1. IInv => PairHearsOfStart
  BY DEF IInv
<1>2. QED
  BY <1>1, Invariant, PTL
-----------------------------------------------------------------------------
(* What is told of the first game *)

\* A start frame on its way is of the game in the room, to whoever sits in its colour.
Framed(r) ==
    /\ r.kind = "start" /\ r.at \in Colors =>
         r.board = game /\ \A x \in r.to[r.at] : x[1] = Seat(r.at)
    /\ r.kind = "catchup" =>
         r.board = game /\ \A x \in r.to["white"] : r.color = ColorOf(x[1])

\* Until a rematch swaps the seats, whatever was written down of them stays true.
FirstGame ==
    /\ game >= 1
    /\ game = 1 =>
         /\ \A t \in Tasks : Framed(task[t])
         /\ \A p \in Players, s \in Sockets : s <= opened[p] => auth[p][s] = ColorOf(p)
         /\ \A p \in Players : told[p] => heard[p] = [game |-> game, color |-> ColorOf(p)]

LEMMA SeatColor ==
    ASSUME white \in Players
    PROVE  \A c \in Colors : ColorOf(Seat(c)) = c
BY PlayersAssumption DEF Seat, ColorOf, Other, Colors, Players

\* A step that leaves the seats, what is told of them and the frames on their way alone.
LEMMA QuietKeeps ==
    ASSUME FirstGame, UNCHANGED <<white, game, told, heard, opened, auth>>,
           \A u \in Tasks : task'[u] = task[u] \/ task'[u].kind \in {"move", "note"}
    PROVE  FirstGame'
<1>1. /\ \A c : Seat(c)' = Seat(c)
      /\ \A p : ColorOf(p)' = ColorOf(p)
  BY DEF Seat, ColorOf
<1>2. ASSUME NEW u \in Tasks, game = 1 PROVE Framed(task[u])'
  <2>1. CASE task'[u] = task[u]
    BY <1>1, <1>2, <2>1 DEF FirstGame, Framed
  <2>2. CASE task'[u].kind \in {"move", "note"}
    BY <2>2 DEF Framed
  <2> QED BY <2>1, <2>2
<1> QED BY <1>1, <1>2 DEF FirstGame

LEMMA TaskSet ==
    ASSUME TypeOK, NEW t \in Tasks, NEW r, task' = [task EXCEPT ![t] = r]
    PROVE  task'[t] = r /\ \A u \in Tasks : u = t \/ task'[u] = task[u]
BY DEF TypeOK

LEMMA IdleIs == Idle.kind = "note"
BY DEF Idle

LEMMA SendsQuietly ==
    ASSUME IInv, FirstGame, NEW t \in Tasks,
           SentWhite(t) \/ SentBlack(t) \/ TellSent(t) \/ Note(t)
    PROVE  FirstGame'
<1>1. TypeOK /\ task[t] \in Coroutines
  BY DEF IInv, TypeOK
<1>2. CASE SentWhite(t)
  <2> DEFINE failed == IF Reaches(task[t].to["white"]) THEN {} ELSE {"white"}
             r == [task[t] EXCEPT !.at = "black", !.failed = failed]
  <2>1. task' = [task EXCEPT ![t] = r] /\ task[t].kind \in {"move", "note"}
        /\ UNCHANGED <<roomVars, slotVars, sockVars>>
    BY <1>2 DEF SentWhite
  <2> HIDE DEF failed
  <2>2. r.kind = task[t].kind
    BY <1>1 DEF Coroutines
  <2> HIDE DEF r
  <2> QED BY <1>1, <2>1, <2>2, TaskSet, QuietKeeps DEF roomVars, slotVars, sockVars
<1>3. CASE SentBlack(t)
  <2> DEFINE lost == task[t].failed \cup
                       IF Reaches(task[t].to["black"]) THEN {} ELSE {"black"}
             r == [task[t] EXCEPT !.at = "tell", !.failed = lost]
  <2>1. /\ task' = [task EXCEPT ![t] = r] \/ task' = [task EXCEPT ![t] = Idle]
        /\ task[t].kind \in {"move", "note"}
        /\ UNCHANGED <<white, game, told, heard, opened, auth>>
    BY <1>3 DEF SentBlack, Finish
  <2> HIDE DEF lost
  <2>2. r.kind = task[t].kind
    BY <1>1 DEF Coroutines
  <2> HIDE DEF r
  <2>3. task'[t].kind \in {"move", "note"} /\ \A u \in Tasks : u = t \/ task'[u] = task[u]
    BY <1>1, <2>1, <2>2, TaskSet, IdleIs
  <2> QED BY <2>1, <2>3, QuietKeeps
<1>4. CASE TellSent(t)
  <2>1. task' = [task EXCEPT ![t] = Idle]
        /\ UNCHANGED <<white, game, told, heard, opened, auth>>
    BY <1>4 DEF TellSent, Finish, slotVars
  <2>2. task'[t].kind = "note" /\ \A u \in Tasks : u = t \/ task'[u] = task[u]
    BY <1>1, <2>1, TaskSet, IdleIs
  <2> QED BY <2>1, <2>2, QuietKeeps
<1>5. CASE Note(t)
  <2> DEFINE r == Sending("note", {}, game, FALSE, "white", [c \in Colors |-> Target(c)])
  <2>1. task' = [task EXCEPT ![t] = r] /\ UNCHANGED <<roomVars, slotVars, sockVars>>
    BY <1>5 DEF Note, Broadcast
  <2>2. r.kind = "note"
    BY DEF Sending
  <2> HIDE DEF r
  <2>3. task'[t].kind = "note" /\ \A u \in Tasks : u = t \/ task'[u] = task[u]
    BY <1>1, <2>1, <2>2, TaskSet
  <2> QED BY <2>1, <2>3, QuietKeeps DEF roomVars, slotVars, sockVars
<1> QED BY <1>2, <1>3, <1>4, <1>5

LEMMA PlaysQuietly ==
    ASSUME IInv, FirstGame, NEW t \in Tasks, NEW p \in Players, NEW s \in Sockets,
           NEW decided, Play(t, p, s, decided)
    PROVE  FirstGame'
<1> DEFINE r == Sending("move", {<<p, s>>}, game, decided, "white",
                        [c \in Colors |-> Target(c)])
<1>1. task' = [task EXCEPT ![t] = r]
      /\ UNCHANGED <<roomVars, slotVars, opened, alive, auth, filed>>
  BY DEF Play, Broadcast
<1>2. r.kind = "move"
  BY DEF Sending
<1> HIDE DEF r
<1>3. task'[t].kind = "move" /\ \A u \in Tasks : u = t \/ task'[u] = task[u]
  BY <1>1, <1>2, TaskSet DEF IInv
<1> QED BY <1>1, <1>3, QuietKeeps DEF roomVars, slotVars

\* A frame for the seats of the room that goes out is true of them.
LEMMA ToldTruly ==
    ASSUME TypeOK, FirstGame, game = 1, white' = white,
           NEW target \in Targets, NEW c \in Colors, Told(target, game, c),
           \A x \in target : c = ColorOf(x[1])
    PROVE  \A p \in Players : told'[p] => heard'[p] = [game |-> game, color |-> ColorOf(p)']
<1> DEFINE who == {x[1] : x \in {y \in target : alive[y[1]][y[2]]}}
<1>1. /\ told' = [p \in Players |-> told[p] \/ p \in who]
      /\ heard' = [p \in Players |-> IF p \in who THEN [game |-> game, color |-> c]
                                     ELSE heard[p]]
  BY DEF Told
<1>2. \A p \in who : c = ColorOf(p)
  OBVIOUS
<1>3. \A p : ColorOf(p)' = ColorOf(p)
  BY DEF ColorOf
<1> HIDE DEF who
<1>4. ASSUME NEW p \in Players, told'[p]
      PROVE  heard'[p] = [game |-> game, color |-> ColorOf(p)]
  <2>1. CASE p \in who
    BY <1>1, <1>2, <2>1
  <2>2. CASE p \notin who
    <3>1. told[p] /\ heard'[p] = heard[p]
      BY <1>1, <1>4, <2>2
    <3> QED BY <3>1 DEF FirstGame
  <2> QED BY <2>1, <2>2
<1> QED BY <1>3, <1>4

\* A step of the sessions or of a start frame, by what it writes of the seats.
LEMMA TellingKeeps ==
    ASSUME FirstGame, UNCHANGED <<white, game>>,
           game = 1 => \A u \in Tasks : task'[u] = task[u] \/ Framed(task[u])',
           game = 1 => \A p \in Players, s \in Sockets :
                         s <= opened'[p] => auth'[p][s] = ColorOf(p),
           game = 1 => \A p \in Players :
                         told'[p] => heard'[p] = [game |-> game, color |-> ColorOf(p)]
    PROVE  FirstGame'
<1>1. /\ \A c : Seat(c)' = Seat(c)
      /\ \A p : ColorOf(p)' = ColorOf(p)
  BY DEF Seat, ColorOf
<1>2. ASSUME NEW u \in Tasks, game = 1 PROVE Framed(task[u])'
  <2>1. CASE task'[u] = task[u]
    BY <1>1, <1>2, <2>1 DEF FirstGame, Framed
  <2> QED BY <1>2, <2>1
<1> QED BY <1>1, <1>2 DEF FirstGame

LEMMA StartSentTells ==
    ASSUME IInv, FirstGame, NEW t \in Tasks, StartSent(t) PROVE FirstGame'
<1>1. TypeOK /\ task[t] \in Coroutines
  BY DEF IInv, TypeOK
<1>2. /\ Told(task[t].to[task[t].at], task[t].board, task[t].at)
      /\ task[t].at \in Colors /\ task[t].kind = "start"
      /\ UNCHANGED <<white, game, opened, auth>>
  BY DEF StartSent
<1>3. ASSUME game = 1
      PROVE  \A p \in Players : told'[p] => heard'[p] = [game |-> game, color |-> ColorOf(p)]
  <2>1. task[t].board = game /\ \A x \in task[t].to[task[t].at] : x[1] = Seat(task[t].at)
    BY <1>2, <1>3 DEF FirstGame, Framed
  <2>2. \A x \in task[t].to[task[t].at] : task[t].at = ColorOf(x[1])
    BY <1>1, <1>2, <2>1, SeatColor DEF TypeOK
  <2>3. task[t].to[task[t].at] \in Targets
    BY <1>1, <1>2 DEF Coroutines
  <2>4. Told(task[t].to[task[t].at], game, task[t].at)
    BY <1>2, <2>1
  <2>5. \A p : ColorOf(p)' = ColorOf(p)
    BY <1>2 DEF ColorOf
  <2> QED BY <1>1, <1>2, <1>3, <2>2, <2>3, <2>4, <2>5, ToldTruly
<1>4. \A u \in Tasks : task'[u] = task[u] \/ Framed(task[u])'
  <2>1. CASE task[t].at = "white"
    <3> DEFINE target == Target("black")
               r == [task[t] EXCEPT !.at = "black", !.board = game, !.to["black"] = target]
    <3>1. task' = [task EXCEPT ![t] = r]
      BY <2>1 DEF StartSent
    <3>2. \A x \in target : x[1] = Seat("black")
      BY DEF Target
    <3> HIDE DEF target
    <3>3. /\ r.at = "black" /\ r.kind = "start" /\ r.board = game
          /\ r.to = [task[t].to EXCEPT !["black"] = target]
      BY <1>1, <1>2 DEF Coroutines
    <3>4. r.to["black"] = target
      BY <1>1, <3>3 DEF Coroutines, Colors
    <3> HIDE DEF r
    <3>5. task'[t] = r /\ \A u \in Tasks : u = t \/ task'[u] = task[u]
      BY <1>1, <3>1, TaskSet
    <3>6. Seat("black")' = Seat("black")
      BY <1>2 DEF Seat
    <3>7. Framed(task[t])'
      BY <1>2, <3>2, <3>3, <3>4, <3>5, <3>6 DEF Framed
    <3> QED BY <3>5, <3>7
  <2>2. CASE task[t].at # "white"
    <3>1. task' = [task EXCEPT ![t] = Idle]
      BY <2>2 DEF StartSent
    <3>2. task'[t] = Idle /\ \A u \in Tasks : u = t \/ task'[u] = task[u]
      BY <1>1, <3>1, TaskSet
    <3>3. Framed(task[t])'
      BY <3>2, IdleIs DEF Framed
    <3> QED BY <3>2, <3>3
  <2> QED BY <2>1, <2>2
<1>5. game = 1 => \A p \in Players, s \in Sockets : s <= opened'[p] => auth'[p][s] = ColorOf(p)
  BY <1>2 DEF FirstGame
<1> QED BY <1>2, <1>3, <1>4, <1>5, TellingKeeps

LEMMA CatchupSentTells ==
    ASSUME IInv, FirstGame, NEW t \in Tasks, CatchupSent(t) PROVE FirstGame'
<1>1. TypeOK /\ task[t] \in Coroutines
  BY DEF IInv, TypeOK
<1>2. /\ Told(task[t].to["white"], task[t].board, task[t].color)
      /\ task[t].kind = "catchup" /\ task' = [task EXCEPT ![t] = Idle]
      /\ UNCHANGED <<white, game, opened, auth>>
  BY DEF CatchupSent, roomVars
<1>3. ASSUME game = 1
      PROVE  \A p \in Players : told'[p] => heard'[p] = [game |-> game, color |-> ColorOf(p)]
  <2>1. task[t].board = game /\ \A x \in task[t].to["white"] : task[t].color = ColorOf(x[1])
    BY <1>2, <1>3 DEF FirstGame, Framed
  <2>2. task[t].to["white"] \in Targets /\ task[t].color \in Colors
    BY <1>1 DEF Coroutines, Colors
  <2>3. Told(task[t].to["white"], game, task[t].color)
    BY <1>2, <2>1
  <2>4. \A p : ColorOf(p)' = ColorOf(p)
    BY <1>2 DEF ColorOf
  <2> QED BY <1>1, <1>2, <1>3, <2>1, <2>2, <2>3, <2>4, ToldTruly
<1>4. \A u \in Tasks : task'[u] = task[u] \/ Framed(task[u])'
  <2>1. task'[t] = Idle /\ \A u \in Tasks : u = t \/ task'[u] = task[u]
    BY <1>1, <1>2, TaskSet
  <2>2. Framed(task[t])'
    BY <2>1, IdleIs DEF Framed
  <2> QED BY <2>1, <2>2
<1>5. game = 1 => \A p \in Players, s \in Sockets : s <= opened'[p] => auth'[p][s] = ColorOf(p)
  BY <1>2 DEF FirstGame
<1> QED BY <1>2, <1>3, <1>4, <1>5, TellingKeeps

LEMMA CatchUpFrames ==
    ASSUME TypeOK, NEW p \in Players, NEW s \in Sockets, UNCHANGED <<white, game>>,
           auth'[p][s] = ColorOf(p), CatchUp(p, s)
    PROVE  \A u \in Tasks : task'[u] = task[u] \/ Framed(task[u])'
<1>1. CASE announced /\ ~told[p]
  <2> DEFINE r == Sending("catchup", {<<p, s>>}, game, FALSE, auth'[p][s], First({<<p, s>>}))
  <2>1. PICK t \in Tasks : task' = [task EXCEPT ![t] = r]
    BY <1>1 DEF CatchUp
  <2>2. /\ r.kind = "catchup" /\ r.board = game /\ r.color = ColorOf(p)
        /\ r.to = First({<<p, s>>})
    BY DEF Sending
  <2>3. r.to["white"] = {<<p, s>>}
    BY <2>2 DEF First, Colors
  <2> HIDE DEF r
  <2>4. task'[t] = r /\ \A u \in Tasks : u = t \/ task'[u] = task[u]
    BY <2>1, TaskSet
  <2>5. ColorOf(p)' = ColorOf(p)
    BY DEF ColorOf
  <2>6. \A x \in task'[t].to["white"] : task'[t].color = ColorOf(x[1])'
    <3>1. task'[t] = r
      BY <2>4
    <3>2. SUFFICES ASSUME NEW x \in {<<p, s>>} PROVE r.color = ColorOf(x[1])'
      BY <2>3, <3>1
    <3>3. x[1] = p
      OBVIOUS
    <3>4. r.color = ColorOf(p)'
      BY <2>2, <2>5
    <3> QED BY <3>3, <3>4
  <2>7. Framed(task[t])'
    BY <2>2, <2>4, <2>6 DEF Framed
  <2> QED BY <2>4, <2>7
<1>2. CASE ~(announced /\ ~told[p])
  BY <1>2 DEF CatchUp
<1> QED BY <1>1, <1>2

LEMMA GreetFrames ==
    ASSUME TypeOK, NEW p \in Players, NEW s \in Sockets, UNCHANGED <<white, game>>,
           auth'[p][s] = ColorOf(p), Greet(p, s)
    PROVE  \A u \in Tasks : task'[u] = task[u] \/ Framed(task[u])'
<1>1. CASE task' = task
  BY <1>1
<1>2. CASE CatchUp(p, s)
  BY <1>2, CatchUpFrames
<1>3. CASE \E t \in Tasks : Announce(t, p, s)
  <2>1. PICK t \in Tasks : Announce(t, p, s)
    BY <1>3
  <2> DEFINE target == Target("white")'
             r == Sending("start", {<<p, s>>}, game', FALSE, "white", First(target))
  <2>2. task' = [task EXCEPT ![t] = r]
    BY <2>1 DEF Announce
  <2>3. \A x \in target : x[1] = Seat("white")'
    BY DEF Target
  <2> HIDE DEF target
  <2>4. r.kind = "start" /\ r.at = "white" /\ r.board = game' /\ r.to = First(target)
    BY DEF Sending
  <2>5. r.to["white"] = target
    BY <2>4 DEF First, Colors
  <2> HIDE DEF r
  <2>6. task'[t] = r /\ \A u \in Tasks : u = t \/ task'[u] = task[u]
    BY <2>2, TaskSet
  <2>7. Framed(task[t])'
    BY <2>3, <2>4, <2>5, <2>6 DEF Framed
  <2> QED BY <2>6, <2>7
<1> QED BY <1>1, <1>2, <1>3 DEF Greet

LEMMA SessionTells ==
    ASSUME IInv, FirstGame, NEW p \in Players, NEW s \in Sockets,
           Displaced(p, s) \/ Knocked(p, s)
    PROVE  FirstGame'
<1>1. TypeOK
  BY DEF IInv
<1>2. /\ session[p][s] \in {"displacing", "knocking"} /\ (Greet(p, s) \/ CatchUp(p, s))
      /\ UNCHANGED <<white, game, told, heard, opened, auth>>
  BY DEF Displaced, Knocked, roomVars, slotVars
<1>3. s <= opened[p]
  BY <1>2, OpenedNumbers
<1>4. game = 1 => auth'[p][s] = ColorOf(p)
  BY <1>2, <1>3 DEF FirstGame
<1>5. game = 1 => \A u \in Tasks : task'[u] = task[u] \/ Framed(task[u])'
  BY <1>1, <1>2, <1>4, GreetFrames, CatchUpFrames
<1>6. game = 1 =>
        /\ \A q \in Players, k \in Sockets : k <= opened'[q] => auth'[q][k] = ColorOf(q)
        /\ \A q \in Players : told'[q] => heard'[q] = [game |-> game, color |-> ColorOf(q)]
  BY <1>2 DEF FirstGame
<1> QED BY <1>2, <1>5, <1>6, TellingKeeps

LEMMA OpenTells ==
    ASSUME IInv, FirstGame, NEW p \in Players, Open(p) PROVE FirstGame'
<1> DEFINE s == opened[p] + 1
<1>1. TypeOK
  BY DEF IInv
<1>2. opened[A] \in Nat /\ opened[B] \in Nat /\ A \in Players /\ B \in Players
      /\ opened[A] + opened[B] < MaxSockets
  BY <1>1 DEF TypeOK, Open, Players
<1>3. s \in Sockets /\ opened[p] \in Nat
  BY <1>2, BoundsAssumption DEF Sockets, Players
<1>4. /\ opened' = [opened EXCEPT ![p] = s]
      /\ auth' = [auth EXCEPT ![p][s] = ColorOf(p)]
      /\ UNCHANGED <<white, game, told, heard>>
      /\ task' = task \/ Greet(p, s)
  BY DEF Open, roomVars
<1> HIDE DEF s
<1>5. auth'[p][s] = ColorOf(p)
  BY <1>1, <1>3, <1>4 DEF TypeOK
<1>6. \A u \in Tasks : task'[u] = task[u] \/ Framed(task[u])'
  BY <1>1, <1>3, <1>4, <1>5, GreetFrames
<1>7. ASSUME game = 1, NEW q \in Players, NEW k \in Sockets, k <= opened'[q]
      PROVE  auth'[q][k] = ColorOf(q)
  <2>1. CASE q = p /\ k = s
    BY <1>5, <2>1
  <2>2. CASE ~(q = p /\ k = s)
    <3>1. auth'[q][k] = auth[q][k]
      BY <1>1, <1>4, <2>2 DEF TypeOK
    <3>2. k <= opened[q]
      BY <1>1, <1>3, <1>4, <1>7, <2>2 DEF TypeOK, Sockets, s
    <3> QED BY <1>7, <3>1, <3>2 DEF FirstGame
  <2> QED BY <2>1, <2>2
<1>8. game = 1 => \A q \in Players :
                    told'[q] => heard'[q] = [game |-> game, color |-> ColorOf(q)]
  BY <1>4 DEF FirstGame
<1> QED BY <1>4, <1>6, <1>7, <1>8, TellingKeeps

LEMMA FirstGameStays == IInv /\ FirstGame /\ [Next]_vars => FirstGame'
<1> SUFFICES ASSUME IInv, FirstGame, [Next]_vars PROVE FirstGame'
  OBVIOUS
<1>1. ASSUME NEW t \in Tasks, \/ SentWhite(t) \/ SentBlack(t) \/ TellSent(t) \/ Note(t)
                              \/ StartSent(t) \/ CatchupSent(t)
      PROVE  FirstGame'
  BY <1>1, SendsQuietly, StartSentTells, CatchupSentTells
<1>2. ASSUME NEW t \in Tasks, NEW p \in Players, NEW s \in Sockets,
             Rematch(t, p, s) \/ \E decided \in BOOLEAN : Play(t, p, s, decided)
      PROVE  FirstGame'
  <2>1. CASE Rematch(t, p, s)
    <3>1. game' = game + 1 /\ game >= 1 /\ game \in Nat
      BY <2>1 DEF Rematch, FirstGame, IInv, TypeOK
    <3> QED BY <3>1 DEF FirstGame
  <2> QED BY <1>2, <2>1, PlaysQuietly
<1>3. CASE End
  BY <1>3, QuietKeeps DEF End, slotVars, sockVars
<1>4. ASSUME NEW p \in Players,
             \/ Open(p)
             \/ \E s \in Sockets : \/ Displaced(p, s) \/ Knocked(p, s) \/ Offer(p, s)
                                  \/ Leave(p, s) \/ Break(p, s)
      PROVE  FirstGame'
  <2>1. CASE Open(p)
    BY <2>1, OpenTells
  <2>2. ASSUME NEW s \in Sockets, Displaced(p, s) \/ Knocked(p, s) PROVE FirstGame'
    BY <2>2, SessionTells
  <2>3. ASSUME NEW s \in Sockets, Offer(p, s) \/ Leave(p, s) \/ Break(p, s) PROVE FirstGame'
    <3>1. UNCHANGED <<white, game, told, heard, opened, auth, task>>
      BY <2>3 DEF Offer, Leave, Break, roomVars, slotVars, sockVars
    <3> QED BY <3>1, QuietKeeps
  <2> QED BY <1>4, <2>1, <2>2, <2>3
<1>5. CASE UNCHANGED vars
  BY <1>5, QuietKeeps DEF vars, roomVars, slotVars, sockVars
<1> QED BY <1>1, <1>2, <1>3, <1>4, <1>5 DEF Next

\* broadcast_game_start and the catch-up mark a seat as told only once the start of its
\* game went out in the player's own colours, whatever sockets came and went.
THEOREM ToldHasHeard == Spec => []ToldIsHeard
<1>1. Init => FirstGame
  <2> SUFFICES ASSUME Init PROVE FirstGame
    OBVIOUS
  <2>1. game = 1 /\ \A p \in Players : ~told[p] /\ opened[p] = 0
    BY DEF Init
  <2>2. \A t \in Tasks : task[t].kind = "note"
    BY IdleIs DEF Init
  <2> QED BY <2>1, <2>2 DEF FirstGame, Framed, Sockets
<1>2. FirstGame => ToldIsHeard
  BY DEF FirstGame, ToldIsHeard
<1> QED BY <1>1, <1>2, FirstGameStays, Invariant, PTL DEF Spec
=============================================================================
