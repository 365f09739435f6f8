-------------------------- MODULE MatchmakingProofs --------------------------
(***************************************************************************)
(* Proofs about Matchmaking, for any number of players, requests and time  *)
(* controls and any cap: the index agrees with the rooms' seats, a room    *)
(* has the seats its table asks for, nobody waits past anybody, the cap    *)
(* holds, and a request that gives up a place finds another.               *)
(*                                                                         *)
(* Every change of the tables is a giving up of rooms, alone or followed   *)
(* by seating one player; the lemmas speak of the tables as values so that *)
(* the two halves can be taken one after the other.                        *)
(***************************************************************************)
EXTENDS Matchmaking, FiniteSetTheorems, TLAPS

Queues == [TimeControls -> SUBSET Rooms]
Games == [Rooms -> {"none"} \cup InPlay]
Seatings == [Rooms -> SUBSET Players]
Indexes == [Players -> Rooms \cup {NoRoom}]

QueuedIn(q, r) == \E c \in TimeControls : r \in q[c]
TabledIn(q, g) == {r \in Rooms : g[r] # "none" \/ QueuedIn(q, r)}

\* An index that agrees with the seats.
Agree(s, i) == \A p \in Players, r \in Rooms : i[p] = r <=> p \in s[r]

\* A room is in one queue at most and then alone, or in play, and is seated accordingly.
Shape(q, g, s) ==
    \A r \in Rooms :
        /\ \A c, d \in TimeControls : r \in q[c] /\ r \in q[d] => c = d
        /\ \A c \in TimeControls, x \in Rooms : r \in q[c] /\ x \in q[c] => x = r
        /\ QueuedIn(q, r) => g[r] = "none" /\ \E p \in Players : s[r] = {p}
        /\ g[r] # "none" => \E p, x \in Players : p # x /\ s[r] = {p, x}
        /\ g[r] = "none" /\ ~QueuedIn(q, r) => s[r] = {}

IInv == /\ TypeOK /\ IndexAgrees /\ Shape(queue, game, seats) /\ CapHolds

USE PlayersAssumption, CapAssumption, RoomsAssumption DEF NoRoom

-----------------------------------------------------------------------------
(* Giving up rooms *)

LEMMA TabledIs == ASSUME TypeOK PROVE Tabled = TabledIn(queue, game)
BY DEF TypeOK, Tabled, Active, Waiting, TabledIn, QueuedIn

LEMMA LessType ==
    ASSUME TypeOK, NEW gone \in SUBSET Rooms, NEW p \in Players
    PROVE  /\ QueueLess(gone) \in Queues /\ GameLess(gone) \in Games
           /\ SeatsLess(gone) \in Seatings /\ IndexLess(gone, p) \in Indexes
           /\ WaitedLess(gone) \in [Rooms -> Waits]
BY DEF TypeOK, QueueLess, GameLess, SeatsLess, IndexLess, WaitedLess, Waits,
       Queues, Games, Seatings, Indexes

\* Only the players seated in the rooms given up lose their index.
LEMMA LessAgrees ==
    ASSUME TypeOK, IndexAgrees, NEW gone \in SUBSET Rooms, NEW p \in Players
    PROVE  Agree(SeatsLess(gone), IndexLess(gone, p))
<1>1. \A x \in Players : x \in Vacated(gone, p) <=> index[x] \in gone
  BY DEF Vacated, IndexAgrees, TypeOK
<1>2. SUFFICES ASSUME NEW x \in Players, NEW r \in Rooms
               PROVE  IndexLess(gone, p)[x] = r <=> x \in SeatsLess(gone)[r]
  BY DEF Agree
<1>3. index[x] = r <=> x \in seats[r]
  BY DEF IndexAgrees
<1> QED BY <1>1, <1>3 DEF IndexLess, SeatsLess, TypeOK

LEMMA LessShape ==
    ASSUME TypeOK, Shape(queue, game, seats), NEW gone \in SUBSET Rooms
    PROVE  Shape(QueueLess(gone), GameLess(gone), SeatsLess(gone))
<1>1. \A r \in Rooms :
        QueuedIn(QueueLess(gone), r) <=> QueuedIn(queue, r) /\ r \notin gone
  BY DEF QueuedIn, QueueLess
<1> QED BY <1>1 DEF Shape, QueueLess, GameLess, SeatsLess

LEMMA LessTabled ==
    ASSUME TypeOK, NEW gone \in SUBSET Rooms
    PROVE  TabledIn(QueueLess(gone), GameLess(gone)) = Tabled \ gone
<1>1. \A r \in Rooms :
        QueuedIn(QueueLess(gone), r) <=> QueuedIn(queue, r) /\ r \notin gone
  BY DEF QueuedIn, QueueLess
<1> QED BY <1>1, TabledIs DEF TabledIn, GameLess

LEMMA Finite ==
    ASSUME NEW S \in SUBSET Rooms
    PROVE  IsFiniteSet(S) /\ Cardinality(S) \in Nat
BY FS_Subset, FS_CardinalityType

-----------------------------------------------------------------------------
(* Seating a player: what Pair and Wait write *)

Unqueued(q, c, r) == [q EXCEPT ![c] = @ \ {r}]
Queued(q, c, r) == [q EXCEPT ![c] = @ \cup {r}]
Opened(g, r) == [g EXCEPT ![r] = "opening"]
Joined(s, r, p) == [s EXCEPT ![r] = @ \cup {p}]
SatDown(s, r, p) == [s EXCEPT ![r] = {p}]
Indexed(i, p, r) == [i EXCEPT ![p] = r]

LEMMA PairTables ==
    ASSUME NEW q \in Queues, NEW g \in Games, NEW s \in Seatings, NEW i \in Indexes,
           Agree(s, i), Shape(q, g, s),
           NEW p \in Players, i[p] = NoRoom,
           NEW c \in TimeControls, NEW r \in q[c]
    PROVE  LET q1 == Unqueued(q, c, r)
               g1 == Opened(g, r)
               s1 == Joined(s, r, p)
               i1 == Indexed(i, p, r)
           IN  /\ q1 \in Queues /\ g1 \in Games /\ s1 \in Seatings /\ i1 \in Indexes
               /\ Agree(s1, i1) /\ Shape(q1, g1, s1)
               /\ TabledIn(q1, g1) = TabledIn(q, g)
<1> DEFINE q1 == Unqueued(q, c, r)
           g1 == Opened(g, r)
           s1 == Joined(s, r, p)
           i1 == Indexed(i, p, r)
<1> USE DEF Unqueued, Opened, Joined, Indexed
<1>1. r \in Rooms /\ QueuedIn(q, r)
  BY DEF Queues, QueuedIn
<1>2. q1 \in Queues /\ g1 \in Games /\ s1 \in Seatings /\ i1 \in Indexes
  BY <1>1 DEF Queues, Games, Seatings, Indexes, InPlay
<1>3. \A x \in Rooms : p \notin s[x]
  BY DEF Agree, Indexes
<1>4. Agree(s1, i1)
  BY <1>1, <1>3 DEF Agree, Seatings, Indexes
<1>5. \A x \in Rooms : QueuedIn(q1, x) <=> QueuedIn(q, x) /\ x # r
  <2>1. \A d \in TimeControls : r \in q[d] => d = c
    BY <1>1 DEF Shape
  <2> QED BY <2>1 DEF QueuedIn, Queues
<1>6. PICK o \in Players : s[r] = {o}
  BY <1>1 DEF Shape
<1>7. s1[r] = {o, p} /\ o # p
  BY <1>1, <1>3, <1>6 DEF Seatings
<1>8. Shape(q1, g1, s1)
  <2> SUFFICES ASSUME NEW x \in Rooms
               PROVE  /\ \A d, e \in TimeControls : x \in q1[d] /\ x \in q1[e] => d = e
                      /\ \A d \in TimeControls, y \in Rooms : x \in q1[d] /\ y \in q1[d] => y = x
                      /\ QueuedIn(q1, x) => g1[x] = "none" /\ \E y \in Players : s1[x] = {y}
                      /\ g1[x] # "none" => \E y, z \in Players : y # z /\ s1[x] = {y, z}
                      /\ g1[x] = "none" /\ ~QueuedIn(q1, x) => s1[x] = {}
    BY DEF Shape
  <2>1. \A d \in TimeControls : q1[d] \subseteq q[d]
    BY DEF Queues
  <2>2. /\ \A d, e \in TimeControls : x \in q1[d] /\ x \in q1[e] => d = e
        /\ \A d \in TimeControls, y \in Rooms : x \in q1[d] /\ y \in q1[d] => y = x
    BY <2>1 DEF Shape
  <2>3. CASE x = r
    BY <2>2, <2>3, <1>1, <1>5, <1>7 DEF Games
  <2>4. CASE x # r
    <3>1. g1[x] = g[x] /\ s1[x] = s[x] /\ (QueuedIn(q1, x) <=> QueuedIn(q, x))
      BY <2>4, <1>5 DEF Games, Seatings
    <3> QED BY <2>2, <3>1 DEF Shape
  <2> QED BY <2>3, <2>4
<1>9. TabledIn(q1, g1) = TabledIn(q, g)
  BY <1>1, <1>5 DEF TabledIn, Games
<1> QED BY <1>2, <1>4, <1>8, <1>9

LEMMA WaitTables ==
    ASSUME NEW q \in Queues, NEW g \in Games, NEW s \in Seatings, NEW i \in Indexes,
           Agree(s, i), Shape(q, g, s),
           NEW p \in Players, i[p] = NoRoom,
           NEW c \in TimeControls, q[c] = {},
           NEW r \in Rooms, r \notin TabledIn(q, g)
    PROVE  LET q1 == Queued(q, c, r)
               s1 == SatDown(s, r, p)
               i1 == Indexed(i, p, r)
           IN  /\ q1 \in Queues /\ s1 \in Seatings /\ i1 \in Indexes
               /\ Agree(s1, i1) /\ Shape(q1, g, s1)
               /\ TabledIn(q1, g) = TabledIn(q, g) \cup {r}
<1> DEFINE q1 == Queued(q, c, r)
           s1 == SatDown(s, r, p)
           i1 == Indexed(i, p, r)
<1> USE DEF Queued, SatDown, Indexed
<1>1. g[r] = "none" /\ ~QueuedIn(q, r) /\ s[r] = {}
  BY DEF TabledIn, Shape
<1>2. q1 \in Queues /\ s1 \in Seatings /\ i1 \in Indexes
  BY DEF Queues, Seatings, Indexes
<1>3. \A x \in Rooms : p \notin s[x]
  BY DEF Agree, Indexes
<1>4. Agree(s1, i1)
  BY <1>1, <1>3 DEF Agree, Seatings, Indexes
<1>5. \A x \in Rooms : QueuedIn(q1, x) <=> QueuedIn(q, x) \/ x = r
  BY DEF QueuedIn, Queues
<1>6. q1[c] = {r} /\ \A d \in TimeControls : d # c => q1[d] = q[d]
  BY DEF Queues
<1>7. Shape(q1, g, s1)
  <2> SUFFICES ASSUME NEW x \in Rooms
               PROVE  /\ \A d, e \in TimeControls : x \in q1[d] /\ x \in q1[e] => d = e
                      /\ \A d \in TimeControls, y \in Rooms : x \in q1[d] /\ y \in q1[d] => y = x
                      /\ QueuedIn(q1, x) => g[x] = "none" /\ \E y \in Players : s1[x] = {y}
                      /\ g[x] # "none" => \E y, z \in Players : y # z /\ s1[x] = {y, z}
                      /\ g[x] = "none" /\ ~QueuedIn(q1, x) => s1[x] = {}
    BY DEF Shape
  <2>1. CASE x = r
    <3>1. \A d \in TimeControls : r \in q1[d] => d = c
      BY <1>1, <1>6 DEF QueuedIn
    <3> QED BY <2>1, <3>1, <1>1, <1>5, <1>6 DEF Seatings
  <2>2. CASE x # r
    <3>1. s1[x] = s[x] /\ (QueuedIn(q1, x) <=> QueuedIn(q, x))
      BY <2>2, <1>5 DEF Seatings
    <3>2. \A d \in TimeControls : x \in q1[d] => d # c /\ x \in q[d]
      BY <2>2, <1>6
    <3> QED BY <3>1, <3>2, <1>6 DEF Shape
  <2> QED BY <2>1, <2>2
<1>8. TabledIn(q1, g) = TabledIn(q, g) \cup {r}
  BY <1>5 DEF TabledIn
<1> QED BY <1>2, <1>4, <1>7, <1>8

-----------------------------------------------------------------------------
(* Steps *)

LEMMA ForgetKeeps ==
    ASSUME IInv, NEW gone \in SUBSET Rooms, NEW p \in Players, Forget(gone, p),
           request' \in [Requests -> {Idle} \cup
               [at : {"farewell"}, who : Players, tc : TimeControls]]
    PROVE  IInv'
<1> USE DEF IInv
<1>1. TypeOK'
  BY LessType DEF TypeOK, Forget, Queues, Games, Seatings, Indexes
<1>2. IndexAgrees'
  BY LessAgrees DEF Forget, Agree, IndexAgrees
<1>3. Shape(queue, game, seats)'
  BY LessShape DEF Forget
<1>4. CapHolds'
  <2>1. Tabled' = Tabled \ gone
    <3>1. Tabled' = TabledIn(queue', game')
      BY <1>1 DEF TypeOK, Tabled, Active, Waiting, TabledIn, QueuedIn
    <3> QED BY <3>1, LessTabled DEF Forget
  <2>2. IsFiniteSet(Tabled)
    BY FS_Subset DEF Tabled, Active, Waiting, TypeOK
  <2>3. Cardinality(Tabled \ gone) <= Cardinality(Tabled)
        /\ Cardinality(Tabled \ gone) \in Nat /\ Cardinality(Tabled) \in Nat
    BY <2>2, FS_Subset, FS_CardinalityType
  <2> QED BY <2>1, <2>3 DEF CapHolds
<1> QED BY <1>1, <1>2, <1>3, <1>4

\* Release and enqueue: the player holds no place once `gone` is given up.
LEMMA EnqueueKeeps ==
    ASSUME IInv, NEW gone \in SUBSET Rooms, NEW p \in Players, NEW c \in TimeControls,
           Held(p) \subseteq gone \/ gone = {},
           Enqueue(p, c, gone),
           request' \in [Requests -> {Idle} \cup
               [at : {"farewell"}, who : Players, tc : TimeControls]]
    PROVE  IInv'
<1>1. CASE gone = {} /\ index[p] # NoRoom /\ UNCHANGED <<tables, game, here>>
  BY <1>1 DEF IInv, TypeOK, IndexAgrees, Shape, QueuedIn, CapHolds, Tabled, Active, Waiting,
              tables
<1>2. CASE (gone # {} \/ index[p] = NoRoom) /\ Full(gone) /\ Forget(gone, p)
  BY <1>2, ForgetKeeps
<1> DEFINE q == QueueLess(gone)
           g == GameLess(gone)
           s == SeatsLess(gone)
           i == IndexLess(gone, p)
<1>3. /\ q \in Queues /\ g \in Games /\ s \in Seatings /\ i \in Indexes
      /\ WaitedLess(gone) \in [Rooms -> Waits]
      /\ Agree(s, i) /\ Shape(q, g, s) /\ TabledIn(q, g) = Tabled \ gone
  BY LessType, LessAgrees, LessShape, LessTabled DEF IInv
<1>4. ASSUME gone # {} \/ index[p] = NoRoom
      PROVE  i[p] = NoRoom
  <2>1. CASE index[p] = NoRoom
    BY <2>1 DEF IndexLess
  <2>2. CASE index[p] # NoRoom
    <3>1. index[p] \in gone /\ p \in seats[index[p]]
      BY <1>4, <2>2 DEF Held, IInv, IndexAgrees, TypeOK
    <3> QED BY <3>1 DEF IndexLess, Vacated
  <2> QED BY <2>1, <2>2
<1>5. IsFiniteSet(Tabled \ gone) /\ Cardinality(Tabled \ gone) \in Nat
  BY Finite DEF Tabled, Active, Waiting, IInv, TypeOK
<1>6. ASSUME TypeOK' PROVE Tabled' = TabledIn(queue', game')
  BY <1>6 DEF TypeOK, Tabled, Active, Waiting, TabledIn, QueuedIn
<1>7. ASSUME gone # {} \/ index[p] = NoRoom, ~Full(gone),
             NEW r \in Joinable(c, gone), Pair(p, c, r, gone)
      PROVE  IInv'
  <2>1. r \in q[c] /\ r \in Rooms
    BY <1>7, <1>3 DEF Joinable, QueueLess, Queues
  <2>2. /\ queue' \in Queues /\ game' \in Games /\ seats' \in Seatings /\ index' \in Indexes
        /\ Agree(seats', index') /\ Shape(queue', game', seats')
        /\ TabledIn(queue', game') = Tabled \ gone
    <3>1. i[p] = NoRoom
      BY <1>4, <1>7
    <3> HIDE DEF q, g, s, i
    <3>2. LET q1 == Unqueued(q, c, r)
              g1 == Opened(g, r)
              s1 == Joined(s, r, p)
              i1 == Indexed(i, p, r)
          IN  /\ q1 \in Queues /\ g1 \in Games /\ s1 \in Seatings /\ i1 \in Indexes
              /\ Agree(s1, i1) /\ Shape(q1, g1, s1)
              /\ TabledIn(q1, g1) = TabledIn(q, g)
      BY <1>3, <2>1, <3>1, PairTables
    <3> USE DEF q, g, s, i
    <3> QED BY <1>7, <1>3, <3>2 DEF Pair, Unqueued, Opened, Joined, Indexed
  <2>3. TypeOK'
    BY <1>3, <1>7, <2>1, <2>2
       DEF TypeOK, IInv, Pair, Queues, Games, Seatings, Indexes, Waits
  <2>4. CapHolds'
    BY <1>5, <1>6, <1>7, <2>2, <2>3 DEF CapHolds, Full
  <2> QED BY <2>2, <2>3, <2>4 DEF IInv, IndexAgrees, Agree
<1>8. ASSUME gone # {} \/ index[p] = NoRoom, ~Full(gone), Joinable(c, gone) = {},
             NEW r \in Rooms \ Tabled, Wait(p, c, r, gone)
      PROVE  IInv'
  <2>1. q[c] = {} /\ r \notin TabledIn(q, g)
    BY <1>8, <1>3 DEF Joinable, QueueLess
  <2>2. /\ queue' \in Queues /\ seats' \in Seatings /\ index' \in Indexes
        /\ Agree(seats', index') /\ Shape(queue', game', seats')
        /\ TabledIn(queue', game') = (Tabled \ gone) \cup {r}
    <3>1. i[p] = NoRoom
      BY <1>4, <1>8
    <3> HIDE DEF q, g, s, i
    <3>2. LET q1 == Queued(q, c, r)
              s1 == SatDown(s, r, p)
              i1 == Indexed(i, p, r)
          IN  /\ q1 \in Queues /\ s1 \in Seatings /\ i1 \in Indexes
              /\ Agree(s1, i1) /\ Shape(q1, g, s1)
              /\ TabledIn(q1, g) = TabledIn(q, g) \cup {r}
      BY <1>3, <1>8, <2>1, <3>1, WaitTables
    <3> USE DEF q, g, s, i
    <3> QED BY <1>8, <1>3, <3>2 DEF Wait, Queued, SatDown, Indexed
  <2>3. TypeOK'
    BY <1>3, <1>8, <2>2 DEF TypeOK, IInv, Wait, Queues, Games, Seatings, Indexes
  <2>4. CapHolds'
    <3>1. Cardinality((Tabled \ gone) \cup {r}) = Cardinality(Tabled \ gone) + 1
      BY <1>5, <1>8, FS_AddElement
    <3>2. Cardinality(Tabled \ gone) + 1 <= MaxRooms
      BY <1>5, <1>8 DEF Full
    <3>3. Tabled' = (Tabled \ gone) \cup {r}
      BY <1>6, <2>2, <2>3
    <3> QED BY <3>1, <3>2, <3>3 DEF CapHolds
  <2> QED BY <2>2, <2>3, <2>4 DEF IInv, IndexAgrees, Agree
<1> QED BY <1>1, <1>2, <1>7, <1>8 DEF Enqueue

\* A step that leaves the index, the seats and the queues alone, and which rooms are in play.
LEMMA RoomKeeps ==
    ASSUME IInv, TypeOK', UNCHANGED <<queue, seats, index>>,
           \A r \in Rooms : game'[r] = "none" <=> game[r] = "none"
    PROVE  IInv'
<1>1. Shape(queue, game, seats)'
  BY DEF IInv, Shape, QueuedIn
<1>2. Tabled' = Tabled
  BY DEF Tabled, Active, Waiting
<1> QED BY <1>1, <1>2 DEF IInv, IndexAgrees, CapHolds

LEMMA HeldRooms ==
    ASSUME TypeOK, NEW p \in Players PROVE Held(p) \in SUBSET Rooms
BY DEF TypeOK, Held

LEMMA PostKeeps ==
    ASSUME IInv, NEW q \in Requests, NEW p \in Players, NEW c \in TimeControls,
           Post(q, p, c)
    PROVE  IInv'
<1> DEFINE gone == {r \in Held(p) : game[r] # "opening"}
<1>1. gone \in SUBSET Rooms /\ (Held(p) \subseteq gone \/ gone = {})
  BY HeldRooms DEF Held, IInv
<1>2. request' \in [Requests -> {Idle} \cup
          [at : {"farewell"}, who : Players, tc : TimeControls]]
  BY DEF Post, IInv, TypeOK
<1>3. CASE Farewells(p) = {} /\ Enqueue(p, c, gone)
  BY <1>1, <1>2, <1>3, EnqueueKeeps
<1>4. CASE /\ game' = [r \in Rooms |-> IF r \in Farewells(p) THEN "over" ELSE game[r]]
           /\ UNCHANGED <<tables, here>>
  <2>1. TypeOK'
    BY <1>2, <1>4 DEF IInv, TypeOK, tables, InPlay
  <2>2. \A r \in Rooms : game'[r] = "none" <=> game[r] = "none"
    BY <1>4 DEF Farewells, IInv, TypeOK
  <2> QED BY <2>1, <2>2, <1>4, RoomKeeps DEF tables
<1> QED BY <1>3, <1>4 DEF Post

LEMMA FarewellKeeps ==
    ASSUME IInv, NEW q \in Requests, Farewell(q) PROVE IInv'
<1>1. request[q].who \in Players /\ request[q].tc \in TimeControls
  BY DEF Farewell, IInv, TypeOK, Idle
<1>2. request' \in [Requests -> {Idle} \cup
          [at : {"farewell"}, who : Players, tc : TimeControls]]
  BY DEF Farewell, IInv, TypeOK
<1> QED BY <1>1, <1>2, HeldRooms, EnqueueKeeps DEF Farewell, IInv

LEMMA OtherKeeps ==
    ASSUME IInv,
           \/ \E p \in Players : Cancel(p) \/ Connect(p) \/ Disconnect(p)
           \/ \E r \in Rooms :
                FirstMove(r) \/ End(r) \/ Rematch(r) \/ Drop(r) \/ Age(r) \/ Reap(r)
           \/ UNCHANGED vars
    PROVE  IInv'
<1>1. ASSUME NEW p \in Players, Cancel(p) PROVE IInv'
  BY <1>1, HeldRooms, ForgetKeeps DEF Cancel, IInv, TypeOK
<1>2. ASSUME NEW p \in Players, Connect(p) \/ Disconnect(p) PROVE IInv'
  <2>1. TypeOK'
    BY <1>2 DEF IInv, TypeOK, Connect, Disconnect, tables
  <2> QED BY <2>1, <1>2, RoomKeeps DEF Connect, Disconnect, tables
<1>3. ASSUME NEW r \in Rooms, FirstMove(r) \/ End(r) \/ Rematch(r) PROVE IInv'
  <2>1. TypeOK'
    BY <1>3 DEF IInv, TypeOK, FirstMove, End, Rematch, Becomes, tables, InPlay
  <2>2. \A x \in Rooms : game'[x] = "none" <=> game[x] = "none"
    BY <1>3 DEF IInv, TypeOK, FirstMove, End, Rematch, Becomes
  <2>3. UNCHANGED <<queue, seats, index>>
    BY <1>3 DEF FirstMove, End, Rematch, Becomes, tables
  <2> QED BY <2>1, <2>2, <2>3, RoomKeeps
<1>4. ASSUME NEW r \in Rooms, Drop(r) \/ Reap(r) PROVE IInv'
  <2>1. PICK p \in seats[r] : Forget({r}, p)
    BY <1>4 DEF Drop, Reap
  <2>2. p \in Players /\ {r} \in SUBSET Rooms
    BY DEF IInv, TypeOK
  <2> QED BY <2>1, <2>2, <1>4, ForgetKeeps DEF Drop, Reap, IInv, TypeOK
<1>5. ASSUME NEW r \in Rooms, Age(r) PROVE IInv'
  <2>1. TypeOK'
    BY <1>5 DEF IInv, TypeOK, Age, Older, Waits
  <2> QED BY <2>1, <1>5, RoomKeeps DEF Age
<1>6. CASE UNCHANGED vars
  <2>1. TypeOK'
    BY <1>6 DEF IInv, TypeOK, vars, tables
  <2> QED BY <2>1, <1>6, RoomKeeps DEF vars, tables
<1> QED BY <1>1, <1>2, <1>3, <1>4, <1>5, <1>6

-----------------------------------------------------------------------------
(* Theorems *)

LEMMA InitIInv == Init => IInv
<1> SUFFICES ASSUME Init PROVE IInv
  OBVIOUS
<1>1. TypeOK
  BY DEF Init, TypeOK, Waits, InPlay
<1>2. IndexAgrees /\ Shape(queue, game, seats)
  BY DEF Init, IndexAgrees, Shape, QueuedIn
<1>3. Tabled = {}
  BY DEF Init, Tabled, Active, Waiting
<1>4. CapHolds
  BY <1>3, FS_EmptySet DEF CapHolds
<1> QED BY <1>1, <1>2, <1>4 DEF IInv

LEMMA Inductive == IInv /\ [Next]_vars => IInv'
BY PostKeeps, FarewellKeeps, OtherKeeps DEF Next

\* The inductive invariant holds of every behaviour, for any players and any cap.
THEOREM Invariant == Spec => []IInv
BY InitIInv, Inductive, PTL DEF Spec

\* Every variable keeps its type.
THEOREM TypeCorrect == Spec => []TypeOK
<1>1. IInv => TypeOK
  BY DEF IInv
<1> QED BY <1>1, Invariant, PTL

\* RoomManager: the index never points at a room its player does not sit in.
THEOREM IndexCorrect == Spec => []IndexAgrees
<1>1. IInv => IndexAgrees
  BY DEF IInv
<1> QED BY <1>1, Invariant, PTL

\* enqueue: a room in play seats two different players, a waiting one its one.
THEOREM SeatsCorrect == Spec => []SeatsFilled
<1>1. IInv => SeatsFilled
  <2> SUFFICES ASSUME IInv PROVE SeatsFilled
    OBVIOUS
  <2>1. \A r \in Rooms : r \in Waiting <=> QueuedIn(queue, r)
    BY DEF Waiting, QueuedIn
  <2>2. Active \cap Waiting = {}
    BY <2>1 DEF IInv, Shape, Active
  <2>3. ASSUME NEW r \in Rooms
        PROVE  Cardinality(seats[r]) = IF r \in Active THEN 2
                                       ELSE IF r \in Waiting THEN 1 ELSE 0
    <3>1. CASE r \in Active
      <4>1. PICK p, x \in Players : p # x /\ seats[r] = {p, x}
        BY <3>1 DEF IInv, Shape, Active
      <4>2. Cardinality({p}) = 1 /\ IsFiniteSet({p})
        BY FS_Singleton
      <4>3. Cardinality({p} \cup {x}) = Cardinality({p}) + 1
        BY <4>1, <4>2, FS_AddElement
      <4>4. seats[r] = {p} \cup {x}
        BY <4>1
      <4> QED BY <3>1, <4>2, <4>3, <4>4
    <3>2. CASE r \notin Active /\ r \in Waiting
      <4>1. PICK p \in Players : seats[r] = {p}
        BY <2>1, <3>2 DEF IInv, Shape
      <4> QED BY <3>2, <4>1, FS_Singleton
    <3>3. CASE r \notin Active /\ r \notin Waiting
      <4>1. seats[r] = {}
        BY <2>1, <3>3 DEF IInv, Shape, Active
      <4> QED BY <3>3, <4>1, FS_EmptySet
    <3> QED BY <3>1, <3>2, <3>3
  <2> QED BY <2>2, <2>3 DEF SeatsFilled
<1> QED BY <1>1, Invariant, PTL

\* enqueue: whoever asks for a time control somebody waits for is paired with them.
THEOREM NobodyPassed == Spec => []NobodyWaitsPast
<1>1. IInv => NobodyWaitsPast
  BY DEF IInv, TypeOK, Shape, NobodyWaitsPast
<1> QED BY <1>1, Invariant, PTL

\* enqueue: however requests cross, the cap on rooms holds.
THEOREM CapCorrect == Spec => []CapHolds
<1>1. IInv => CapHolds
  BY DEF IInv
<1> QED BY <1>1, Invariant, PTL

-----------------------------------------------------------------------------
(* A place for a place *)

\* A player who gives up a room, or keeps it, is seated: giving up makes room enough.
LEMMA EnqueueSeats ==
    ASSUME IInv, NEW p \in Players, NEW c \in TimeControls, NEW gone \in SUBSET Rooms,
           gone = Held(p) \/ gone = {}, index[p] # NoRoom, Enqueue(p, c, gone)
    PROVE  index'[p] # NoRoom
<1>1. CASE gone = {}
  BY <1>1 DEF Enqueue, tables
<1>2. CASE gone = Held(p) /\ gone # {}
  <2>1. index[p] \in Tabled /\ index[p] \in Rooms
    <3>1. index[p] \in Rooms /\ p \in seats[index[p]]
      BY DEF IInv, TypeOK, IndexAgrees
    <3>2. index[p] \in TabledIn(queue, game)
      BY <3>1 DEF IInv, Shape, TabledIn
    <3> QED BY <3>1, <3>2, TabledIs DEF IInv
  <2>2. IsFiniteSet(Tabled)
    BY FS_Subset DEF Tabled, Active, Waiting, IInv, TypeOK
  <2>3. gone = {index[p]}
    BY <1>2 DEF Held
  <2>4. Cardinality(Tabled \ gone) = Cardinality(Tabled) - 1
    BY <2>1, <2>2, <2>3, FS_RemoveElement
  <2>5. ~Full(gone)
    BY <2>2, <2>4, FS_CardinalityType DEF Full, CapHolds, IInv
  <2>6. PICK r \in Rooms : Pair(p, c, r, gone) \/ Wait(p, c, r, gone)
    BY <1>2, <2>5 DEF Enqueue, Joinable, IInv, TypeOK
  <2>7. IndexLess(gone, p) \in Indexes
    BY LessType DEF IInv
  <2> QED BY <2>6, <2>7 DEF Pair, Wait, Indexes
<1> QED BY <1>1, <1>2

\* post_matchmake: who gives up a place finds another, however many requests cross.
THEOREM PlaceKept == Spec => PlaceForPlace
<1>1. ASSUME IInv, NEW q \in Requests, NEW p \in Players, index[p] # NoRoom,
             \/ Farewell(q) /\ request[q].who = p
             \/ \E c \in TimeControls : Post(q, p, c)
      PROVE  index'[p] # NoRoom
  <2>1. CASE Farewell(q) /\ request[q].who = p
    <3>1. request[q].tc \in TimeControls
      BY <1>1, <2>1 DEF Farewell, IInv, TypeOK, Idle
    <3> QED BY <1>1, <2>1, <3>1, HeldRooms, EnqueueSeats DEF Farewell, IInv
  <2>2. ASSUME NEW c \in TimeControls, Post(q, p, c)
        PROVE  index'[p] # NoRoom
    <3> DEFINE gone == {r \in Held(p) : game[r] # "opening"}
    <3>1. gone \in SUBSET Rooms /\ (gone = Held(p) \/ gone = {})
      BY <1>1, HeldRooms DEF Held, IInv
    <3>2. CASE Enqueue(p, c, gone)
      BY <1>1, <3>1, <3>2, EnqueueSeats
    <3>3. CASE UNCHANGED tables
      BY <1>1, <3>3 DEF tables
    <3> QED BY <2>2, <3>2, <3>3 DEF Post
  <2> QED BY <1>1, <2>1, <2>2
<1>2. IInv => \A q \in Requests, p \in Players :
                 /\ index[p] # NoRoom
                 /\ \/ Farewell(q) /\ request[q].who = p
                    \/ \E c \in TimeControls : Post(q, p, c)
                 => index'[p] # NoRoom
  BY <1>1
<1> QED BY <1>2, Invariant, PTL DEF PlaceForPlace
=============================================================================
