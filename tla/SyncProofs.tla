----------------------------- MODULE SyncProofs -----------------------------
(***************************************************************************)
(* What holds of Sync for any marks, openings and bounds, in three         *)
(* invariants, each on top of the one before:                              *)
(*                                                                         *)
(*   Typed     what is on the boards and on both ways;                     *)
(*   Journal   the changes of the history that are still on their way are  *)
(*             the last ones made, and whatever crosses one of them is     *)
(*             within its grace: an order to rebuild is earned;            *)
(*   Faithful  while the socket holds, the frames held and on their way    *)
(*             are a course that ends at the server's history, and the     *)
(*             client's board, or the snapshot it will rebuild from,       *)
(*             stands somewhere on it: nothing is missed.                  *)
(*                                                                         *)
(* The replay of a resync and the look ahead of a heartbeat are folds.     *)
(* They are followed turn by turn: the views between two turns are a       *)
(* function on the naturals, and what holds of one holds of the next.      *)
(***************************************************************************)
EXTENDS Sync, SequenceTheorems, FiniteSetTheorems, WellFoundedInduction, TLAPS

USE SyncAssumption DEF SyncAssumption

-----------------------------------------------------------------------------
(* Sequences *)

LEMMA Fronted ==
    ASSUME NEW S, NEW s \in Seq(S)
    PROVE  /\ Front(s) \in Seq(S)
           /\ Len(Front(s)) = IF s = <<>> THEN 0 ELSE Len(s) - 1
           /\ \A i \in 1..Len(Front(s)) : Front(s)[i] = s[i]
<1>1. Len(s) \in Nat /\ \A i \in 1..Len(s) : s[i] \in S
  BY LenProperties, ElementOfSeq
<1>2. s = <<>> <=> Len(s) = 0
  BY EmptySeq
<1>3. Len(s) - 1 \in Int /\ \A i \in 1..(Len(s) - 1) : s[i] \in S
  BY <1>1
<1> DEFINE n == Len(s) - 1
<1> HIDE DEF n
<1>4. n \in Int /\ \A i \in 1..n : s[i] \in S
  BY <1>3 DEF n
<1>5. /\ SubSeq(s, 1, n) \in Seq(S)
      /\ Len(SubSeq(s, 1, n)) = IF 1 <= n THEN n - 1 + 1 ELSE 0
      /\ \A i \in 1..(n - 1 + 1) : SubSeq(s, 1, n)[i] = s[1 + i - 1]
  BY <1>4, SubSeqProperties
<1>6. Front(s) = SubSeq(s, 1, n)
  BY DEF Front, n
<1>7. Len(Front(s)) = IF s = <<>> THEN 0 ELSE n
  BY <1>1, <1>2, <1>5, <1>6 DEF n
<1>8. \A i \in 1..Len(Front(s)) : i \in 1..(n - 1 + 1) /\ 1 + i - 1 = i
  BY <1>1, <1>2, <1>7 DEF n
<1> QED BY <1>5, <1>6, <1>7, <1>8 DEF n

LEMMA Tailed ==
    ASSUME NEW S, NEW s \in Seq(S), s # <<>>
    PROVE  /\ Head(s) = s[1] /\ s[1] \in S
           /\ Tail(s) \in Seq(S) /\ Len(s) \in Nat \ {0} /\ Len(Tail(s)) = Len(s) - 1
           /\ \A i \in 1..(Len(s) - 1) : Tail(s)[i] = s[i + 1]
<1>1. Len(s) \in Nat \ {0}
  BY EmptySeq
<1>2. Head(s) = s[1]
  OBVIOUS
<1>3. s[1] \in S
  BY <1>1, ElementOfSeq
<1> QED BY <1>1, <1>2, <1>3, HeadTailProperties

LEMMA Removed ==
    ASSUME NEW S, NEW s \in Seq(S), NEW i \in 1..Len(s)
    PROVE  RemoveAt(s, i) \in Seq(S) /\ Len(RemoveAt(s, i)) = Len(s) - 1
<1>1. Len(s) \in Nat /\ \A k \in 1..Len(s) : s[k] \in S
  BY LenProperties, ElementOfSeq
<1> DEFINE l == SubSeq(s, 1, i - 1)
           r == SubSeq(s, i + 1, Len(s))
<1>2. l \in Seq(S) /\ Len(l) = i - 1
  <2>1. i - 1 \in Int /\ \A k \in 1..(i - 1) : s[k] \in S
    BY <1>1
  <2>2. l \in Seq(S) /\ Len(l) = IF 1 <= i - 1 THEN i - 1 - 1 + 1 ELSE 0
    BY <2>1, SubSeqProperties
  <2> QED BY <2>2
<1>3. r \in Seq(S) /\ Len(r) = Len(s) - i
  <2>1. i + 1 \in Int /\ Len(s) \in Int /\ \A k \in (i + 1)..Len(s) : s[k] \in S
    BY <1>1
  <2>2. r \in Seq(S) /\ Len(r) = IF i + 1 <= Len(s) THEN Len(s) - (i + 1) + 1 ELSE 0
    BY <2>1, SubSeqProperties
  <2> QED BY <1>1, <2>2
<1>4. l \o r \in Seq(S) /\ Len(l \o r) = Len(l) + Len(r)
  <2> HIDE DEF l, r
  <2> QED BY <1>2, <1>3, ConcatProperties
<1>5. RemoveAt(s, i) = l \o r
  BY DEF RemoveAt
<1> HIDE DEF l, r
<1>6. Len(l) + Len(r) = Len(s) - 1
  BY <1>1, <1>2, <1>3
<1> QED BY <1>4, <1>5, <1>6

LEMMA InSeq ==
    ASSUME NEW T, NEW s \in Seq(T), NEW S, \A i \in 1..Len(s) : s[i] \in S
    PROVE  s \in Seq(S)
<1>1. SubSeq(s, 1, Len(s)) \in Seq(S)
  BY LenProperties, SubSeqProperties
<1> QED BY <1>1, SubSeqFull

-----------------------------------------------------------------------------
(* Folds *)

LEMMA LeastNatural ==
    ASSUME NEW T \in SUBSET Nat, T # {}
    PROVE  \E n \in T : \A m \in T : ~(m < n)
<1>1. IsWellFoundedOn(OpToRel(<, Nat), Nat)
  BY NatLessThanWellFounded
<1>2. \E x \in T : \A y \in T : ~(<<y, x>> \in OpToRel(<, Nat))
  BY <1>1, WFMin
<1> QED BY <1>2 DEF OpToRel

LEMMA AllNaturals ==
    ASSUME NEW P \in SUBSET Nat, 0 \in P, \A n \in P : n + 1 \in P
    PROVE  P = Nat
<1> SUFFICES ASSUME Nat \ P # {} PROVE FALSE
  OBVIOUS
<1>1. PICK n \in Nat \ P : \A m \in Nat \ P : ~(m < n)
  BY LeastNatural
<1>2. n - 1 \in Nat /\ n - 1 < n
  BY <1>1
<1> QED BY <1>1, <1>2

LEMMA Largest ==
    ASSUME NEW t, NEW m \in t, t \subseteq Int, \A x \in t : x <= m
    PROVE  Max(t) = m
<1>1. \E x \in t : \A y \in t : x >= y
  OBVIOUS
<1>2. Max(t) \in t /\ \A y \in t : Max(t) >= y
  BY <1>1 DEF Max
<1>3. Max(t) \in Int /\ m \in Int /\ Max(t) <= m /\ Max(t) >= m
  BY <1>2
<1> HIDE DEF Max
<1> QED BY <1>3

Told(v, q) == FoldLeft(On, v, q)

\* The views of a client that takes in frame after frame.
ToldTurns(c, v, q) ==
    /\ c[0] = v
    /\ \A k \in 0..(Len(q) - 1) : c[k + 1] = On(c[k], q[k + 1])
    /\ Told(v, q) = c[Len(q)]

LEMMA ToldInTurn ==
    ASSUME NEW b, NEW E, NEW s \in Seq(E)
    PROVE  \E c : ToldTurns(c, b, s)
<1> DEFINE Iter(f, n) == f = [t \in SUBSET (1..n) |->
                                IF t = {} THEN b ELSE On(f[t \ {Max(t)}], s[Max(t)])]
<1>1. \A n \in Nat : \E f : Iter(f, n)
  <2> DEFINE P == {n \in Nat : \E f : Iter(f, n)}
  <2>1. 0 \in P
    <3> SUFFICES Iter([t \in SUBSET (1..0) |-> b], 0)
      OBVIOUS
    <3>1. \A t \in SUBSET (1..0) : t = {}
      OBVIOUS
    <3> QED BY <3>1
  <2>2. ASSUME NEW n \in P PROVE n + 1 \in P
    <3>1. PICK f : Iter(f, n)
      OBVIOUS
    <3> DEFINE g == [t \in SUBSET (1..(n + 1)) |->
                       IF n + 1 \in t THEN On(f[t \ {n + 1}], s[n + 1]) ELSE f[t]]
    <3>2. ASSUME NEW t \in SUBSET (1..(n + 1))
          PROVE  g[t] = IF t = {} THEN b ELSE On(g[t \ {Max(t)}], s[Max(t)])
      <4>1. CASE n + 1 \in t
        <5>1. Max(t) = n + 1
          <6>1. t \subseteq Int /\ \A x \in t : x <= n + 1
            OBVIOUS
          <6> QED BY <4>1, <6>1, Largest
        <5>2. g[t \ {n + 1}] = f[t \ {n + 1}]
          OBVIOUS
        <5> QED BY <4>1, <5>1, <5>2
      <4>2. CASE n + 1 \notin t
        <5>1. t \in SUBSET (1..n) /\ g[t] = f[t] 
          BY <4>2
        <5>2. t \ {Max(t)} \in SUBSET (1..(n + 1)) /\ n + 1 \notin t \ {Max(t)}
          BY <4>2
        <5>3. g[t \ {Max(t)}] = f[t \ {Max(t)}]
          BY <5>2
        <5> QED BY <3>1, <5>1, <5>3
      <4> QED BY <4>1, <4>2
    <3>3. Iter(g, n + 1)
      <4> HIDE <3>1
      <4>1. g = [t \in SUBSET (1..(n + 1)) |-> g[t]]
        OBVIOUS
      <4> HIDE DEF g
      <4> QED BY <4>1, <3>2
    <3> HIDE DEF g, Iter
    <3> QED BY <3>3
  <2> HIDE DEF P
  <2>3. P = Nat
    BY <2>1, <2>2, AllNaturals DEF P
  <2> QED BY <2>3 DEF P
<1> DEFINE n == Len(s)
           iter == CHOOSE f : Iter(f, n)
           c == [k \in 0..n |-> iter[1..k]]
<1>2. n \in Nat /\ DOMAIN s = 1..n
  BY LenProperties
<1>3. Told(b, s) = iter[1..n]
  BY <1>2 DEF Told, FoldLeft, MapThenFoldSet
<1>4. Iter(iter, n)
  <2>1. \E f : Iter(f, n)
    BY <1>1, <1>2
  <2> HIDE DEF Iter
  <2> QED BY <2>1, Zenon
<1>5. c[0] = b
  <2>1. 1..0 = {}
    OBVIOUS
  <2>2. c[0] = iter[1..0] /\ {} \in SUBSET (1..n)
    BY <1>2
  <2> HIDE DEF iter
  <2> QED BY <1>4, <2>1, <2>2
<1>6. ASSUME NEW k \in 0..(n - 1) PROVE c[k + 1] = On(c[k], s[k + 1])
  <2>1. Max(1..(k + 1)) = k + 1 /\ 1..(k + 1) # {}
    <3>1. k + 1 \in 1..(k + 1) /\ 1..(k + 1) \subseteq Int /\ \A x \in 1..(k + 1) : x <= k + 1
      BY <1>2
    <3> QED BY <3>1, Largest
  <2>2. (1..(k + 1)) \ {k + 1} = 1..k
    OBVIOUS
  <2>3. 1..(k + 1) \in SUBSET (1..n)
    BY <1>2
  <2>4. iter[1..(k + 1)] = On(iter[1..k], s[k + 1])
    <3> HIDE DEF iter
    <3> QED BY <1>4, <2>1, <2>2, <2>3
  <2> QED BY <1>2, <2>4
<1>7. Told(b, s) = c[n]
  BY <1>2, <1>3
<1>8. ToldTurns(c, b, s)
  <2> HIDE DEF c
  <2> QED BY <1>5, <1>6, <1>7 DEF ToldTurns
<1> QED BY <1>8

Replayed(v, q) == FoldLeft(Replay, v, q)

\* The views of a client that replays frame after frame.
ReplayTurns(c, v, q) ==
    /\ c[0] = v
    /\ \A k \in 0..(Len(q) - 1) : c[k + 1] = Replay(c[k], q[k + 1])
    /\ Replayed(v, q) = c[Len(q)]

LEMMA ReplayedInTurn ==
    ASSUME NEW b, NEW E, NEW s \in Seq(E)
    PROVE  \E c : ReplayTurns(c, b, s)
<1> DEFINE Iter(f, n) == f = [t \in SUBSET (1..n) |->
                                IF t = {} THEN b ELSE Replay(f[t \ {Max(t)}], s[Max(t)])]
<1>1. \A n \in Nat : \E f : Iter(f, n)
  <2> DEFINE P == {n \in Nat : \E f : Iter(f, n)}
  <2>1. 0 \in P
    <3> SUFFICES Iter([t \in SUBSET (1..0) |-> b], 0)
      OBVIOUS
    <3>1. \A t \in SUBSET (1..0) : t = {}
      OBVIOUS
    <3> QED BY <3>1
  <2>2. ASSUME NEW n \in P PROVE n + 1 \in P
    <3>1. PICK f : Iter(f, n)
      OBVIOUS
    <3> DEFINE g == [t \in SUBSET (1..(n + 1)) |->
                       IF n + 1 \in t THEN Replay(f[t \ {n + 1}], s[n + 1]) ELSE f[t]]
    <3>2. ASSUME NEW t \in SUBSET (1..(n + 1))
          PROVE  g[t] = IF t = {} THEN b ELSE Replay(g[t \ {Max(t)}], s[Max(t)])
      <4>1. CASE n + 1 \in t
        <5>1. Max(t) = n + 1
          <6>1. t \subseteq Int /\ \A x \in t : x <= n + 1
            OBVIOUS
          <6> QED BY <4>1, <6>1, Largest
        <5>2. g[t \ {n + 1}] = f[t \ {n + 1}]
          OBVIOUS
        <5> QED BY <4>1, <5>1, <5>2
      <4>2. CASE n + 1 \notin t
        <5>1. t \in SUBSET (1..n) /\ g[t] = f[t] 
          BY <4>2
        <5>2. t \ {Max(t)} \in SUBSET (1..(n + 1)) /\ n + 1 \notin t \ {Max(t)}
          BY <4>2
        <5>3. g[t \ {Max(t)}] = f[t \ {Max(t)}]
          BY <5>2
        <5> QED BY <3>1, <5>1, <5>3
      <4> QED BY <4>1, <4>2
    <3>3. Iter(g, n + 1)
      <4> HIDE <3>1
      <4>1. g = [t \in SUBSET (1..(n + 1)) |-> g[t]]
        OBVIOUS
      <4> HIDE DEF g
      <4> QED BY <4>1, <3>2
    <3> HIDE DEF g, Iter
    <3> QED BY <3>3
  <2> HIDE DEF P
  <2>3. P = Nat
    BY <2>1, <2>2, AllNaturals DEF P
  <2> QED BY <2>3 DEF P
<1> DEFINE n == Len(s)
           iter == CHOOSE f : Iter(f, n)
           c == [k \in 0..n |-> iter[1..k]]
<1>2. n \in Nat /\ DOMAIN s = 1..n
  BY LenProperties
<1>3. Replayed(b, s) = iter[1..n]
  BY <1>2 DEF Replayed, FoldLeft, MapThenFoldSet
<1>4. Iter(iter, n)
  <2>1. \E f : Iter(f, n)
    BY <1>1, <1>2
  <2> HIDE DEF Iter
  <2> QED BY <2>1, Zenon
<1>5. c[0] = b
  <2>1. 1..0 = {}
    OBVIOUS
  <2>2. c[0] = iter[1..0] /\ {} \in SUBSET (1..n)
    BY <1>2
  <2> HIDE DEF iter
  <2> QED BY <1>4, <2>1, <2>2
<1>6. ASSUME NEW k \in 0..(n - 1) PROVE c[k + 1] = Replay(c[k], s[k + 1])
  <2>1. Max(1..(k + 1)) = k + 1 /\ 1..(k + 1) # {}
    <3>1. k + 1 \in 1..(k + 1) /\ 1..(k + 1) \subseteq Int /\ \A x \in 1..(k + 1) : x <= k + 1
      BY <1>2
    <3> QED BY <3>1, Largest
  <2>2. (1..(k + 1)) \ {k + 1} = 1..k
    OBVIOUS
  <2>3. 1..(k + 1) \in SUBSET (1..n)
    BY <1>2
  <2>4. iter[1..(k + 1)] = Replay(iter[1..k], s[k + 1])
    <3> HIDE DEF iter
    <3> QED BY <1>4, <2>1, <2>2, <2>3
  <2> QED BY <1>2, <2>4
<1>7. Replayed(b, s) = c[n]
  BY <1>2, <1>3
<1>8. ReplayTurns(c, b, s)
  <2> HIDE DEF c
  <2> QED BY <1>5, <1>6, <1>7 DEF ReplayTurns
<1> QED BY <1>8

-----------------------------------------------------------------------------
(* The client's view *)

Views == [board : Seq(Marks), syncing : BOOLEAN, held : Seq(Held), banner : BOOLEAN]

\* Nothing is held but for a resync.
HoldsFor(v) == v.held # <<>> => v.syncing

LEMMA HeardIs ==
    ASSUME NEW f \in Heard
    PROVE  /\ f.kind \in {"move", "back", "order", "rejected", "asks", "pong"}
           /\ f.ply \in Nat
           /\ f.kind = "move" => f.mark \in Marks
           /\ IsChange(f) <=> f \in Held
BY DEF Heard, Held, Moves, Words, IsChange

LEMMA HeldIs ==
    ASSUME NEW f \in Held
    PROVE  f \in Heard /\ IsChange(f) /\ f.ply \in Nat /\ f.kind \in {"move", "back"}
           /\ (f.kind = "move" => f.mark \in Marks)
BY DEF Heard, Held, Moves, Words, IsChange

LEMMA Beginning ==
    ASSUME NEW v \in Views
    PROVE  /\ Begin(v) \in Views /\ Begin(v).syncing /\ Begin(v).board = v.board
           /\ Begin(v).held = v.held
BY DEF Begin, Views

LEMMA Holding ==
    ASSUME NEW v \in Views, v.syncing, NEW f \in Held
    PROVE  /\ Hold(v, f) \in Views /\ Hold(v, f).syncing
           /\ Hold(v, f).board = v.board /\ Hold(v, f).held = Append(v.held, f)
<1>1. Append(v.held, f) \in Seq(Held)
  BY AppendProperties DEF Views
<1> QED BY <1>1 DEF Hold, Views

\* A client that rebuilds holds the changes, and lets the rest pass.
LEMMA OnRebuilding ==
    ASSUME NEW v \in Views, v.syncing, NEW f \in Heard
    PROVE  /\ On(v, f) \in Views /\ On(v, f).syncing /\ On(v, f).board = v.board
           /\ On(v, f).held = IF IsChange(f) THEN Append(v.held, f) ELSE v.held
<1>1. CASE f.kind = "move"
  BY <1>1, HeardIs, Holding DEF On, OnMove, IsChange
<1>2. CASE f.kind = "back"
  BY <1>2, HeardIs, Holding DEF On, OnTakeback, IsChange
<1>3. CASE f.kind = "order"
  BY <1>3 DEF On, OnDirective, IsChange
<1>4. CASE f.kind = "rejected"
  BY <1>4, Beginning DEF On, IsChange
<1>5. CASE f.kind \in {"asks", "pong"}
  BY <1>5 DEF On, IsChange, Views
<1> QED BY <1>1, <1>2, <1>3, <1>4, <1>5, HeardIs

\* A client that does not rebuild takes a change in, knows it already, or begins to
\* rebuild; it holds nothing.
Taken(v, f, w) ==
    \/ w.syncing /\ w.board = v.board
    \/ f.kind = "move" /\ Echo(v.board, f) /\ w.board = v.board
    \/ f.kind = "move" /\ f.ply = Len(v.board) + 1 /\ w.board = Append(v.board, f.mark)
    \/ f.kind = "back" /\ f.ply = Len(v.board) - 1 /\ w.board = Front(v.board)
    \/ ~IsChange(f) /\ w.board = v.board

LEMMA OnFollowing ==
    ASSUME NEW v \in Views, ~v.syncing, NEW f \in Heard
    PROVE  /\ On(v, f) \in Views /\ On(v, f).held = v.held
           /\ Taken(v, f, On(v, f))
           /\ f.kind = "rejected" => On(v, f).syncing
<1>0. v.board \in Seq(Marks) /\ Front(v.board) \in Seq(Marks)
  BY Fronted DEF Views
<1>1. CASE f.kind = "move"
  <2>1. CASE Echo(v.board, f)
    BY <1>1, <2>1 DEF On, OnMove, Taken, Views
  <2>2. CASE ~Echo(v.board, f) /\ f.ply # Len(v.board) + 1
    BY <1>1, <2>2, Beginning DEF On, OnMove, Taken
  <2>3. CASE ~Echo(v.board, f) /\ f.ply = Len(v.board) + 1
    <3>1. On(v, f) = [v EXCEPT !.board = Append(@, f.mark), !.banner = FALSE]
      BY <1>1, <2>3 DEF On, OnMove
    <3>2. Append(v.board, f.mark) \in Seq(Marks)
      BY <1>0, <1>1, HeardIs, AppendProperties
    <3> QED BY <1>1, <2>3, <3>1, <3>2 DEF Taken, Views
  <2> QED BY <2>1, <2>2, <2>3
<1>2. CASE f.kind = "back"
  <2>1. CASE f.ply # Len(v.board) - 1
    BY <1>2, <2>1, Beginning DEF On, OnTakeback, Taken
  <2>2. CASE f.ply = Len(v.board) - 1
    BY <1>0, <1>2, <2>2 DEF On, OnTakeback, Taken, Views
  <2> QED BY <2>1, <2>2
<1>3. CASE f.kind = "order"
  BY <1>3, Beginning DEF On, OnDirective, Taken, IsChange
<1>4. CASE f.kind = "rejected"
  BY <1>4, Beginning DEF On, Taken
<1>5. CASE f.kind \in {"asks", "pong"}
  BY <1>5 DEF On, Taken, IsChange, Views
<1> QED BY <1>1, <1>2, <1>3, <1>4, <1>5, HeardIs

LEMMA OnTyped ==
    ASSUME NEW v \in Views, HoldsFor(v), NEW f \in Heard
    PROVE  On(v, f) \in Views /\ HoldsFor(On(v, f)) /\ (v.syncing => On(v, f).syncing)
<1>1. CASE v.syncing
  BY <1>1, OnRebuilding DEF HoldsFor
<1>2. CASE ~v.syncing
  BY <1>2, OnFollowing DEF HoldsFor
<1> QED BY <1>1, <1>2

LEMMA ReplayTyped ==
    ASSUME NEW v \in Views, HoldsFor(v), NEW f \in Held
    PROVE  Replay(v, f) \in Views /\ HoldsFor(Replay(v, f))
BY HeldIs, OnTyped DEF Replay

LEMMA ReplayedTyped ==
    ASSUME NEW v \in Views, HoldsFor(v), NEW q \in Seq(Held)
    PROVE  Replayed(v, q) \in Views /\ HoldsFor(Replayed(v, q))
<1>1. PICK c : ReplayTurns(c, v, q)
  BY ReplayedInTurn
<1>2. Len(q) \in Nat /\ \A k \in 1..Len(q) : q[k] \in Held
  BY LenProperties, ElementOfSeq
<1> DEFINE P == {k \in Nat : k <= Len(q) => c[k] \in Views /\ HoldsFor(c[k])}
<1>3. 0 \in P
  BY <1>1 DEF ReplayTurns
<1>4. ASSUME NEW k \in P PROVE k + 1 \in P
  <2> SUFFICES ASSUME k + 1 <= Len(q) PROVE c[k + 1] \in Views /\ HoldsFor(c[k + 1])
    OBVIOUS
  <2>1. k \in 0..(Len(q) - 1) /\ k + 1 \in 1..Len(q) /\ c[k] \in Views /\ HoldsFor(c[k])
    BY <1>2
  <2>2. c[k + 1] = Replay(c[k], q[k + 1]) /\ q[k + 1] \in Held
    BY <1>1, <1>2, <2>1 DEF ReplayTurns
  <2> QED BY <2>1, <2>2, ReplayTyped
<1> HIDE DEF P
<1>5. P = Nat
  BY <1>3, <1>4, AllNaturals DEF P
<1> QED BY <1>1, <1>2, <1>5 DEF P, ReplayTurns

\* The view a replay starts from.
Freed(v) == [v EXCEPT !.syncing = FALSE, !.held = <<>>]

LEMMA FreedIs ==
    ASSUME NEW v \in Views
    PROVE  /\ Freed(v) \in Views /\ ~Freed(v).syncing /\ Freed(v).held = <<>>
           /\ Freed(v).board = v.board /\ HoldsFor(Freed(v))
           /\ v.held \in Seq(Held) /\ EndResync(v) = Replayed(Freed(v), v.held)
<1>1. <<>> \in Seq(Held)
  BY EmptySeq
<1> QED BY <1>1 DEF Freed, Views, HoldsFor, EndResync, Replayed

LEMMA EndResyncTyped ==
    ASSUME NEW v \in Views
    PROVE  EndResync(v) \in Views /\ HoldsFor(EndResync(v))
BY FreedIs, ReplayedTyped

\* The view a snapshot is taken in with.
Rebased(v, snapshot) == [v EXCEPT !.board = snapshot]

LEMMA RebasedIs ==
    ASSUME NEW v \in Views, NEW snapshot \in Seq(Marks)
    PROVE  /\ Rebased(v, snapshot) \in Views /\ Rebased(v, snapshot).board = snapshot
           /\ Rebased(v, snapshot).held = v.held
           /\ Adopt(v, snapshot) = EndResync(Rebased(v, snapshot))
BY DEF Rebased, Views, Adopt

-----------------------------------------------------------------------------
(* Types *)

Fetches == [answered : BOOLEAN, snapshot : Seq(Marks)]
Beats == [kind : {"ping"}, ply : Nat, mark : {NoMark}, told : Int, behind : BOOLEAN]

ServerTyped ==
    /\ hist \in Seq(Marks)
    /\ asked \in {Nobody, "client", "opponent"}
    /\ made \in Nat /\ fresh \in Seq(Nat) /\ Len(fresh) <= made /\ Len(fresh) <= Window
    /\ strikes \in 0..Strikes /\ shut \in BOOLEAN

ViewTyped ==
    /\ view \in Views /\ HoldsFor(view)
    /\ fetches \in Seq(Fetches)
    /\ view.syncing => fetches # <<>>

WireTyped ==
    /\ link \in {"open", "closed", "resumed"} /\ resumed \in Seq(Marks) /\ drops \in 0..MaxDrops
    /\ outbox \in Seq(Sent) /\ up \in Seq(Sent \cup Beats) /\ down \in Seq(Heard)

\* TypeOK but for the count of changes a heartbeat carries.
Typed == ServerTyped /\ ViewTyped /\ WireTyped

LEMMA MoveFrame ==
    ASSUME NEW n \in Nat, NEW mark \in Marks
    PROVE  Frame("move", n, mark) \in Heard /\ Frame("move", n, mark) \in Sent
BY DEF Frame, Heard, Sent, Moves

LEMMA WordFrame ==
    ASSUME NEW n \in Nat
    PROVE  /\ \A kind \in {"back", "order", "rejected", "asks", "pong"} :
                Frame(kind, n, NoMark) \in Heard
           /\ \A kind \in {"request", "answer"} : Frame(kind, n, NoMark) \in Sent
BY DEF Frame, Heard, Sent, Words

LEMMA OneFrame == ASSUME NEW f \in Heard PROVE <<f>> \in Seq(Heard) /\ <<>> \in Seq(Heard)
OBVIOUS

LEMMA TellTyped ==
    ASSUME down \in Seq(Heard), NEW frames \in Seq(Heard), Tell(frames)
    PROVE  down' \in Seq(Heard)
<1>1. down \o frames \in Seq(Heard) /\ <<>> \in Seq(Heard)
  BY ConcatProperties, EmptySeq
<1> QED BY <1>1 DEF Tell

\* The server makes room for a change: it keeps the last it remembered, all of them or all but one.
LEMMA RememberedIs ==
    ASSUME ServerTyped
    PROVE  /\ Remembered \in Seq(Nat) /\ Len(Remembered) \in Nat /\ Len(Remembered) < Window
           /\ \/ Len(Remembered) = Len(fresh)
              \/ Len(Remembered) = Len(fresh) - 1 /\ Len(fresh) = Window
           /\ \A i \in 1..Len(Remembered) :
                Remembered[i] = fresh[Len(fresh) - Len(Remembered) + i]
<1>1. fresh \in Seq(Nat) /\ Len(fresh) \in Nat /\ Len(fresh) <= Window /\ Window \in Nat
  BY LenProperties, WindowAssumption DEF ServerTyped
<1>2. CASE Len(fresh) < Window
  <2>1. Remembered = fresh
    BY <1>2 DEF Remembered
  <2>2. \A i \in 1..Len(fresh) : Len(fresh) - Len(fresh) + i = i
    BY <1>1
  <2> QED BY <1>1, <1>2, <2>1, <2>2
<1>3. CASE ~(Len(fresh) < Window)
  <2>1. Remembered = Tail(fresh) /\ Len(fresh) = Window
    BY <1>1, <1>3 DEF Remembered
  <2>2. fresh # <<>>
    BY <2>1, EmptySeq, WindowAssumption
  <2>3. /\ Tail(fresh) \in Seq(Nat) /\ Len(Tail(fresh)) = Len(fresh) - 1
        /\ \A i \in 1..(Len(fresh) - 1) : Tail(fresh)[i] = fresh[i + 1]
    BY <1>1, <2>2, Tailed
  <2>4. \A i \in 1..(Len(fresh) - 1) : Len(fresh) - (Len(fresh) - 1) + i = i + 1
    BY <1>1
  <2> QED BY <1>1, <2>1, <2>3, <2>4
<1> QED BY <1>2, <1>3

LEMMA ChangedTyped ==
    ASSUME ServerTyped, NEW board \in Seq(Marks), NEW frame, Changed(board, frame)
    PROVE  /\ hist' = board /\ hist' \in Seq(Marks) /\ asked' = Nobody
           /\ made' = made + 1 /\ made' \in Nat
           /\ fresh' \in Seq(Nat) /\ Len(fresh') <= made' /\ Len(fresh') <= Window
           /\ Len(hist) \in Nat /\ Len(hist') \in Nat
<1>1. Len(hist) \in Nat /\ Len(board) \in Nat /\ Len(fresh) \in Nat
  BY LenProperties DEF ServerTyped
<1>2. Remembered \in Seq(Nat) /\ Len(Remembered) <= Len(fresh) /\ Len(Remembered) < Window
  BY <1>1, RememberedIs
<1>3. /\ Append(Remembered, Len(hist)) \in Seq(Nat)
      /\ Len(Append(Remembered, Len(hist))) = Len(Remembered) + 1
  BY <1>1, <1>2, AppendProperties
<1>4. Len(Remembered) \in Nat
  BY <1>2, LenProperties
<1>5. /\ fresh' \in Seq(Nat) /\ Len(fresh') <= made + 1 /\ Len(fresh') <= Window
  BY <1>1, <1>2, <1>3, <1>4, WindowAssumption DEF Changed, ServerTyped
<1> QED BY <1>1, <1>5 DEF Changed, ServerTyped

\* A ply lands, or one is taken back, and the news goes out.
LEMMA LandTyped ==
    ASSUME ServerTyped, WireTyped, NEW mark \in Marks, Land(mark), Tell(<<News("move", mark)>>)
    PROVE  /\ Append(hist, mark) \in Seq(Marks) /\ Changed(Append(hist, mark), "move")
           /\ News("move", mark) \in Heard /\ down' \in Seq(Heard)
<1>1. Append(hist, mark) \in Seq(Marks)
  BY AppendProperties DEF ServerTyped
<1>2. Changed(Append(hist, mark), "move")
  BY DEF Land
<1>3. News("move", mark) \in Heard
  BY <1>1, <1>2, ChangedTyped, MoveFrame DEF News
<1> QED BY <1>1, <1>2, <1>3, OneFrame, TellTyped DEF WireTyped

LEMMA UndoTyped ==
    ASSUME ServerTyped, WireTyped, Undo
    PROVE  /\ Front(hist) \in Seq(Marks) /\ Changed(Front(hist), "back")
           /\ News("back", NoMark) \in Heard /\ down' \in Seq(Heard)
<1>1. Front(hist) \in Seq(Marks)
  BY Fronted DEF ServerTyped
<1>2. Changed(Front(hist), "back") /\ Tell(<<News("back", NoMark)>>)
  BY DEF Undo
<1>3. News("back", NoMark) \in Heard
  BY <1>1, <1>2, ChangedTyped, WordFrame DEF News
<1> QED BY <1>1, <1>2, <1>3, OneFrame, TellTyped DEF WireTyped

LEMMA SendTyped ==
    ASSUME WireTyped, NEW f \in Sent, Send(f)
    PROVE  up' \in Seq(Sent \cup Beats) /\ outbox' \in Seq(Sent)
<1>1. Append(up, f) \in Seq(Sent \cup Beats) /\ Append(outbox, f) \in Seq(Sent)
  BY AppendProperties DEF WireTyped
<1> QED BY <1>1 DEF Send, WireTyped

LEMMA BecomeTyped ==
    ASSUME ViewTyped, NEW v \in Views, HoldsFor(v), NEW running \in Seq(Fetches),
           NEW begins, Become(v, running, begins), v.syncing => begins \/ running # <<>>
    PROVE  ViewTyped'
<1>1. NotYet \in Fetches
  BY EmptySeq DEF NotYet, Fetches
<1>2. Append(running, NotYet) \in Seq(Fetches) /\ Append(running, NotYet) # <<>>
  BY <1>1, AppendProperties
<1>3. view' = v /\ fetches' \in Seq(Fetches)
  BY <1>2 DEF Become
<1>4. v.syncing => fetches' # <<>>
  BY <1>2 DEF Become
<1> QED BY <1>3, <1>4 DEF ViewTyped

LEMMA OpponentTyped ==
    ASSUME Typed,
           (\E mark \in Marks : OpponentMoves(mark)) \/ OpponentAsks \/ OpponentAccepts
    PROVE  Typed'
<1>1. CASE \E mark \in Marks : OpponentMoves(mark)
  <2>1. PICK mark \in Marks : OpponentMoves(mark)
    BY <1>1
  <2>2. /\ Land(mark) /\ Tell(<<News("move", mark)>>)
        /\ UNCHANGED <<strikes, shut, clientVars, linkVars, up>>
    BY <2>1 DEF OpponentMoves
  <2>3. Changed(Append(hist, mark), "move") /\ Append(hist, mark) \in Seq(Marks)
        /\ down' \in Seq(Heard)
    BY <2>2, LandTyped DEF Typed
  <2>4. ServerTyped'
    BY <2>2, <2>3, ChangedTyped DEF Typed, ServerTyped
  <2> QED BY <2>2, <2>3, <2>4 DEF Typed, ViewTyped, WireTyped, clientVars, linkVars
<1>2. CASE OpponentAsks
  <2>1. /\ asked' = "opponent" /\ Tell(<<Frame("asks", 0, NoMark)>>)
        /\ UNCHANGED <<hist, made, fresh, strikes, shut, clientVars, linkVars, up>>
    BY <1>2 DEF OpponentAsks
  <2>2. down' \in Seq(Heard)
    BY <2>1, WordFrame, OneFrame, TellTyped DEF Typed, WireTyped
  <2> QED BY <2>1, <2>2 DEF Typed, ServerTyped, ViewTyped, WireTyped, clientVars, linkVars
<1>3. CASE OpponentAccepts
  <2>1. Undo /\ UNCHANGED <<strikes, shut, clientVars, linkVars, up>>
    BY <1>3 DEF OpponentAccepts
  <2>2. Changed(Front(hist), "back") /\ Front(hist) \in Seq(Marks) /\ down' \in Seq(Heard)
    BY <2>1, UndoTyped DEF Typed
  <2>3. ServerTyped'
    BY <2>1, <2>2, ChangedTyped DEF Typed, ServerTyped
  <2> QED BY <2>1, <2>2, <2>3 DEF Typed, ViewTyped, WireTyped, clientVars, linkVars
<1> QED BY <1>1, <1>2, <1>3

\* The frames that answer a heartbeat, and whether there is an order among them.
Answers == <<Frame("pong", 0, NoMark)>>
Directive == <<Frame("order", Len(hist), NoMark)>>
Directs(f) ==
    /\ f.ply # Len(hist) /\ ~InTransit(f.ply)
    /\ (IF strikes < Strikes THEN strikes + 1 ELSE strikes) = Strikes
    /\ ~shut

LEMMA PingTakes ==
    ASSUME NEW f, TakePing(f), ServerTyped
    PROVE  /\ strikes' \in 0..Strikes
           /\ IF Directs(f) THEN shut' = TRUE /\ Tell(Answers \o Directive)
                            ELSE shut' = shut /\ Tell(Answers \o <<>>)
           /\ UNCHANGED <<hist, asked, made, fresh>>
<1> DEFINE caughtUp == f.ply = Len(hist) \/ InTransit(f.ply)
           streak == IF strikes < Strikes THEN strikes + 1 ELSE strikes
           directs == ~caughtUp /\ streak = Strikes /\ ~shut
<1>1. /\ strikes' = IF caughtUp \/ directs THEN 0 ELSE streak
      /\ shut' = (shut \/ directs)
      /\ Tell(Answers \o IF directs THEN Directive ELSE <<>>)
      /\ UNCHANGED <<hist, asked, made, fresh>>
  BY DEF TakePing, Answers, Directive
<1>2. directs <=> Directs(f)
  BY DEF Directs
<1>3. strikes \in 0..Strikes /\ shut \in BOOLEAN
  BY DEF ServerTyped
<1>4. streak \in 0..Strikes /\ 0 \in 0..Strikes
  BY <1>3 DEF Strikes
<1> HIDE DEF directs, caughtUp, streak
<1>5. strikes' \in 0..Strikes
  BY <1>1, <1>4
<1>6. CASE Directs(f)
  <2>1. Tell(Answers \o Directive)
    BY <1>1, <1>2, <1>6, Zenon
  <2> QED BY <1>1, <1>2, <1>5, <1>6, <2>1
<1>7. CASE ~Directs(f)
  <2>1. Tell(Answers \o <<>>)
    BY <1>1, <1>2, <1>7, Zenon
  <2>2. shut' = shut
    BY <1>1, <1>2, <1>3, <1>7
  <2> QED BY <1>1, <1>5, <1>7, <2>1, <2>2
<1> QED BY <1>6, <1>7

LEMMA AnswersTyped ==
    ASSUME ServerTyped
    PROVE  /\ Answers \in Seq(Heard) /\ Directive \in Seq(Heard) /\ <<>> \in Seq(Heard)
           /\ Answers \o Directive \in Seq(Heard) /\ Answers \o <<>> \in Seq(Heard)
<1>1. Len(hist) \in Nat
  BY LenProperties DEF ServerTyped
<1>2. /\ Answers \in Seq(Heard) /\ Directive \in Seq(Heard) /\ <<>> \in Seq(Heard)
  BY <1>1, WordFrame, OneFrame DEF Answers, Directive
<1> QED BY <1>2, ConcatProperties

LEMMA ReceiveTyped ==
    ASSUME Typed, Receive PROVE Typed'
<1> DEFINE f == Head(up)
<1>1. /\ up # <<>> /\ up' = Tail(up) /\ UNCHANGED <<clientVars, linkVars>>
      /\ \/ f.kind = "move" /\ TakeMove(f)
         \/ f.kind = "request" /\ TakeRequest
         \/ f.kind = "answer" /\ TakeAnswer
         \/ f.kind = "ping" /\ TakePing(f)
  BY DEF Receive
<1>2. up' \in Seq(Sent \cup Beats) /\ f \in Sent \cup Beats
  BY <1>1, Tailed DEF Typed, WireTyped
<1> HIDE DEF f
<1>3. f.kind = "move" => f.mark \in Marks
  BY <1>2 DEF Sent, Beats, Moves, Words
<1>4. ServerTyped' /\ down' \in Seq(Heard)
  <2>1. CASE f.kind = "move" /\ TakeMove(f)
    <3>1. CASE MyTurn(hist)
      <4>1. Land(f.mark) /\ strikes' = 0 /\ Tell(<<News("move", f.mark)>>) /\ UNCHANGED shut
        BY <2>1, <3>1 DEF TakeMove
      <4>2. Changed(Append(hist, f.mark), "move") /\ Append(hist, f.mark) \in Seq(Marks)
            /\ down' \in Seq(Heard)
        BY <1>3, <2>1, <4>1, LandTyped DEF Typed
      <4>3. ServerTyped
        BY DEF Typed
      <4>4. /\ hist' \in Seq(Marks) /\ asked' = Nobody /\ made' \in Nat
            /\ fresh' \in Seq(Nat) /\ Len(fresh') <= made' /\ Len(fresh') <= Window
        BY <4>2, <4>3, ChangedTyped
      <4> QED BY <4>1, <4>2, <4>3, <4>4 DEF ServerTyped, Strikes
    <3>2. CASE ~MyTurn(hist)
      <4>1. Tell(<<Frame("rejected", 0, NoMark)>>) /\ UNCHANGED serverVars
        BY <2>1, <3>2 DEF TakeMove
      <4>2. down' \in Seq(Heard)
        BY <4>1, WordFrame, OneFrame, TellTyped DEF Typed, WireTyped
      <4> QED BY <4>1, <4>2 DEF Typed, ServerTyped, serverVars
    <3> QED BY <3>1, <3>2
  <2>2. CASE TakeRequest
    <3>1. /\ asked' \in {asked, "client"} /\ Tell(<<>>)
          /\ UNCHANGED <<hist, made, fresh, strikes, shut>>
      BY <2>2 DEF TakeRequest
    <3>2. down' \in Seq(Heard)
      BY <3>1, EmptySeq, TellTyped DEF Typed, WireTyped
    <3> QED BY <3>1, <3>2 DEF Typed, ServerTyped
  <2>3. CASE TakeAnswer
    <3>1. CASE Undo /\ UNCHANGED <<strikes, shut>>
      <4>1. Changed(Front(hist), "back") /\ Front(hist) \in Seq(Marks) /\ down' \in Seq(Heard)
        BY <3>1, UndoTyped DEF Typed
      <4> QED BY <3>1, <4>1, ChangedTyped DEF Typed, ServerTyped
    <3>2. CASE Tell(<<>>) /\ UNCHANGED serverVars
      <4>1. down' \in Seq(Heard)
        BY <3>2, EmptySeq, TellTyped DEF Typed, WireTyped
      <4> QED BY <3>2, <4>1 DEF Typed, ServerTyped, serverVars
    <3> QED BY <2>3, <3>1, <3>2 DEF TakeAnswer
  <2>4. CASE TakePing(f)
    <3>1. ServerTyped
      BY DEF Typed
    <3>2. down' \in Seq(Heard)
      <4>1. PICK q \in {Answers \o Directive, Answers \o <<>>} : Tell(q)
        BY <2>4, <3>1, PingTakes
      <4> QED BY <3>1, <4>1, AnswersTyped, TellTyped DEF Typed, WireTyped
    <3>3. strikes' \in 0..Strikes /\ shut' \in BOOLEAN /\ UNCHANGED <<hist, asked, made, fresh>>
      BY <2>4, <3>1, PingTakes DEF ServerTyped
    <3> QED BY <3>1, <3>2, <3>3 DEF ServerTyped
  <2> QED BY <1>1, <2>1, <2>2, <2>3, <2>4
<1> QED BY <1>1, <1>2, <1>4 DEF Typed, ViewTyped, WireTyped, clientVars, linkVars

LEMMA GateTyped ==
    ASSUME Typed, GateOpens \/ GraceEnds
    PROVE  Typed'
<1>1. CASE GateOpens
  BY <1>1 DEF GateOpens, Typed, ServerTyped, ViewTyped, WireTyped, clientVars, linkVars
<1>2. CASE GraceEnds
  <2>1. /\ fresh # <<>> /\ fresh' = Tail(fresh)
        /\ UNCHANGED <<hist, asked, made, strikes, shut, clientVars, linkVars, up, down>>
    BY <1>2 DEF GraceEnds
  <2>2. fresh' \in Seq(Nat) /\ Len(fresh') = Len(fresh) - 1 /\ Len(fresh) \in Nat
    BY <2>1, Tailed DEF Typed, ServerTyped
  <2>3. ServerTyped'
    <3>1. made \in Nat /\ Len(fresh) <= made /\ Len(fresh) <= Window
      BY DEF Typed, ServerTyped
    <3>2. Len(fresh') <= made /\ Len(fresh') <= Window
      BY <2>2, <3>1, WindowAssumption
    <3> QED BY <2>1, <2>2, <3>2 DEF Typed, ServerTyped
  <2> QED BY <2>1, <2>3 DEF Typed, ViewTyped, WireTyped, clientVars, linkVars
<1> QED BY <1>1, <1>2

LEMMA PlayerTyped ==
    ASSUME Typed, (\E mark \in Marks : MyMove(mark)) \/ MyRequest \/ MyAnswer
    PROVE  Typed'
<1>1. CASE \E mark \in Marks : MyMove(mark)
  <2>1. PICK mark \in Marks : MyMove(mark)
    BY <1>1
  <2>2. /\ view' = [view EXCEPT !.board = Append(@, mark), !.banner = FALSE]
        /\ Send(Frame("move", 0, mark)) /\ UNCHANGED <<serverVars, fetches, linkVars, down>>
    BY <2>1 DEF MyMove
  <2>3. up' \in Seq(Sent \cup Beats) /\ outbox' \in Seq(Sent)
    BY <2>2, MoveFrame, SendTyped DEF Typed
  <2>4. view \in Views /\ Append(view.board, mark) \in Seq(Marks)
    BY AppendProperties DEF Typed, ViewTyped, Views
  <2>5. view' \in Views /\ view'.held = view.held /\ view'.syncing = view.syncing
    BY <2>2, <2>4 DEF Views
  <2> QED BY <2>2, <2>3, <2>5
          DEF Typed, ServerTyped, ViewTyped, WireTyped, HoldsFor, serverVars, linkVars
<1>2. CASE MyRequest
  <2>1. Send(Frame("request", 0, NoMark)) /\ UNCHANGED <<serverVars, view, fetches, linkVars, down>>
    BY <1>2 DEF MyRequest
  <2>2. up' \in Seq(Sent \cup Beats) /\ outbox' \in Seq(Sent)
    BY <2>1, WordFrame, SendTyped DEF Typed
  <2> QED BY <2>1, <2>2 DEF Typed, ServerTyped, ViewTyped, WireTyped, serverVars, linkVars
<1>3. CASE MyAnswer
  <2>1. /\ view' = [view EXCEPT !.banner = FALSE] /\ Send(Frame("answer", 0, NoMark))
        /\ UNCHANGED <<serverVars, fetches, linkVars, down>>
    BY <1>3 DEF MyAnswer
  <2>2. up' \in Seq(Sent \cup Beats) /\ outbox' \in Seq(Sent)
    BY <2>1, WordFrame, SendTyped DEF Typed
  <2>3. view' \in Views /\ view'.held = view.held /\ view'.syncing = view.syncing
    BY <2>1 DEF Typed, ViewTyped, Views
  <2> QED BY <2>1, <2>2, <2>3
          DEF Typed, ServerTyped, ViewTyped, WireTyped, HoldsFor, serverVars, linkVars
<1> QED BY <1>1, <1>2, <1>3

LEMMA ChangesFinite ==
    ASSUME NEW S, NEW q \in Seq(S)
    PROVE  /\ IsFiniteSet(Changes(q)) /\ Cardinality(Changes(q)) \in Nat
           /\ IsFiniteSet(MovesIn(q)) /\ Cardinality(MovesIn(q)) \in Nat
<1>1. DOMAIN q = 1..Len(q) /\ Len(q) \in Nat
  BY LenProperties
<1>2. IsFiniteSet(1..Len(q))
  BY <1>1, FS_Interval
<1>3. Changes(q) \subseteq 1..Len(q) /\ MovesIn(q) \subseteq 1..Len(q)
  BY <1>1 DEF Changes, MovesIn
<1>4. IsFiniteSet(Changes(q)) /\ IsFiniteSet(MovesIn(q))
  BY <1>2, <1>3, FS_Subset
<1> QED BY <1>4, FS_CardinalityType

\* The heartbeat the client sends.
Beat == [kind |-> "ping", ply |-> Len(view.board), mark |-> NoMark,
         told |-> made - Cardinality(Changes(down)), behind |-> Behind]

LEMMA PingTyped ==
    ASSUME Typed, Ping
    PROVE  /\ up' = Append(up, Beat) /\ Beat \in Beats /\ link = "open"
           /\ UNCHANGED <<serverVars, clientVars, linkVars, down>>
           /\ Typed'
<1>1. /\ up' = Append(up, Beat) /\ link = "open"
      /\ UNCHANGED <<serverVars, clientVars, linkVars, down>>
  BY DEF Ping, Beat
<1>2. Len(view.board) \in Nat /\ made \in Nat /\ Cardinality(Changes(down)) \in Nat
  BY LenProperties, ChangesFinite DEF Typed, ViewTyped, ServerTyped, WireTyped, Views
<1>3. Behind \in BOOLEAN
  BY DEF Behind
<1>4. Beat \in Beats
  BY <1>2, <1>3 DEF Beat, Beats
<1>5. up' \in Seq(Sent \cup Beats)
  BY <1>1, <1>4, AppendProperties DEF Typed, WireTyped
<1> QED BY <1>1, <1>4, <1>5
        DEF Typed, ServerTyped, ViewTyped, WireTyped, serverVars, clientVars, linkVars

LEMMA DeliverTyped ==
    ASSUME Typed, Deliver
    PROVE  Typed'
<1>1. /\ down # <<>> /\ down' = Tail(down) /\ UNCHANGED <<serverVars, outbox, linkVars, up>>
      /\ Become(On(view, Head(down)), fetches, On(view, Head(down)).syncing /\ ~view.syncing)
  BY DEF Deliver
<1>2. Head(down) \in Heard /\ down' \in Seq(Heard)
  BY <1>1, Tailed DEF Typed, WireTyped
<1> DEFINE v == On(view, Head(down))
<1>3. v \in Views /\ HoldsFor(v)
  BY <1>2, OnTyped DEF Typed, ViewTyped
<1> HIDE DEF v
<1>4. ViewTyped'
  <2>1. Become(v, fetches, v.syncing /\ ~view.syncing)
    BY <1>1 DEF v
  <2>2. v.syncing => (v.syncing /\ ~view.syncing) \/ fetches # <<>>
    BY DEF Typed, ViewTyped
  <2>3. ViewTyped /\ fetches \in Seq(Fetches)
    BY DEF Typed, ViewTyped
  <2> QED BY <1>3, <2>1, <2>2, <2>3, BecomeTyped
<1> QED BY <1>1, <1>2, <1>4 DEF Typed, ServerTyped, WireTyped, serverVars, linkVars

LEMMA FetchTyped ==
    ASSUME Typed, NEW i \in DOMAIN fetches, Serve(i) \/ Fetched(i)
    PROVE  Typed'
<1>0. i \in 1..Len(fetches) /\ fetches[i] \in Fetches /\ fetches \in Seq(Fetches)
  BY LenProperties, ElementOfSeq DEF Typed, ViewTyped
<1>1. CASE Serve(i)
  <2> DEFINE told == [answered |-> TRUE, snapshot |-> hist]
  <2>1. /\ fetches' = [fetches EXCEPT ![i] = told] /\ strikes' = 0
        /\ UNCHANGED <<hist, asked, made, fresh, shut, view, outbox, linkVars, up, down>>
    BY <1>1 DEF Serve
  <2>2. told \in Fetches
    BY DEF Typed, ServerTyped, Fetches
  <2> HIDE DEF told
  <2>3. fetches' \in Seq(Fetches) /\ Len(fetches') = Len(fetches)
    BY <1>0, <2>1, <2>2, ExceptSeq
  <2>4. fetches' # <<>>
    BY <1>0, <2>3, EmptySeq
  <2> QED BY <2>1, <2>3, <2>4 DEF Typed, ServerTyped, ViewTyped, WireTyped, linkVars, Strikes
<1>2. CASE Fetched(i)
  <2> DEFINE v == Adopt(view, fetches[i].snapshot)
             rest == RemoveAt(fetches, i)
  <2>1. Become(v, rest, v.syncing) /\ UNCHANGED <<serverVars, outbox, linkVars, up, down>>
    BY <1>2 DEF Fetched
  <2>2. v \in Views /\ HoldsFor(v)
    <3>1. view \in Views /\ fetches[i].snapshot \in Seq(Marks)
      BY <1>0 DEF Typed, ViewTyped, Fetches
    <3> QED BY <3>1, RebasedIs, EndResyncTyped
  <2>3. rest \in Seq(Fetches)
    BY <1>0, Removed
  <2> HIDE DEF v, rest
  <2>4. ViewTyped
    BY DEF Typed
  <2>5. ViewTyped'
    BY <2>1, <2>2, <2>3, <2>4, BecomeTyped
  <2> QED BY <2>1, <2>5 DEF Typed, ServerTyped, WireTyped, serverVars, linkVars
<1> QED BY <1>1, <1>2

LEMMA SocketTyped ==
    ASSUME Typed, Drop \/ Timeout \/ Lose \/ Resume \/ Connect
    PROVE  Typed'
<1>0. /\ <<>> \in Seq(Heard) /\ <<>> \in Seq(Sent \cup Beats) /\ <<>> \in Seq(Sent)
      /\ <<>> \in Seq(Marks)
  BY EmptySeq
<1>1. CASE Drop
  <2>1. drops' \in 0..MaxDrops
    BY <1>1 DEF Drop, Typed, WireTyped
  <2> QED BY <1>0, <1>1, <2>1
          DEF Drop, Typed, ServerTyped, ViewTyped, WireTyped, serverVars, clientVars
<1>2. CASE Timeout
  <2> DEFINE v == EndResync(view)
  <2>1. /\ Become(v, fetches, v.syncing) /\ link' = "closed" /\ drops < MaxDrops
        /\ drops' = drops + 1 /\ down' = <<>> /\ UNCHANGED <<serverVars, outbox, resumed, up>>
    BY <1>2 DEF Timeout
  <2>2. drops' \in 0..MaxDrops
    BY <2>1 DEF Typed, WireTyped
  <2>3. v \in Views /\ HoldsFor(v)
    BY EndResyncTyped DEF Typed, ViewTyped
  <2> HIDE DEF v
  <2>4. ViewTyped /\ fetches \in Seq(Fetches)
    BY DEF Typed, ViewTyped
  <2>5. ViewTyped'
    BY <2>1, <2>3, <2>4, BecomeTyped
  <2> QED BY <1>0, <2>1, <2>2, <2>5 DEF Typed, ServerTyped, WireTyped, serverVars
<1>3. CASE Lose
  BY <1>0, <1>3 DEF Lose, Typed, ServerTyped, ViewTyped, WireTyped, serverVars, clientVars, linkVars
<1>4. CASE Resume
  BY <1>4 DEF Resume, Typed, ServerTyped, ViewTyped, WireTyped, clientVars, Strikes
<1>5. CASE Connect
  <2> DEFINE v == Adopt(view, resumed)
  <2>1. /\ link' = "open" /\ Become(v, fetches, v.syncing) /\ strikes' = 0 /\ resumed' = <<>>
        /\ up' = outbox /\ outbox' = <<>>
        /\ UNCHANGED <<hist, asked, made, fresh, shut, drops, down>>
    BY <1>5 DEF Connect
  <2>2. v \in Views /\ HoldsFor(v)
    <3>1. view \in Views /\ resumed \in Seq(Marks)
      BY DEF Typed, ViewTyped, WireTyped
    <3> QED BY <3>1, RebasedIs, EndResyncTyped
  <2> HIDE DEF v
  <2>3. ViewTyped /\ fetches \in Seq(Fetches)
    BY DEF Typed, ViewTyped
  <2>4. ViewTyped'
    BY <2>1, <2>2, <2>3, BecomeTyped
  <2>5. up' \in Seq(Sent \cup Beats)
    BY <2>1, SeqMonotonic DEF Typed, WireTyped
  <2> QED BY <1>0, <2>1, <2>4, <2>5 DEF Typed, ServerTyped, WireTyped, Strikes
<1> QED BY <1>1, <1>2, <1>3, <1>4, <1>5

LEMMA TypedInit == Init => Typed
<1> SUFFICES ASSUME Init PROVE Typed
  OBVIOUS
<1>0. /\ <<>> \in Seq(Heard) /\ <<>> \in Seq(Sent \cup Beats) /\ <<>> \in Seq(Sent)
      /\ <<>> \in Seq(Marks) /\ <<>> \in Seq(Held) /\ <<>> \in Seq(Nat) /\ <<>> \in Seq(Fetches)
      /\ Len(<<>>) = 0
  BY EmptySeq
<1>1. hist \in Seq(Marks)
  BY DEF Init
<1>2. ServerTyped
  <2>1. /\ asked = Nobody /\ made = 0 /\ fresh = <<>> /\ strikes = 0 /\ shut = FALSE
    BY DEF Init
  <2>2. 0 \in 0..Strikes
    BY DEF Strikes
  <2>3. fresh \in Seq(Nat) /\ Len(fresh) <= made /\ Len(fresh) <= Window
    BY <1>0, <2>1, WindowAssumption
  <2> QED BY <1>1, <2>1, <2>2, <2>3 DEF ServerTyped
<1>3. ViewTyped
  BY <1>0, <1>1 DEF Init, ViewTyped, Views, HoldsFor
<1>4. WireTyped
  BY <1>0 DEF Init, WireTyped
<1> QED BY <1>2, <1>3, <1>4 DEF Typed

LEMMA TypedStep == Typed /\ [Next]_vars => Typed'
<1> SUFFICES ASSUME Typed, [Next]_vars PROVE Typed'
  OBVIOUS
<1>1. CASE UNCHANGED vars
  BY <1>1 DEF vars, serverVars, clientVars, linkVars, Typed, ServerTyped, ViewTyped, WireTyped
<1>2. CASE Next
  BY <1>2, OpponentTyped, ReceiveTyped, GateTyped, PlayerTyped, PingTyped, DeliverTyped,
     FetchTyped, SocketTyped DEF Next
<1> QED BY <1>1, <1>2

-----------------------------------------------------------------------------
(* The journal: which change of the history each frame on its way speaks of.  A server has  *)
(* counted m changes, its history is h, and fr, which ends with what the server remembers,  *)
(* keeps the length before each of the last.                                                *)

\* The plies before a change.
Before(f) == IF f.kind = "move" THEN f.ply - 1 ELSE f.ply + 1

\* The plies after change k, where the grace still knows them.
PlyAt(k, m, h, fr) == IF k = m THEN Len(h) ELSE fr[Len(fr) - (m - k) + 1]

Since(m, fr) == (m - Len(fr))..m

\* s is the end of fr.
Ends(s, fr) == Len(s) <= Len(fr) /\ \A i \in 1..Len(s) : s[i] = fr[Len(fr) - Len(s) + i]

\* n[i] changes are told once the first i frames of q are taken in, and all within the grace.
Numbered(n, q, m, h, fr) ==
    /\ n \in [0..Len(q) -> Since(m, fr)] /\ n[Len(q)] = m
    /\ \A i \in 1..Len(q) : n[i - 1] = IF IsChange(q[i]) THEN n[i] - 1 ELSE n[i]
    /\ \A i \in 1..Len(q) : IsChange(q[i]) => /\ q[i].ply = PlyAt(n[i], m, h, fr)
                                              /\ Before(q[i]) = PlyAt(n[i] - 1, m, h, fr)

\* A heartbeat of a client that was not behind names the plies it was told of last, or the
\* plies of the change that reached it next.
OnTime(f, m, h, fr) ==
    /\ f.told \in Since(m, fr)
    /\ \/ f.behind
       \/ f.ply = PlyAt(f.told, m, h, fr)
       \/ f.told < m /\ f.ply = PlyAt(f.told + 1, m, h, fr)

Timely(m, h, fr) == {f \in Beats : OnTime(f, m, h, fr)}

Server(m, h, fr) ==
    m \in Nat /\ h \in Seq(Marks) /\ fr \in Seq(Nat) /\ Len(fr) \in Nat /\ Len(fr) <= m

LEMMA PlyKept ==
    ASSUME NEW m, NEW h, NEW fr, Server(m, h, fr), NEW g, NEW k \in Since(m, fr)
    PROVE  /\ PlyAt(k, m + 1, g, Append(fr, Len(h))) = PlyAt(k, m, h, fr)
           /\ k \in Since(m + 1, Append(fr, Len(h))) /\ m + 1 \in Since(m + 1, Append(fr, Len(h)))
<1> DEFINE longer == Append(fr, Len(h))
<1>1. m \in Nat /\ Len(fr) \in Nat /\ k \in (m - Len(fr))..m /\ Len(h) \in Nat /\ fr \in Seq(Nat)
  BY LenProperties DEF Server, Since
<1>2. /\ Len(longer) = Len(fr) + 1 /\ longer[Len(fr) + 1] = Len(h)
      /\ \A i \in 1..Len(fr) : longer[i] = fr[i]
  BY <1>1, AppendProperties
<1> HIDE DEF longer
<1>3. k \in Since(m + 1, longer) /\ m + 1 \in Since(m + 1, longer)
  BY <1>1, <1>2 DEF Since
<1> DEFINE p == Len(fr) - (m - k) + 1
<1>4. PlyAt(k, m + 1, g, longer) = longer[p]
  <2>1. PlyAt(k, m + 1, g, longer) = longer[Len(longer) - ((m + 1) - k) + 1]
    <3>1. k # m + 1
      BY <1>1
    <3> QED BY <3>1 DEF PlyAt
  <2>2. Len(longer) - ((m + 1) - k) + 1 = p
    BY <1>1, <1>2
  <2> QED BY <2>1, <2>2
<1>5. longer[p] = PlyAt(k, m, h, fr)
  <2>1. CASE k = m
    <3>1. p = Len(fr) + 1
      BY <1>1, <2>1
    <3>2. PlyAt(k, m, h, fr) = Len(h)
      BY <2>1 DEF PlyAt
    <3> HIDE DEF p
    <3> QED BY <1>2, <3>1, <3>2
  <2>2. CASE k # m
    <3>1. p \in 1..Len(fr)
      BY <1>1, <2>2
    <3>2. PlyAt(k, m, h, fr) = fr[p]
      BY <2>2 DEF PlyAt
    <3> HIDE DEF p
    <3> QED BY <1>2, <3>1, <3>2
  <2> QED BY <2>1, <2>2
<1> QED BY <1>3, <1>4, <1>5 DEF longer

\* The end of a journal has the same to say of what it reaches back to.
LEMMA PlyForgot ==
    ASSUME NEW m, NEW h, NEW fr, Server(m, h, fr), NEW s \in Seq(Nat), Ends(s, fr),
           NEW k \in Since(m, s)
    PROVE  PlyAt(k, m, h, s) = PlyAt(k, m, h, fr) /\ k \in Since(m, fr)
<1>1. /\ m \in Nat /\ Len(fr) \in Nat /\ Len(s) \in Nat /\ Len(s) <= Len(fr)
      /\ k \in (m - Len(s))..m
      /\ \A i \in 1..Len(s) : s[i] = fr[Len(fr) - Len(s) + i]
  BY LenProperties DEF Server, Since, Ends
<1>2. k \in Since(m, fr)
  BY <1>1 DEF Since
<1>3. CASE k = m
  BY <1>2, <1>3 DEF PlyAt
<1>4. CASE k # m
  <2>1. /\ Len(s) - (m - k) + 1 \in 1..Len(s)
        /\ Len(fr) - Len(s) + (Len(s) - (m - k) + 1) = Len(fr) - (m - k) + 1
    BY <1>1, <1>4
  <2>2. s[Len(s) - (m - k) + 1] = fr[Len(fr) - (m - k) + 1]
    BY <1>1, <2>1
  <2> QED BY <1>2, <1>4, <2>2 DEF PlyAt
<1> QED BY <1>3, <1>4

\* What a server in its grace remembers is a ply in fresh, or the ply it is at.
LEMMA PlyFresh ==
    ASSUME ServerTyped, NEW k \in Since(made, fresh)
    PROVE  PlyAt(k, made, hist, fresh) = Len(hist) \/ InTransit(PlyAt(k, made, hist, fresh))
<1>1. /\ made \in Nat /\ Len(fresh) \in Nat /\ DOMAIN fresh = 1..Len(fresh)
      /\ k \in (made - Len(fresh))..made
  BY LenProperties DEF ServerTyped, Since
<1>2. k # made => Len(fresh) - (made - k) + 1 \in DOMAIN fresh
  BY <1>1
<1> QED BY <1>2 DEF PlyAt, InTransit

LEMMA TimelyKept ==
    ASSUME NEW m, NEW h, NEW fr, Server(m, h, fr), NEW g
    PROVE  Timely(m, h, fr) \subseteq Timely(m + 1, g, Append(fr, Len(h)))
<1> SUFFICES ASSUME NEW f \in Timely(m, h, fr)
             PROVE  OnTime(f, m + 1, g, Append(fr, Len(h)))
  BY DEF Timely
<1>1. OnTime(f, m, h, fr) /\ m \in Nat /\ Len(fr) \in Nat
  BY DEF Timely, Server
<1>2. f.told \in Since(m, fr) /\ f.told < m + 1
  BY <1>1 DEF OnTime, Since
<1>3. f.told < m => f.told + 1 \in Since(m, fr)
  BY <1>1, <1>2 DEF Since
<1>4. /\ f.told \in Since(m + 1, Append(fr, Len(h)))
      /\ PlyAt(f.told, m + 1, g, Append(fr, Len(h))) = PlyAt(f.told, m, h, fr)
  BY <1>2, PlyKept
<1>5. f.told < m => PlyAt(f.told + 1, m + 1, g, Append(fr, Len(h))) = PlyAt(f.told + 1, m, h, fr)
  BY <1>3, PlyKept
<1> QED BY <1>1, <1>2, <1>4, <1>5 DEF OnTime

LEMMA TimelyForgot ==
    ASSUME NEW m, NEW h, NEW fr, Server(m, h, fr), NEW s \in Seq(Nat), Ends(s, fr),
           NEW f \in Timely(m, h, fr), f.told >= m - Len(s)
    PROVE  f \in Timely(m, h, s)
<1>1. f \in Beats /\ OnTime(f, m, h, fr) /\ m \in Nat /\ Len(fr) \in Nat /\ Len(s) \in Nat
  BY LenProperties DEF Timely, Server
<1>2. f.told \in Since(m, s)
  BY <1>1 DEF OnTime, Since
<1>3. f.told < m => f.told + 1 \in Since(m, s)
  BY <1>1, <1>2 DEF Since
<1>4. PlyAt(f.told, m, h, s) = PlyAt(f.told, m, h, fr)
  BY <1>2, PlyForgot
<1>5. f.told < m => PlyAt(f.told + 1, m, h, s) = PlyAt(f.told + 1, m, h, fr)
  BY <1>3, PlyForgot
<1> QED BY <1>1, <1>2, <1>4, <1>5 DEF OnTime, Timely

\* The numbers only grow, by one with every change.
LEMMA Counted ==
    ASSUME NEW n, NEW q \in Seq(Heard), NEW m, NEW h, NEW fr, Server(m, h, fr),
           Numbered(n, q, m, h, fr)
    PROVE  /\ \A k \in 0..Len(q) : n[k] \in Int /\ n[k] >= n[0] /\ n[k] <= m
           /\ \A k \in 0..Len(q) : (\A i \in 1..k : ~IsChange(q[i])) => n[k] = n[0]
           /\ Cardinality(Changes(q)) = m - n[0]
<1>1. Len(q) \in Nat /\ DOMAIN q = 1..Len(q) /\ m \in Nat /\ Len(fr) \in Nat
  BY LenProperties DEF Server
<1>2. \A k \in 0..Len(q) : n[k] \in Int /\ n[k] <= m
  BY <1>1 DEF Numbered, Since
<1> DEFINE C(k) == {i \in 1..k : IsChange(q[i])}
           P == {k \in Nat : k <= Len(q) =>
                   /\ n[k] >= n[0]
                   /\ (\A i \in 1..k : ~IsChange(q[i])) => n[k] = n[0]
                   /\ IsFiniteSet(C(k)) /\ Cardinality(C(k)) = n[k] - n[0]}
<1>3. 0 \in P
  <2>1. C(0) = {} /\ n[0] \in Int
    BY <1>1, <1>2
  <2> QED BY <2>1, FS_EmptySet
<1>4. ASSUME NEW k \in P PROVE k + 1 \in P
  <2> SUFFICES ASSUME k + 1 <= Len(q) PROVE k + 1 \in P
    OBVIOUS
  <2>1. /\ n[k] >= n[0] /\ IsFiniteSet(C(k)) /\ Cardinality(C(k)) = n[k] - n[0]
        /\ (\A i \in 1..k : ~IsChange(q[i])) => n[k] = n[0]
    BY <1>1
  <2>2. n[k] \in Int /\ n[k + 1] \in Int /\ n[0] \in Int
    BY <1>1, <1>2
  <2>3. n[k] = IF IsChange(q[k + 1]) THEN n[k + 1] - 1 ELSE n[k + 1]
    <3>1. k + 1 \in 1..Len(q) /\ k + 1 - 1 = k
      BY <1>1
    <3> QED BY <3>1 DEF Numbered
  <2>4. C(k + 1) = IF IsChange(q[k + 1]) THEN C(k) \cup {k + 1} ELSE C(k)
    <3>1. 1..(k + 1) = (1..k) \cup {k + 1}
      OBVIOUS
    <3> QED BY <3>1
  <2>5. k + 1 \notin C(k)
    OBVIOUS
  <2> HIDE DEF C
  <2>6. CASE IsChange(q[k + 1])
    <3>1. IsFiniteSet(C(k + 1)) /\ Cardinality(C(k + 1)) = Cardinality(C(k)) + 1
      BY <2>1, <2>4, <2>5, <2>6, FS_AddElement
    <3>2. n[k + 1] = n[k] + 1
      BY <2>2, <2>3, <2>6
    <3>3. n[k + 1] >= n[0] /\ Cardinality(C(k + 1)) = n[k + 1] - n[0]
      BY <2>1, <2>2, <3>1, <3>2
    <3>4. k + 1 \in Nat /\ k + 1 \in 1..(k + 1)
      OBVIOUS
    <3> QED BY <2>6, <3>1, <3>3, <3>4
  <2>7. CASE ~IsChange(q[k + 1])
    BY <2>1, <2>2, <2>3, <2>4, <2>7
  <2> QED BY <2>6, <2>7
<1> HIDE DEF P, C
<1>5. P = Nat
  BY <1>3, <1>4, AllNaturals DEF P
<1>6. ASSUME NEW k \in 0..Len(q)
      PROVE  n[k] >= n[0] /\ ((\A i \in 1..k : ~IsChange(q[i])) => n[k] = n[0])
  <2>1. k \in P /\ k <= Len(q)
    BY <1>1, <1>5
  <2> QED BY <2>1 DEF P
<1>7. Cardinality(C(Len(q))) = n[Len(q)] - n[0]
  <2>1. Len(q) \in P
    BY <1>1, <1>5
  <2> QED BY <1>1, <2>1 DEF P
<1>8. C(Len(q)) = Changes(q)
  BY <1>1 DEF Changes, C
<1> QED BY <1>2, <1>6, <1>7, <1>8 DEF Numbered

LEMMA NumberedNone ==
    ASSUME NEW m, NEW h, NEW fr, Server(m, h, fr)
    PROVE  \E n : Numbered(n, <<>>, m, h, fr)
<1> DEFINE n == [i \in 0..0 |-> m]
<1>1. Len(<<>>) = 0 /\ m \in Since(m, fr)
  BY EmptySeq DEF Server, Since
<1>2. Numbered(n, <<>>, m, h, fr)
  BY <1>1 DEF Numbered
<1> QED BY <1>2

\* Frames that tell of no change leave the numbers alone.
LEMMA NumberedWords ==
    ASSUME NEW m, NEW h, NEW fr, Server(m, h, fr), NEW q \in Seq(Heard), NEW n,
           Numbered(n, q, m, h, fr),
           NEW w \in Seq(Heard), \A i \in 1..Len(w) : ~IsChange(w[i])
    PROVE  \E p : Numbered(p, q \o w, m, h, fr)
<1> DEFINE r == q \o w
           p == [i \in 0..Len(r) |-> IF i <= Len(q) THEN n[i] ELSE m]
<1>1. /\ r \in Seq(Heard) /\ Len(r) = Len(q) + Len(w) /\ Len(q) \in Nat /\ Len(w) \in Nat
      /\ \A i \in 1..Len(r) : r[i] = IF i <= Len(q) THEN q[i] ELSE w[i - Len(q)]
  BY ConcatProperties, LenProperties
<1> HIDE DEF r
<1>2. m \in Since(m, fr)
  BY DEF Server, Since
<1>3. p \in [0..Len(r) -> Since(m, fr)] /\ p[Len(r)] = m
  BY <1>1, <1>2 DEF Numbered
<1>4. ASSUME NEW i \in 1..Len(r)
      PROVE  /\ p[i - 1] = IF IsChange(r[i]) THEN p[i] - 1 ELSE p[i]
             /\ IsChange(r[i]) => /\ r[i].ply = PlyAt(p[i], m, h, fr)
                                  /\ Before(r[i]) = PlyAt(p[i] - 1, m, h, fr)
  <2>1. CASE i <= Len(q)
    <3>1. r[i] = q[i] /\ p[i] = n[i] /\ p[i - 1] = n[i - 1] /\ i \in 1..Len(q)
      BY <1>1, <2>1
    <3> HIDE DEF p
    <3> QED BY <3>1 DEF Numbered
  <2>2. CASE i > Len(q)
    <3>1. ~IsChange(r[i])
      <4>1. i - Len(q) \in 1..Len(w) /\ r[i] = w[i - Len(q)]
        BY <1>1, <2>2
      <4> QED BY <4>1
    <3>2. p[i] = m
      BY <1>1, <2>2
    <3>3. p[i - 1] = m
      <4>1. i - 1 \in 0..Len(r) /\ (i - 1 <= Len(q) => i - 1 = Len(q))
        BY <1>1, <2>2
      <4> QED BY <4>1 DEF Numbered
    <3> HIDE DEF p
    <3> QED BY <3>1, <3>2, <3>3
  <2> QED BY <1>1, <2>1, <2>2
<1> HIDE DEF p
<1>5. Numbered(p, r, m, h, fr)
  BY <1>3, <1>4 DEF Numbered
<1> QED BY <1>5 DEF r

\* The news of a change that is made is numbered after all the others.
LEMMA NumberedNews ==
    ASSUME NEW m, NEW h, NEW fr, Server(m, h, fr), NEW g, NEW q \in Seq(Heard), NEW n,
           Numbered(n, q, m, h, fr),
           NEW f \in Heard, IsChange(f), f.ply = Len(g), Before(f) = Len(h)
    PROVE  \E p : Numbered(p, q \o <<f>>, m + 1, g, Append(fr, Len(h)))
<1> DEFINE r == q \o <<f>>
           later == Append(fr, Len(h))
           p == [i \in 0..Len(r) |-> IF i <= Len(q) THEN n[i] ELSE m + 1]
<1>0. m \in Nat /\ \A i \in 0..Len(q) : n[i] \in Since(m, fr)
  BY DEF Server, Numbered
<1>1. /\ Len(r) = Len(q) + 1 /\ Len(q) \in Nat /\ r[Len(q) + 1] = f
      /\ \A i \in 1..Len(q) : r[i] = q[i]
  <2>1. /\ <<f>> \in Seq(Heard) /\ Len(<<f>>) = 1 /\ <<f>>[1] = f
    OBVIOUS
  <2>2. /\ Len(r) = Len(q) + 1 /\ Len(q) \in Nat
        /\ \A i \in 1..Len(r) : r[i] = IF i <= Len(q) THEN q[i] ELSE <<f>>[i - Len(q)]
    BY <2>1, ConcatProperties, LenProperties
  <2> HIDE DEF r
  <2>3. Len(q) + 1 \in 1..Len(r) /\ ~(Len(q) + 1 <= Len(q)) /\ Len(q) + 1 - Len(q) = 1
    BY <2>2
  <2> QED BY <2>1, <2>2, <2>3
<1> HIDE DEF r
<1>2. \A k \in Since(m, fr) : /\ k \in Since(m + 1, later)
                              /\ PlyAt(k, m + 1, g, later) = PlyAt(k, m, h, fr)
  BY PlyKept
<1>3. m \in Since(m, fr) /\ m + 1 \in Since(m + 1, later)
  <2>1. m \in Since(m, fr)
    BY DEF Server, Since
  <2> QED BY <2>1, PlyKept
<1>4. PlyAt(m, m, h, fr) = Len(h) /\ PlyAt(m + 1, m + 1, g, later) = Len(g)
  BY DEF PlyAt
<1> HIDE DEF later
<1>5. p \in [0..Len(r) -> Since(m + 1, later)] /\ p[Len(r)] = m + 1
  BY <1>0, <1>1, <1>2, <1>3
<1>6. ASSUME NEW i \in 1..Len(r)
      PROVE  /\ p[i - 1] = IF IsChange(r[i]) THEN p[i] - 1 ELSE p[i]
             /\ IsChange(r[i]) => /\ r[i].ply = PlyAt(p[i], m + 1, g, later)
                                  /\ Before(r[i]) = PlyAt(p[i] - 1, m + 1, g, later)
  <2>1. CASE i <= Len(q)
    <3>1. /\ r[i] = q[i] /\ p[i] = n[i] /\ p[i - 1] = n[i - 1] /\ i \in 1..Len(q)
          /\ n[i] \in Since(m, fr) /\ n[i - 1] \in Since(m, fr)
      BY <1>0, <1>1, <2>1
    <3> HIDE DEF p
    <3>2. p[i - 1] = IF IsChange(r[i]) THEN p[i] - 1 ELSE p[i]
      BY <3>1 DEF Numbered
    <3>3. ASSUME IsChange(r[i])
          PROVE  /\ r[i].ply = PlyAt(p[i], m + 1, g, later)
                 /\ Before(r[i]) = PlyAt(p[i] - 1, m + 1, g, later)
      <4>1. r[i].ply = PlyAt(n[i], m, h, fr) /\ Before(r[i]) = PlyAt(n[i] - 1, m, h, fr)
        BY <3>1, <3>3 DEF Numbered
      <4>2. n[i] - 1 \in Since(m, fr)
        BY <3>1, <3>2, <3>3
      <4> QED BY <1>2, <3>1, <4>1, <4>2
    <3> QED BY <3>2, <3>3
  <2>2. CASE i > Len(q)
    <3>1. i = Len(q) + 1 /\ i \in 0..Len(r) /\ i - 1 = Len(q) /\ i - 1 \in 0..Len(r)
      BY <1>1, <2>2
    <3>2. p[i] = m + 1 /\ p[i - 1] = n[Len(q)] /\ r[i] = f
      BY <1>1, <3>1
    <3>3. n[Len(q)] = m
      BY DEF Numbered
    <3> HIDE DEF p
    <3>4. p[i] - 1 = m /\ p[i - 1] = p[i] - 1
      BY <1>0, <3>2, <3>3
    <3>5. PlyAt(p[i], m + 1, g, later) = Len(g) /\ PlyAt(m, m + 1, g, later) = Len(h)
      BY <1>2, <1>3, <1>4, <3>2
    <3>6. PlyAt(p[i] - 1, m + 1, g, later) = Len(h)
      BY <3>4, <3>5
    <3> QED BY <3>2, <3>4, <3>5, <3>6
  <2> QED BY <1>1, <2>1, <2>2
<1> HIDE DEF p
<1>7. Numbered(p, r, m + 1, g, later)
  BY <1>5, <1>6 DEF Numbered
<1> QED BY <1>7 DEF r, later

LEMMA NumberedTail ==
    ASSUME NEW m, NEW h, NEW fr, NEW q \in Seq(Heard), q # <<>>, NEW n,
           Numbered(n, q, m, h, fr)
    PROVE  \E p : Numbered(p, Tail(q), m, h, fr)
<1> DEFINE r == Tail(q)
           p == [i \in 0..Len(r) |-> n[i + 1]]
<1>1. /\ Len(q) \in Nat \ {0} /\ Len(r) = Len(q) - 1
      /\ \A i \in 1..(Len(q) - 1) : r[i] = q[i + 1]
  BY Tailed
<1> HIDE DEF r
<1>2. p \in [0..Len(r) -> Since(m, fr)] /\ p[Len(r)] = m
  BY <1>1 DEF Numbered
<1>3. ASSUME NEW i \in 1..Len(r)
      PROVE  /\ p[i - 1] = IF IsChange(r[i]) THEN p[i] - 1 ELSE p[i]
             /\ IsChange(r[i]) => /\ r[i].ply = PlyAt(p[i], m, h, fr)
                                  /\ Before(r[i]) = PlyAt(p[i] - 1, m, h, fr)
  <2>1. r[i] = q[i + 1] /\ p[i] = n[i + 1] /\ p[i - 1] = n[i + 1 - 1] /\ i + 1 \in 1..Len(q)
    BY <1>1
  <2> HIDE DEF p
  <2> QED BY <2>1 DEF Numbered
<1> HIDE DEF p
<1>4. Numbered(p, r, m, h, fr)
  BY <1>2, <1>3 DEF Numbered
<1> QED BY <1>4 DEF r

\* The grace of a change may end when its news has been taken in.
LEMMA NumberedForgot ==
    ASSUME NEW m, NEW h, NEW fr, Server(m, h, fr), NEW s \in Seq(Nat), Ends(s, fr),
           NEW q \in Seq(Heard), NEW n, Numbered(n, q, m, h, fr), n[0] >= m - Len(s)
    PROVE  Numbered(n, q, m, h, s)
<1>1. m \in Nat /\ Len(fr) \in Nat /\ Len(q) \in Nat /\ Len(s) \in Nat
  BY LenProperties DEF Server
<1>2. \A i \in 0..Len(q) : n[i] \in Int /\ n[i] >= n[0] /\ n[i] <= m
  BY Counted
<1>3. \A i \in 0..Len(q) : n[i] \in Since(m, s)
  <2>1. n[0] \in Int
    BY <1>1, <1>2
  <2> QED BY <1>1, <1>2, <2>1 DEF Since
<1>4. \A i \in 0..Len(q) : PlyAt(n[i], m, h, s) = PlyAt(n[i], m, h, fr)
  BY <1>3, PlyForgot
<1>5. n \in [0..Len(q) -> Since(m, s)]
  BY <1>3 DEF Numbered
<1>6. ASSUME NEW i \in 1..Len(q), IsChange(q[i])
      PROVE  /\ q[i].ply = PlyAt(n[i], m, h, s)
             /\ Before(q[i]) = PlyAt(n[i] - 1, m, h, s)
  <2>1. i \in 0..Len(q) /\ i - 1 \in 0..Len(q)
    BY <1>1
  <2>2. n[i - 1] = n[i] - 1 /\ q[i].ply = PlyAt(n[i], m, h, fr)
        /\ Before(q[i]) = PlyAt(n[i] - 1, m, h, fr)
    BY <1>6 DEF Numbered
  <2>3. PlyAt(n[i], m, h, s) = PlyAt(n[i], m, h, fr)
    BY <1>4, <2>1
  <2>4. PlyAt(n[i - 1], m, h, s) = PlyAt(n[i - 1], m, h, fr)
    BY <1>4, <2>1
  <2> QED BY <2>2, <2>3, <2>4
<1> QED BY <1>5, <1>6 DEF Numbered

\* A client that takes in all the news without having to rebuild was where the first change
\* found it, or where it left it; without a change it stays where it was.
LEMMA Crossed ==
    ASSUME NEW v \in Views, HoldsFor(v), NEW q \in Seq(Heard), ~Told(v, q).syncing
    PROVE  \/ Told(v, q).board = v.board /\ \A i \in 1..Len(q) : ~IsChange(q[i])
           \/ \E i \in 1..Len(q) : /\ IsChange(q[i]) /\ \A j \in 1..(i - 1) : ~IsChange(q[j])
                                   /\ Len(v.board) \in {Before(q[i]), q[i].ply}
<1>0. PICK c : ToldTurns(c, v, q)
  BY ToldInTurn
<1>1. Len(q) \in Nat /\ \A i \in 1..Len(q) : q[i] \in Heard
  BY LenProperties, ElementOfSeq
<1>2. \A k \in 0..(Len(q) - 1) : c[k + 1] = On(c[k], q[k + 1]) /\ q[k + 1] \in Heard
  BY <1>0, <1>1 DEF ToldTurns
<1> DEFINE P == {k \in Nat : k <= Len(q) => c[k] \in Views /\ HoldsFor(c[k])}
<1>3. \A k \in 0..Len(q) : c[k] \in Views /\ HoldsFor(c[k])
  <2>1. 0 \in P
    BY <1>0 DEF ToldTurns
  <2>2. ASSUME NEW k \in P PROVE k + 1 \in P
    <3> SUFFICES ASSUME k + 1 <= Len(q) PROVE c[k + 1] \in Views /\ HoldsFor(c[k + 1])
      OBVIOUS
    <3>1. k \in 0..(Len(q) - 1) /\ c[k] \in Views /\ HoldsFor(c[k])
      BY <1>1
    <3> QED BY <1>2, <3>1, OnTyped
  <2> HIDE DEF P
  <2>3. P = Nat
    BY <2>1, <2>2, AllNaturals DEF P
  <2>4. ASSUME NEW k \in 0..Len(q) PROVE c[k] \in Views /\ HoldsFor(c[k])
    <3>1. k \in P /\ k <= Len(q)
      BY <1>1, <2>3
    <3> QED BY <3>1 DEF P
  <2> QED BY <2>4
<1> HIDE DEF P
<1>4. ASSUME NEW k \in 0..Len(q) PROVE ~c[k].syncing
  <2> SUFFICES ASSUME c[k].syncing PROVE FALSE
    OBVIOUS
  <2> DEFINE S == {j \in Nat : k + j <= Len(q) => c[k + j].syncing}
  <2>1. 0 \in S
    BY <1>1
  <2>2. ASSUME NEW j \in S PROVE j + 1 \in S
    <3> SUFFICES ASSUME k + (j + 1) <= Len(q) PROVE c[k + (j + 1)].syncing
      OBVIOUS
    <3>1. k + j \in 0..(Len(q) - 1) /\ (k + j) + 1 = k + (j + 1) /\ k + j \in 0..Len(q)
      BY <1>1
    <3>2. c[k + j].syncing
      BY <1>1, <3>1
    <3>3. c[(k + j) + 1].syncing
      BY <1>2, <1>3, <3>1, <3>2, OnTyped
    <3> QED BY <3>1, <3>3
  <2> HIDE DEF S
  <2>3. S = Nat
    BY <2>1, <2>2, AllNaturals DEF S
  <2>4. Len(q) - k \in S /\ k + (Len(q) - k) = Len(q)
    BY <1>1, <2>3
  <2>5. c[Len(q)].syncing
    BY <1>1, <2>4 DEF S
  <2> QED BY <1>0, <2>5 DEF ToldTurns
<1>5. \A k \in 0..(Len(q) - 1) : Taken(c[k], q[k + 1], c[k + 1]) /\ ~c[k + 1].syncing
  <2> TAKE k \in 0..(Len(q) - 1)
  <2>1. k \in 0..Len(q) /\ k + 1 \in 0..Len(q)
    BY <1>1
  <2> QED BY <1>2, <1>3, <1>4, <2>1, OnFollowing
<1> DEFINE T == {k \in Nat : (k <= Len(q) /\ \A i \in 1..k : ~IsChange(q[i]))
                                => c[k].board = v.board}
<1>6. T = Nat
  <2>1. 0 \in T
    BY <1>0 DEF ToldTurns
  <2>2. ASSUME NEW k \in T PROVE k + 1 \in T
    <3> SUFFICES ASSUME k + 1 <= Len(q), \A i \in 1..(k + 1) : ~IsChange(q[i])
                 PROVE  c[k + 1].board = v.board
      OBVIOUS
    <3>1. k \in 0..(Len(q) - 1) /\ c[k].board = v.board
      BY <1>1
    <3>2. ~IsChange(q[k + 1])
      BY <1>1
    <3>3. Taken(c[k], q[k + 1], c[k + 1]) /\ ~c[k + 1].syncing
      BY <1>5, <3>1
    <3> QED BY <3>1, <3>2, <3>3 DEF Taken, IsChange
  <2> HIDE DEF T
  <2> QED BY <2>1, <2>2, AllNaturals DEF T
<1> HIDE DEF T
<1>7. CASE \A i \in 1..Len(q) : ~IsChange(q[i])
  <2>1. c[Len(q)].board = v.board
    BY <1>1, <1>6, <1>7 DEF T
  <2> QED BY <1>0, <1>7, <2>1 DEF ToldTurns
<1>8. CASE \E i \in 1..Len(q) : IsChange(q[i])
  <2> DEFINE F == {i \in 1..Len(q) : IsChange(q[i])}
  <2>1. PICK i \in F : \A j \in F : ~(j < i)
    <3>1. F \in SUBSET Nat /\ F # {}
      BY <1>1, <1>8
    <3> HIDE DEF F
    <3> QED BY <3>1, LeastNatural
  <2>2. i \in 1..Len(q) /\ IsChange(q[i]) /\ \A j \in 1..(i - 1) : ~IsChange(q[j])
    BY <1>1, <2>1
  <2>3. i - 1 \in 0..(Len(q) - 1) /\ i - 1 + 1 = i /\ i - 1 \in Nat /\ i - 1 <= Len(q)
    BY <1>1, <2>2
  <2>4. c[i - 1].board = v.board
    BY <1>6, <2>2, <2>3 DEF T
  <2>5. Taken(c[i - 1], q[i], c[i]) /\ ~c[i].syncing
    BY <1>5, <2>3
  <2>6. Len(v.board) \in Nat /\ q[i].ply \in Nat
    BY <1>1, <2>2, HeardIs, LenProperties DEF Views
  <2>7. Len(v.board) \in {Before(q[i]), q[i].ply}
    <3> DEFINE f == q[i]
               d == c[i - 1]
    <3>1. \/ f.kind = "move" /\ Echo(d.board, f)
          \/ f.kind = "move" /\ f.ply = Len(d.board) + 1
          \/ f.kind = "back" /\ f.ply = Len(d.board) - 1
      BY <2>2, <2>5 DEF Taken
    <3>2. Len(d.board) = Len(v.board) /\ f.ply \in Nat
      BY <2>4, <2>6
    <3> HIDE DEF f, d
    <3>3. Len(v.board) \in {Before(f), f.ply}
      BY <2>6, <3>1, <3>2 DEF Echo, Before
    <3> QED BY <3>3 DEF f
  <2> QED BY <2>2, <2>7
<1> QED BY <1>7, <1>8

-----------------------------------------------------------------------------
(* The orders to rebuild are earned *)

\* A journal that reaches back to the oldest change on its way, whether the server still
\* remembers it or had to forget it for its window.
Recalls(full) ==
    /\ full \in Seq(Nat) /\ Len(full) <= made
    /\ Ends(fresh, full) /\ (Len(fresh) = Len(full) \/ Len(fresh) = Window)

Journaled(full) ==
    /\ Recalls(full)
    /\ \E n : Numbered(n, down, made, hist, full)
    /\ up \in Seq(Sent \cup Timely(made, hist, full))

\* Every change on its way to the client, and every heartbeat on its way to the server, is in
\* one such journal; and only with a ply to take back is one asked for.
Journal ==
    /\ asked # Nobody => hist # <<>>
    /\ \E full : Journaled(full)

LEMMA ServerIs ==
    ASSUME Typed, NEW full, Recalls(full)
    PROVE  /\ Server(made, hist, full) /\ down \in Seq(Heard)
           /\ fresh \in Seq(Nat) /\ Len(fresh) \in Nat
BY LenProperties DEF Typed, ServerTyped, WireTyped, Server, Recalls

\* A change is added to the journal, whatever the server forgets for it.
LEMMA RecallsMore ==
    ASSUME ServerTyped, NEW full, Recalls(full), NEW board \in Seq(Marks), NEW kind,
           Changed(board, kind), NEW longer, longer = Append(full, Len(hist))
    PROVE  Recalls(longer)'
<1> DEFINE kept == Remembered
           l == Len(hist)
           later == Append(kept, l)
<1>1. /\ made \in Nat /\ full \in Seq(Nat) /\ Len(full) \in Nat /\ Len(full) <= made
      /\ Len(fresh) \in Nat /\ Len(fresh) <= Len(full) /\ l \in Nat
      /\ \A i \in 1..Len(fresh) : fresh[i] = full[Len(full) - Len(fresh) + i]
      /\ Len(fresh) = Len(full) \/ Len(fresh) = Window
  BY LenProperties DEF Recalls, Ends, ServerTyped
<1>2. /\ kept \in Seq(Nat) /\ Len(kept) \in Nat
      /\ \/ Len(kept) = Len(fresh) /\ Len(kept) < Window
         \/ Len(kept) = Len(fresh) - 1 /\ Len(fresh) = Window
      /\ \A i \in 1..Len(kept) : kept[i] = fresh[Len(fresh) - Len(kept) + i]
  BY RememberedIs
<1>3. fresh' = later /\ made' = made + 1
  BY DEF Changed
<1> HIDE DEF kept, l
<1>4. /\ Len(later) = Len(kept) + 1 /\ later[Len(kept) + 1] = l
      /\ \A i \in 1..Len(kept) : later[i] = kept[i]
  BY <1>1, <1>2, AppendProperties
<1>5. /\ longer \in Seq(Nat) /\ Len(longer) = Len(full) + 1 /\ longer[Len(full) + 1] = l
      /\ \A i \in 1..Len(full) : longer[i] = full[i]
  BY <1>1, AppendProperties DEF l
<1> HIDE DEF later
<1>6. Len(later) <= Len(longer) /\ (Len(later) = Len(longer) \/ Len(later) = Window)
  BY <1>1, <1>2, <1>4, <1>5
<1> DEFINE a == Len(full)
           b == Len(fresh)
           c == Len(kept)
<1>7. a \in Nat /\ b \in Nat /\ c \in Nat /\ b <= a /\ c <= b
  BY <1>1, <1>2
<1>8. /\ Len(longer) = a + 1 /\ Len(later) = c + 1 /\ longer[a + 1] = l /\ later[c + 1] = l
      /\ \A i \in 1..a : longer[i] = full[i]
      /\ \A i \in 1..b : fresh[i] = full[a - b + i]
      /\ \A i \in 1..c : later[i] = kept[i] /\ kept[i] = fresh[b - c + i]
  BY <1>1, <1>2, <1>4, <1>5
<1> HIDE DEF a, b, c
<1>9. ASSUME NEW i \in 1..Len(later) PROVE later[i] = longer[Len(longer) - Len(later) + i]
  <2>1. (a + 1) - (c + 1) + (c + 1) = a + 1
    BY <1>7
  <2>2. CASE i = c + 1
    BY <1>8, <2>1, <2>2
  <2>3. CASE i # c + 1
    <3>1. i \in 1..c
      BY <1>7, <1>8, <2>3
    <3>2. /\ b - c + i \in 1..b /\ a - b + (b - c + i) = a - c + i
          /\ a - c + i \in 1..a /\ (a + 1) - (c + 1) + i = a - c + i
      BY <1>7, <3>1
    <3>3. later[i] = full[a - c + i]
      BY <1>8, <3>1, <3>2
    <3>4. longer[a - c + i] = full[a - c + i]
      BY <1>8, <3>2
    <3> QED BY <1>8, <3>2, <3>3, <3>4
  <2> QED BY <2>2, <2>3
<1>10. Ends(later, longer)
  BY <1>6, <1>9 DEF Ends
<1>11. Len(longer) <= made'
  BY <1>1, <1>3, <1>5
<1> QED BY <1>3, <1>5, <1>6, <1>10, <1>11 DEF Recalls

\* What a step of the server leaves of a journal: one that goes on from it.
JournalKept(full) ==
    /\ asked' # Nobody => hist' # <<>>
    /\ \E later : /\ Recalls(later)'
                  /\ \E n : Numbered(n, down', made', hist', later)
                  /\ Timely(made, hist, full) \subseteq Timely(made', hist', later)

\* A change of the history and its news.
LEMMA JournalNews ==
    ASSUME Typed, NEW full, Journaled(full), NEW board \in Seq(Marks), NEW kind,
           Changed(board, kind), NEW f \in Heard,
           IsChange(f), f.ply = Len(board), Before(f) = Len(hist), Tell(<<f>>)
    PROVE  JournalKept(full)
<1>1. hist' = board /\ asked' = Nobody /\ made' = made + 1
  BY DEF Changed
<1>2. ServerTyped /\ Recalls(full) /\ Server(made, hist, full) /\ down \in Seq(Heard)
  BY ServerIs DEF Journaled, Typed
<1>3. PICK n : Numbered(n, down, made, hist, full)
  BY DEF Journaled
<1>4. PICK later : later = Append(full, Len(hist))
  OBVIOUS
<1>5. Recalls(later)'
  BY <1>2, <1>4, RecallsMore
<1>6. Timely(made, hist, full) \subseteq Timely(made', hist', later)
  BY <1>1, <1>2, <1>4, TimelyKept
<1>7. \E p : Numbered(p, down', made', hist', later)
  <2>1. CASE link = "open"
    <3>1. down' = down \o <<f>>
      BY <2>1 DEF Tell
    <3>2. \E p : Numbered(p, down \o <<f>>, made + 1, board, Append(full, Len(hist)))
      BY <1>2, <1>3, NumberedNews
    <3> QED BY <1>1, <1>4, <3>1, <3>2
  <2>2. CASE link # "open"
    <3>1. down' = <<>>
      BY <2>2 DEF Tell
    <3>2. Len(<<>>) = 0 /\ made + 1 \in Since(made + 1, later)
      <4>1. made \in Since(made, full)
        BY <1>2 DEF Server, Since
      <4> QED BY <1>2, <1>4, <4>1, PlyKept, EmptySeq
    <3>3. Numbered([i \in 0..0 |-> made + 1], <<>>, made + 1, board, later)
      BY <3>2 DEF Numbered
    <3> QED BY <1>1, <3>1, <3>3
  <2> QED BY <2>1, <2>2
<1> QED BY <1>1, <1>5, <1>6, <1>7 DEF JournalKept

LEMMA LandJournal ==
    ASSUME Typed, NEW full, Journaled(full), NEW mark \in Marks, Land(mark),
           Tell(<<News("move", mark)>>)
    PROVE  JournalKept(full)
<1> DEFINE board == Append(hist, mark)
           f == News("move", mark)
<1>1. ServerTyped /\ WireTyped
  BY DEF Typed
<1>2. board \in Seq(Marks) /\ Changed(board, "move") /\ f \in Heard
  BY <1>1, LandTyped
<1>3. Len(board) = Len(hist) + 1 /\ Len(hist) \in Nat
  BY <1>1, AppendProperties, LenProperties DEF ServerTyped
<1>4. hist' = board
  BY <1>2 DEF Changed
<1>5. IsChange(f) /\ f.ply = Len(board) /\ Before(f) = Len(hist)
  <2>1. f = Frame("move", Len(board), mark)
    BY <1>4 DEF News
  <2> HIDE DEF board
  <2> QED BY <1>3, <2>1 DEF Frame, IsChange, Before
<1>6. Tell(<<f>>)
  OBVIOUS
<1> HIDE DEF board, f
<1> QED BY <1>2, <1>5, <1>6, JournalNews

LEMMA UndoJournal ==
    ASSUME Typed, NEW full, Journaled(full), hist # <<>>, Undo
    PROVE  JournalKept(full)
<1> DEFINE board == Front(hist)
           f == News("back", NoMark)
<1>1. ServerTyped /\ WireTyped
  BY DEF Typed
<1>2. board \in Seq(Marks) /\ Changed(board, "back") /\ f \in Heard
  BY <1>1, UndoTyped
<1>3. Len(board) = Len(hist) - 1 /\ Len(hist) \in Nat
  BY <1>1, Fronted, LenProperties DEF ServerTyped
<1>4. hist' = board
  BY <1>2 DEF Changed
<1>5. IsChange(f) /\ f.ply = Len(board) /\ Before(f) = Len(hist)
  <2>1. f = Frame("back", Len(board), NoMark)
    BY <1>4 DEF News
  <2> HIDE DEF board
  <2> QED BY <1>3, <2>1 DEF Frame, IsChange, Before
<1>6. Tell(<<f>>)
  BY DEF Undo
<1> HIDE DEF board, f
<1> QED BY <1>2, <1>5, <1>6, JournalNews

\* Frames that tell of no change.
LEMMA WordsJournal ==
    ASSUME Typed, NEW full, Journaled(full), NEW w \in Seq(Heard),
           \A i \in 1..Len(w) : ~IsChange(w[i]), Tell(w),
           UNCHANGED <<hist, made, fresh>>, asked' # Nobody => hist # <<>>
    PROVE  JournalKept(full)
<1>1. Recalls(full) /\ Server(made, hist, full) /\ down \in Seq(Heard)
  BY ServerIs DEF Journaled
<1>2. PICK n : Numbered(n, down, made, hist, full)
  BY DEF Journaled
<1>3. \E p : Numbered(p, down \o w, made, hist, full)
  BY <1>1, <1>2, NumberedWords
<1>4. \E p : Numbered(p, <<>>, made, hist, full)
  BY <1>1, NumberedNone
<1>5. \E p : Numbered(p, down', made', hist', full)
  BY <1>3, <1>4 DEF Tell
<1>6. Recalls(full)' /\ Timely(made, hist, full) \subseteq Timely(made', hist', full)
  BY <1>1 DEF Recalls
<1> QED BY <1>5, <1>6 DEF JournalKept

\* Frames that are no changes, one or two of them.
LEMMA PlainWords ==
    ASSUME ServerTyped
    PROVE  /\ \A kind \in {"asks", "rejected"} :
                /\ <<Frame(kind, 0, NoMark)>> \in Seq(Heard)
                /\ \A i \in 1..Len(<<Frame(kind, 0, NoMark)>>) :
                     ~IsChange(<<Frame(kind, 0, NoMark)>>[i])
           /\ <<>> \in Seq(Heard) /\ \A i \in 1..Len(<<>>) : ~IsChange(<<>>[i])
           /\ \A q \in {Answers \o Directive, Answers \o <<>>} :
                q \in Seq(Heard) /\ \A i \in 1..Len(q) : ~IsChange(q[i])
<1>1. ASSUME NEW kind \in {"asks", "rejected"}
      PROVE  /\ <<Frame(kind, 0, NoMark)>> \in Seq(Heard)
             /\ \A i \in 1..Len(<<Frame(kind, 0, NoMark)>>) :
                  ~IsChange(<<Frame(kind, 0, NoMark)>>[i])
  <2> DEFINE f == Frame(kind, 0, NoMark)
  <2>1. f \in Heard
    BY WordFrame
  <2>2. ~IsChange(f)
    BY DEF Frame, IsChange
  <2> HIDE DEF f
  <2>3. <<f>> \in Seq(Heard) /\ \A i \in 1..Len(<<f>>) : ~IsChange(<<f>>[i])
    BY <2>1, <2>2
  <2> QED BY <2>3 DEF f
<1>2. <<>> \in Seq(Heard) /\ \A i \in 1..Len(<<>>) : ~IsChange(<<>>[i])
  BY EmptySeq
<1>3. Answers \in Seq(Heard) /\ Directive \in Seq(Heard)
  BY AnswersTyped
<1>4. /\ Len(Answers) = 1 /\ ~IsChange(Answers[1])
      /\ Len(Directive) = 1 /\ ~IsChange(Directive[1])
  BY DEF Answers, Directive, Frame, IsChange
<1>5. ASSUME NEW r \in {Directive, <<>>}
      PROVE  Answers \o r \in Seq(Heard) /\ \A i \in 1..Len(Answers \o r) : ~IsChange((Answers \o r)[i])
  <2> DEFINE q == Answers \o r
  <2>1. r \in Seq(Heard) /\ Len(r) \in Nat /\ \A i \in 1..Len(r) : ~IsChange(r[i])
    <3>1. CASE r = Directive
      <4>1. r \in Seq(Heard) /\ Len(r) = 1 /\ ~IsChange(r[1])
        BY <1>3, <1>4, <3>1
      <4> QED BY <4>1
    <3>2. CASE r = <<>>
      <4>1. r \in Seq(Heard) /\ Len(r) = 0
        BY <1>2, <3>2, EmptySeq
      <4> QED BY <4>1
    <3> QED BY <3>1, <3>2
  <2>2. /\ q \in Seq(Heard) /\ Len(q) = 1 + Len(r)
        /\ \A i \in 1..Len(q) : q[i] = IF i <= 1 THEN Answers[i] ELSE r[i - 1]
    BY <1>3, <1>4, <2>1, ConcatProperties
  <2> HIDE DEF q
  <2>3. ASSUME NEW i \in 1..Len(q) PROVE ~IsChange(q[i])
    <3>1. CASE i <= 1
      BY <1>4, <2>1, <2>2, <3>1
    <3>2. CASE i > 1
      <4>1. i - 1 \in 1..Len(r) /\ q[i] = r[i - 1]
        BY <2>1, <2>2, <3>2
      <4> QED BY <2>1, <4>1
    <3> QED BY <2>1, <2>2, <3>1, <3>2
  <2>4. q \in Seq(Heard) /\ \A i \in 1..Len(q) : ~IsChange(q[i])
    BY <2>2, <2>3
  <2> QED BY <2>4 DEF q
<1>6. ASSUME NEW q \in {Answers \o Directive, Answers \o <<>>}
      PROVE  q \in Seq(Heard) /\ \A i \in 1..Len(q) : ~IsChange(q[i])
  BY <1>5
<1> QED BY <1>1, <1>2, <1>6

LEMMA KeptJournal ==
    ASSUME NEW full, JournalKept(full), up' \in Seq(Sent \cup Timely(made, hist, full))
    PROVE  Journal'
<1>1. PICK later : /\ Recalls(later)'
                   /\ \E n : Numbered(n, down', made', hist', later)
                   /\ Timely(made, hist, full) \subseteq Timely(made', hist', later)
  BY DEF JournalKept
<1>2. Sent \cup Timely(made, hist, full) \subseteq Sent \cup Timely(made', hist', later)
  BY <1>1
<1>3. up' \in Seq(Sent \cup Timely(made', hist', later))
  BY <1>2, SeqMonotonic
<1>4. Journaled(later)'
  BY <1>1, <1>3 DEF Journaled
<1>5. (\E k : Journaled(k))'
  BY <1>4
<1> QED BY <1>5 DEF JournalKept, Journal

\* A journal stays one while the server's history and what is on its way stay the same, and
\* the heartbeats with it.
LEMMA SameJournal ==
    ASSUME Journal, NEW full, Recalls(full), UNCHANGED <<hist, asked, made, fresh>>,
           \E n : Numbered(n, down', made, hist, full),
           up' \in Seq(Sent \cup Timely(made, hist, full))
    PROVE  Journal'
<1>1. Journaled(full)'
  BY DEF Journaled, Recalls
<1>2. (\E k : Journaled(k))'
  BY <1>1
<1> QED BY <1>2 DEF Journal

LEMMA OpponentJournal ==
    ASSUME Typed, Journal,
           (\E mark \in Marks : OpponentMoves(mark)) \/ OpponentAsks \/ OpponentAccepts
    PROVE  Journal'
<1>0. PICK full : Journaled(full)
  BY DEF Journal
<1>1. ServerTyped /\ up \in Seq(Sent \cup Timely(made, hist, full))
  BY <1>0 DEF Typed, Journaled
<1>2. CASE \E mark \in Marks : OpponentMoves(mark)
  <2>1. PICK mark \in Marks : OpponentMoves(mark)
    BY <1>2
  <2>2. JournalKept(full) /\ up' = up
    BY <1>0, <2>1, LandJournal DEF OpponentMoves
  <2> QED BY <1>1, <2>2, KeptJournal
<1>3. CASE OpponentAsks
  <2>1. /\ hist # <<>> /\ Tell(<<Frame("asks", 0, NoMark)>>)
        /\ UNCHANGED <<hist, made, fresh, up>>
    BY <1>3 DEF OpponentAsks
  <2>2. JournalKept(full)
    BY <1>0, <1>1, <2>1, PlainWords, WordsJournal
  <2> QED BY <1>1, <2>1, <2>2, KeptJournal
<1>4. CASE OpponentAccepts
  <2>1. Undo /\ hist # <<>> /\ up' = up
    BY <1>4 DEF OpponentAccepts, Journal, Nobody
  <2>2. JournalKept(full)
    BY <1>0, <2>1, UndoJournal
  <2> QED BY <1>1, <2>1, <2>2, KeptJournal
<1> QED BY <1>2, <1>3, <1>4

\* The server takes the next frame; a heartbeat it answers with an order was sent by a client
\* that was behind.
LEMMA ReceiveJournal ==
    ASSUME Typed, Journal, Receive
    PROVE  Journal' /\ (shut' /\ ~shut => Head(up).behind \/ made - Head(up).told > Window)
<1>0. PICK full : Journaled(full)
  BY DEF Journal
<1> DEFINE f == Head(up)
           T == Sent \cup Timely(made, hist, full)
           Earned == f.behind \/ made - f.told > Window
<1>1. /\ up # <<>> /\ up' = Tail(up)
      /\ \/ f.kind = "move" /\ TakeMove(f)
         \/ f.kind = "request" /\ TakeRequest
         \/ f.kind = "answer" /\ TakeAnswer
         \/ f.kind = "ping" /\ TakePing(f)
  BY DEF Receive
<1>2. f \in T /\ up' \in Seq(T)
  <2> HIDE DEF T
  <2>1. up \in Seq(T)
    BY <1>0 DEF Journaled, T
  <2> QED BY <1>1, <2>1, Tailed
<1> HIDE DEF f
<1>3. /\ ServerTyped /\ (asked # Nobody => hist # <<>>) /\ shut \in BOOLEAN
  BY DEF Typed, Journal, ServerTyped
<1>4. f.kind = "move" => f.mark \in Marks
  BY <1>2 DEF Sent, Timely, Beats, Moves, Words
<1>5. JournalKept(full) /\ (shut' /\ ~shut => Earned)
  <2>1. CASE f.kind = "move" /\ TakeMove(f)
    <3>1. CASE MyTurn(hist)
      <4>1. Land(f.mark) /\ Tell(<<News("move", f.mark)>>) /\ shut' = shut
        BY <2>1, <3>1 DEF TakeMove
      <4> QED BY <1>0, <1>4, <2>1, <4>1, LandJournal
    <3>2. CASE ~MyTurn(hist)
      <4>1. Tell(<<Frame("rejected", 0, NoMark)>>) /\ UNCHANGED serverVars
        BY <2>1, <3>2 DEF TakeMove
      <4>2. UNCHANGED <<hist, made, fresh, shut, asked>>
        BY <4>1 DEF serverVars
      <4>3. JournalKept(full)
        BY <1>0, <1>3, <4>1, <4>2, PlainWords, WordsJournal
      <4> QED BY <4>2, <4>3
    <3> QED BY <3>1, <3>2
  <2>2. CASE TakeRequest
    <3>1. /\ Tell(<<>>) /\ UNCHANGED <<hist, made, fresh, shut>>
          /\ asked' # Nobody => hist # <<>>
      BY <1>3, <2>2 DEF TakeRequest
    <3>2. JournalKept(full)
      BY <1>0, <1>3, <3>1, PlainWords, WordsJournal
    <3> QED BY <3>1, <3>2
  <2>3. CASE TakeAnswer
    <3>1. CASE hist # <<>> /\ Undo /\ UNCHANGED <<strikes, shut>>
      BY <1>0, <3>1, UndoJournal
    <3>2. CASE Tell(<<>>) /\ UNCHANGED serverVars
      <4>1. UNCHANGED <<hist, made, fresh, shut, asked>>
        BY <3>2 DEF serverVars
      <4>2. JournalKept(full)
        BY <1>0, <1>3, <3>2, <4>1, PlainWords, WordsJournal
      <4> QED BY <4>1, <4>2
    <3> QED BY <2>3, <3>1, <3>2 DEF TakeAnswer
  <2>4. CASE f.kind = "ping" /\ TakePing(f)
    <3>1. UNCHANGED <<hist, asked, made, fresh>> /\ (Directs(f) \/ shut' = shut)
      BY <1>3, <2>4, PingTakes
    <3>2. JournalKept(full)
      <4>1. PICK q \in {Answers \o Directive, Answers \o <<>>} : Tell(q)
        BY <1>3, <2>4, PingTakes
      <4>2. q \in Seq(Heard) /\ \A i \in 1..Len(q) : ~IsChange(q[i])
        BY <1>3, PlainWords
      <4> QED BY <1>0, <1>3, <3>1, <4>1, <4>2, WordsJournal
    <3>3. ASSUME Directs(f) PROVE Earned
      <4>1. f \in Timely(made, hist, full)
        BY <1>2, <2>4 DEF Sent, Moves, Words
      <4>2. f.told \in Int /\ OnTime(f, made, hist, full)
        BY <4>1 DEF Timely, Beats
      <4>3. /\ Server(made, hist, full) /\ Recalls(full) /\ Ends(fresh, full)
            /\ made \in Nat /\ Len(full) \in Nat /\ fresh \in Seq(Nat) /\ Len(fresh) \in Nat
            /\ Len(fresh) = Len(full) \/ Len(fresh) = Window
        BY <1>0, ServerIs DEF Journaled, Recalls, Server
      <4>4. CASE f.told \in Since(made, fresh)
        <5>1. f.told < made => f.told + 1 \in Since(made, fresh)
          BY <4>2, <4>3, <4>4 DEF Since
        <5>2. ~(f.ply = PlyAt(f.told, made, hist, full))
          BY <1>3, <3>3, <4>3, <4>4, PlyFresh, PlyForgot DEF Directs
        <5>3. ~(f.told < made /\ f.ply = PlyAt(f.told + 1, made, hist, full))
          BY <1>3, <3>3, <4>3, <5>1, PlyFresh, PlyForgot DEF Directs
        <5> QED BY <4>2, <5>2, <5>3 DEF OnTime
      <4>5. CASE f.told \notin Since(made, fresh)
        BY <4>2, <4>3, <4>5 DEF OnTime, Since
      <4> QED BY <4>4, <4>5
    <3> QED BY <3>1, <3>2, <3>3
  <2> QED BY <1>1, <2>1, <2>2, <2>3, <2>4
<1>6. Journal'
  BY <1>2, <1>5, KeptJournal DEF T
<1> QED BY <1>5, <1>6 DEF f

LEMMA GateJournal ==
    ASSUME Typed, Journal, GateOpens \/ GraceEnds
    PROVE  Journal'
<1>0. PICK full : Journaled(full)
  BY DEF Journal
<1>1. CASE GateOpens
  BY <1>0, <1>1, SameJournal DEF GateOpens, Journaled
<1>2. CASE GraceEnds
  <2> DEFINE s == Tail(fresh)
  <2>1. /\ fresh # <<>> /\ fresh' = s /\ UNCHANGED <<hist, asked, made, up, down>>
        /\ made - Cardinality(Changes(down)) >= made - Len(fresh) + 1
        /\ \A i \in DOMAIN up : up[i].kind = "ping" => up[i].told >= made - Len(fresh) + 1
    BY <1>2 DEF GraceEnds
  <2>2. PICK n : Numbered(n, down, made, hist, full)
    BY <1>0 DEF Journaled
  <2>3. /\ Recalls(full) /\ Ends(fresh, full) /\ Server(made, hist, full) /\ down \in Seq(Heard)
        /\ made \in Nat /\ Len(full) \in Nat /\ Len(full) <= made /\ fresh \in Seq(Nat)
    BY <1>0, ServerIs DEF Journaled, Recalls, Server
  <2>4. /\ s \in Seq(Nat) /\ Len(fresh) \in Nat /\ Len(s) = Len(fresh) - 1 /\ Len(s) \in Nat
        /\ \A i \in 1..Len(s) : s[i] = fresh[i + 1]
    BY <2>1, <2>3, Tailed, LenProperties
  <2> HIDE DEF s
  <2>5. Ends(s, full)
    <3>1. /\ Len(fresh) <= Len(full)
          /\ \A i \in 1..Len(fresh) : fresh[i] = full[Len(full) - Len(fresh) + i]
      BY <2>3 DEF Ends
    <3>2. ASSUME NEW i \in 1..Len(s) PROVE s[i] = full[Len(full) - Len(s) + i]
      <4>1. i + 1 \in 1..Len(fresh)
            /\ Len(full) - Len(fresh) + (i + 1) = Len(full) - Len(s) + i
        BY <2>3, <2>4
      <4> QED BY <2>4, <3>1, <4>1
    <3>3. Len(s) <= Len(full)
      BY <2>3, <2>4, <3>1
    <3> QED BY <3>2, <3>3 DEF Ends
  <2>6. Numbered(n, down, made, hist, s)
    <3>1. n[0] \in Int /\ Cardinality(Changes(down)) = made - n[0]
      <4>1. 0 \in 0..Len(down)
        BY <2>3, LenProperties
      <4> QED BY <2>2, <2>3, <4>1, Counted
    <3>2. n[0] >= made - Len(s)
      BY <2>1, <2>3, <2>4, <3>1
    <3> QED BY <2>2, <2>3, <2>4, <2>5, <3>2, NumberedForgot
  <2>7. up \in Seq(Sent \cup Timely(made, hist, s))
    <3> DEFINE T == Sent \cup Timely(made, hist, full)
               S == Sent \cup Timely(made, hist, s)
    <3>1. up \in Seq(T)
      BY <1>0 DEF Journaled
    <3>2. ASSUME NEW i \in 1..Len(up) PROVE up[i] \in S
      <4>1. up[i] \in T
        <5> HIDE DEF T
        <5> QED BY <3>1, ElementOfSeq
      <4>2. CASE up[i] \in Timely(made, hist, full)
        <5>1. up[i].kind = "ping" /\ i \in DOMAIN up /\ up[i].told \in Int
          BY <3>1, <4>2, LenProperties DEF Timely, Beats
        <5>2. up[i].told >= made - Len(s)
          BY <2>1, <2>3, <2>4, <5>1
        <5> QED BY <2>3, <2>4, <2>5, <4>2, <5>2, TimelyForgot
      <4> QED BY <4>1, <4>2
    <3> HIDE DEF S, T
    <3>3. up \in Seq(S)
      BY <3>1, <3>2, InSeq
    <3> QED BY <3>3 DEF S
  <2>8. PICK rest : rest = s
    OBVIOUS
  <2>9. Ends(rest, rest) /\ Len(rest) <= made
    <3>1. \A i \in 1..Len(s) : Len(s) - Len(s) + i = i
      BY <2>4
    <3>2. Len(s) <= made
      BY <2>3, <2>4, <2>5 DEF Ends
    <3> QED BY <2>4, <2>8, <3>1, <3>2 DEF Ends
  <2>10. Recalls(rest)'
    BY <2>1, <2>4, <2>8, <2>9 DEF Recalls
  <2>11. Journaled(rest)'
    BY <2>1, <2>6, <2>7, <2>8, <2>10 DEF Journaled
  <2>12. (\E k : Journaled(k))'
    BY <2>11
  <2> QED BY <2>1, <2>12 DEF Journal
<1> QED BY <1>1, <1>2

LEMMA SendJournal ==
    ASSUME Journal, NEW f \in Sent, Send(f), UNCHANGED serverVars, UNCHANGED down
    PROVE  Journal'
<1>0. PICK full : Journaled(full)
  BY DEF Journal
<1> DEFINE T == Sent \cup Timely(made, hist, full)
<1>1. up \in Seq(T) /\ f \in T
  BY <1>0 DEF Journaled
<1> HIDE DEF T
<1>2. up' \in Seq(T)
  BY <1>1, AppendProperties DEF Send
<1> QED BY <1>0, <1>2, SameJournal DEF T, Journaled, serverVars

LEMMA PlayerJournal ==
    ASSUME Typed, Journal, (\E mark \in Marks : MyMove(mark)) \/ MyRequest \/ MyAnswer
    PROVE  Journal'
<1>1. CASE \E mark \in Marks : MyMove(mark)
  BY <1>1, MoveFrame, SendJournal DEF MyMove
<1>2. CASE MyRequest
  BY <1>2, WordFrame, SendJournal DEF MyRequest
<1>3. CASE MyAnswer
  BY <1>3, WordFrame, SendJournal DEF MyAnswer
<1> QED BY <1>1, <1>2, <1>3

\* A heartbeat names the plies of the last change its client was told of, or of the next one.
LEMMA PingJournal ==
    ASSUME Typed, Journal, Ping
    PROVE  Journal'
<1>0. PICK full : Journaled(full)
  BY DEF Journal
<1>1. up' = Append(up, Beat) /\ Beat \in Beats /\ UNCHANGED <<hist, asked, made, fresh, down>>
  BY PingTyped DEF serverVars
<1>2. PICK n : Numbered(n, down, made, hist, full)
  BY <1>0 DEF Journaled
<1>3. /\ Server(made, hist, full) /\ made \in Nat /\ view \in Views /\ HoldsFor(view)
      /\ down \in Seq(Heard) /\ Len(down) \in Nat
  BY <1>0, ServerIs, LenProperties DEF Server, Journaled, Typed, ViewTyped
<1>4. /\ \A k \in 0..Len(down) : n[k] \in Int /\ n[k] >= n[0] /\ n[k] <= made
      /\ \A k \in 0..Len(down) : (\A i \in 1..k : ~IsChange(down[i])) => n[k] = n[0]
      /\ Cardinality(Changes(down)) = made - n[0]
  BY <1>2, <1>3, Counted
<1>5. n[0] \in Int /\ n[0] \in Since(made, full)
  <2>1. 0 \in 0..Len(down) /\ n \in [0..Len(down) -> Since(made, full)]
    BY <1>2, <1>3 DEF Numbered
  <2> QED BY <1>4, <2>1
<1>6. Beat.told = n[0] /\ Beat.ply = Len(view.board) /\ Beat.behind = Behind
  BY <1>3, <1>4, <1>5 DEF Beat
<1>7. ASSUME ~Behind
      PROVE  \/ Len(view.board) = PlyAt(n[0], made, hist, full)
             \/ n[0] < made /\ Len(view.board) = PlyAt(n[0] + 1, made, hist, full)
  <2>1. ~Told(view, down).syncing /\ Len(Told(view, down).board) = Len(hist)
    BY <1>7 DEF Behind, Told
  <2>2. CASE Told(view, down).board = view.board /\ \A i \in 1..Len(down) : ~IsChange(down[i])
    <3>1. n[0] = made
      BY <1>2, <1>3, <1>4, <2>2 DEF Numbered
    <3> QED BY <2>1, <2>2, <3>1 DEF PlyAt
  <2>3. ASSUME NEW i \in 1..Len(down), IsChange(down[i]),
               \A j \in 1..(i - 1) : ~IsChange(down[j]),
               Len(view.board) \in {Before(down[i]), down[i].ply}
        PROVE  \/ Len(view.board) = PlyAt(n[0], made, hist, full)
               \/ n[0] < made /\ Len(view.board) = PlyAt(n[0] + 1, made, hist, full)
    <3>1. i - 1 \in 0..Len(down) /\ i \in 0..Len(down)
      BY <1>3
    <3>2. n[i - 1] = n[0] /\ n[i] \in Int /\ n[i] <= made
      BY <1>4, <2>3, <3>1
    <3>3. n[i - 1] = n[i] - 1 /\ down[i].ply = PlyAt(n[i], made, hist, full)
          /\ Before(down[i]) = PlyAt(n[i] - 1, made, hist, full)
      BY <1>2, <2>3 DEF Numbered
    <3>4. n[i] = n[0] + 1 /\ n[i] - 1 = n[0] /\ n[0] < made
      BY <1>3, <1>5, <3>2, <3>3
    <3> QED BY <2>3, <3>3, <3>4
  <2> QED BY <1>3, <2>1, <2>2, <2>3, Crossed
<1>8. OnTime(Beat, made, hist, full)
  <2> HIDE DEF Beat
  <2> QED BY <1>5, <1>6, <1>7 DEF OnTime
<1>9. up' \in Seq(Sent \cup Timely(made, hist, full))
  <2> DEFINE T == Sent \cup Timely(made, hist, full)
  <2>1. up \in Seq(T) /\ Beat \in T
    BY <1>0, <1>1, <1>8 DEF Journaled, Timely
  <2> HIDE DEF T
  <2>2. up' \in Seq(T)
    BY <1>1, <2>1, AppendProperties
  <2> QED BY <2>2 DEF T
<1> QED BY <1>0, <1>1, <1>2, <1>9, SameJournal DEF Journaled

LEMMA WireJournal ==
    ASSUME Typed, Journal,
           Deliver \/ (\E i \in DOMAIN fetches : Serve(i) \/ Fetched(i))
           \/ Drop \/ Timeout \/ Lose \/ Resume \/ Connect
    PROVE  Journal'
<1>0. PICK full : Journaled(full)
  BY DEF Journal
<1>1. /\ Recalls(full) /\ Server(made, hist, full) /\ down \in Seq(Heard)
      /\ \E n : Numbered(n, down, made, hist, full)
      /\ up \in Seq(Sent \cup Timely(made, hist, full))
  BY <1>0, ServerIs DEF Journaled
<1>2. CASE Deliver
  <2>1. down # <<>> /\ down' = Tail(down) /\ UNCHANGED <<hist, asked, made, fresh, up>>
    BY <1>2 DEF Deliver, serverVars
  <2>2. \E p : Numbered(p, Tail(down), made, hist, full)
    BY <1>1, <2>1, NumberedTail
  <2> QED BY <1>1, <2>1, <2>2, SameJournal
<1>3. CASE \E i \in DOMAIN fetches : Serve(i) \/ Fetched(i)
  BY <1>1, <1>3, SameJournal DEF Serve, Fetched, serverVars
<1>4. CASE Drop \/ Timeout
  <2>1. down' = <<>> /\ UNCHANGED <<hist, asked, made, fresh, up>>
    BY <1>4 DEF Drop, Timeout, serverVars
  <2>2. \E p : Numbered(p, <<>>, made, hist, full)
    BY <1>1, NumberedNone
  <2> QED BY <1>1, <2>1, <2>2, SameJournal
<1>5. CASE Lose
  BY <1>1, <1>5, EmptySeq, SameJournal DEF Lose, serverVars
<1>6. CASE Resume
  BY <1>1, <1>6, SameJournal DEF Resume
<1>7. CASE Connect
  <2>1. up' = outbox /\ UNCHANGED <<hist, asked, made, fresh, down>>
    BY <1>7 DEF Connect
  <2>2. up' \in Seq(Sent \cup Timely(made, hist, full))
    BY <2>1, SeqMonotonic DEF Typed, WireTyped
  <2> QED BY <1>1, <2>1, <2>2, SameJournal
<1> QED BY <1>2, <1>3, <1>4, <1>5, <1>6, <1>7

LEMMA JournalInit == Init => Journal
<1> SUFFICES ASSUME Init PROVE Journal
  OBVIOUS
<1>1. /\ asked = Nobody /\ down = <<>> /\ up = <<>> /\ made = 0 /\ fresh = <<>>
      /\ hist \in Seq(Marks)
  BY DEF Init
<1>2. /\ <<>> \in Seq(Nat) /\ Len(<<>>) = 0
  BY EmptySeq
<1>3. Server(0, hist, <<>>)
  BY <1>1, <1>2 DEF Server
<1>4. Recalls(<<>>)
  BY <1>1, <1>2 DEF Recalls, Ends
<1>5. Journaled(<<>>)
  BY <1>1, <1>3, <1>4, NumberedNone, EmptySeq DEF Journaled
<1> QED BY <1>1, <1>5 DEF Journal

LEMMA JournalStep == Typed /\ Journal /\ [Next]_vars => Journal'
<1> SUFFICES ASSUME Typed, Journal, [Next]_vars PROVE Journal'
  OBVIOUS
<1>1. CASE UNCHANGED vars
  BY <1>1 DEF vars, serverVars, Journal, Journaled, Recalls
<1>2. CASE Next
  BY <1>2, OpponentJournal, ReceiveJournal, GateJournal, PlayerJournal, PingJournal, WireJournal
     DEF Next
<1> QED BY <1>1, <1>2

LEMMA JournalAlways == Spec => [](Typed /\ Journal)
<1>1. Init => Typed /\ Journal
  BY TypedInit, JournalInit
<1>2. Typed /\ Journal /\ [Next]_vars => (Typed /\ Journal)'
  BY TypedStep, JournalStep
<1> QED BY <1>1, <1>2, PTL DEF Spec

\* The state is well formed: a heartbeat never counts more changes than were made.
THEOREM SyncTypeOK == Spec => []TypeOK
<1>1. Typed /\ Journal => TypeOK
  <2> SUFFICES ASSUME Typed, Journal PROVE TypeOK
    OBVIOUS
  <2>0. PICK full : Journaled(full)
    BY DEF Journal
  <2>1. Timely(made, hist, full) \subseteq Pings
    <3> SUFFICES ASSUME NEW f \in Timely(made, hist, full) PROVE f \in Pings
      OBVIOUS
    <3>1. f \in Beats /\ f.told \in Since(made, full) /\ Server(made, hist, full)
      BY <2>0, ServerIs DEF Timely, OnTime, Journaled
    <3>2. f.told \in Nat
      BY <3>1 DEF Since, Server
    <3> QED BY <3>1, <3>2 DEF Beats, Pings
  <2>2. up \in Seq(Sent \cup Pings)
    <3>1. Sent \cup Timely(made, hist, full) \subseteq Sent \cup Pings
      BY <2>1
    <3> QED BY <2>0, <3>1, SeqMonotonic DEF Journaled
  <2> QED BY <2>2 DEF Typed, ServerTyped, ViewTyped, WireTyped, Views, HoldsFor, Fetches, TypeOK
<1> QED BY <1>1, JournalAlways, PTL

\* handle_ping: an order to rebuild answers a heartbeat of a client that was rebuilding or wrong
\* when it sent it, or that crossed more changes than the server remembers, whatever the two
\* sides and the network do in between.
THEOREM OrdersEarned == Spec => OrdersAreEarned
<1>1. Typed /\ Journal /\ [Next]_vars => [shut' /\ ~shut => Head(up).behind \/ made - Head(up).told > Window]_vars
  <2> SUFFICES ASSUME Typed, Journal, Next, shut', ~shut
               PROVE  Head(up).behind \/ made - Head(up).told > Window
    BY DEF vars, serverVars
  <2>1. CASE Receive
    BY <2>1, ReceiveJournal
  <2>2. CASE ~Receive
    <3>1. shut' = shut \/ shut' = FALSE
      BY <2>2 DEF Next, OpponentMoves, MyMove, OpponentAsks, OpponentAccepts, GateOpens, GraceEnds,
         MyRequest, MyAnswer, Ping, Deliver, Serve, Fetched, Drop, Timeout, Lose, Resume, Connect,
         serverVars
    <3> QED BY <3>1
  <2> QED BY <2>1, <2>2
<1>2. Spec => [][Typed /\ Journal /\ [Next]_vars]_vars
  BY JournalAlways, PTL DEF Spec
<1> QED BY <1>1, JournalAlways, PTL DEF Spec, OrdersAreEarned

-----------------------------------------------------------------------------
(* The course: what the plies of the frames held and on their way lead to.  Here q is these  *)
(* frames, h the history of the server, and B a board of the client.                         *)

\* a[i] plies are on a board that has followed the first i frames of q; what they leave h with
\* is what they said.
Course(q, a, h) ==
    /\ a \in [0..Len(q) -> Nat] /\ a[Len(q)] = Len(h)
    /\ \A i \in 1..Len(q) : a[i - 1] = IF IsChange(q[i]) THEN Before(q[i]) ELSE a[i]
    /\ \A i \in 1..Len(q) : IsChange(q[i]) => a[i] = q[i].ply
    /\ \A i \in 1..Len(q) :
         q[i].kind = "move" /\ (\A j \in i..Len(q) : q[i].ply <= a[j]) => h[q[i].ply] = q[i].mark

\* B stands where the first m frames lead, with every ply that outlives the rest.
Agrees(q, a, h, B, m) ==
    /\ Len(B) = a[m]
    /\ \A x \in 1..Len(B) : (\A i \in m..Len(q) : x <= a[i]) => B[x] = h[x]

Along(q, a, h, B) == \E m \in 0..Len(q) : Agrees(q, a, h, B, m)

LEMMA CourseIs ==
    ASSUME NEW q \in Seq(Heard), NEW a, NEW h \in Seq(Marks), Course(q, a, h)
    PROVE  /\ Len(q) \in Nat /\ Len(h) \in Nat
           /\ \A i \in 0..Len(q) : a[i] \in Nat
           /\ \A i \in 1..Len(q) : q[i] \in Heard /\ q[i].ply \in Nat
BY LenProperties, ElementOfSeq, HeardIs DEF Course

\* A course goes on with the news of a change, or with frames that tell of none.
LEMMA CourseGoesOn ==
    ASSUME NEW q \in Seq(Heard), NEW a, NEW h \in Seq(Marks), Course(q, a, h),
           NEW g \in Seq(Marks), \A x \in 1..Len(g) : x <= Len(h) => g[x] = h[x],
           NEW r \in Seq(Heard), Len(q) <= Len(r), \A i \in 1..Len(q) : r[i] = q[i],
           NEW b \in [0..Len(r) -> Nat], \A i \in 0..Len(q) : b[i] = a[i], b[Len(r)] = Len(g),
           \A i \in (Len(q) + 1)..Len(r) :
              /\ b[i - 1] = IF IsChange(r[i]) THEN Before(r[i]) ELSE b[i]
              /\ IsChange(r[i]) => b[i] = r[i].ply
              /\ r[i].kind = "move" => g[r[i].ply] = r[i].mark
    PROVE  Course(r, b, g) /\ \A B \in Seq(Marks) : Along(q, a, h, B) => Along(r, b, g, B)
<1>1. /\ Len(q) \in Nat /\ Len(h) \in Nat /\ Len(r) \in Nat /\ Len(g) \in Nat
      /\ \A i \in 0..Len(q) : a[i] \in Nat
      /\ \A i \in 1..Len(q) : q[i].ply \in Nat
  BY CourseIs, LenProperties
<1>2. a[Len(q)] = Len(h) /\ Len(q) \in 0..Len(r) /\ Len(r) \in 0..Len(r)
  BY <1>1 DEF Course
<1>3. ASSUME NEW m \in 0..Len(q), NEW x \in Nat, \A i \in m..Len(r) : x <= b[i]
      PROVE  x <= Len(h) /\ x <= Len(g) /\ \A i \in m..Len(q) : x <= a[i]
  <2>1. \A i \in m..Len(q) : i \in m..Len(r) /\ i \in 0..Len(q)
    BY <1>1
  <2>2. \A i \in m..Len(q) : x <= a[i]
    BY <1>3, <2>1
  <2>3. Len(q) \in m..Len(q) /\ Len(r) \in m..Len(r)
    BY <1>1
  <2> QED BY <1>2, <1>3, <2>2, <2>3
<1>4. ASSUME NEW i \in 1..Len(r)
      PROVE  /\ b[i - 1] = IF IsChange(r[i]) THEN Before(r[i]) ELSE b[i]
             /\ IsChange(r[i]) => b[i] = r[i].ply
  <2>1. CASE i \in 1..Len(q)
    <3>1. r[i] = q[i] /\ b[i] = a[i] /\ b[i - 1] = a[i - 1]
      BY <1>1, <2>1
    <3> QED BY <2>1, <3>1 DEF Course
  <2>2. CASE i \in (Len(q) + 1)..Len(r)
    BY <2>2
  <2> QED BY <1>1, <2>1, <2>2
<1>5. ASSUME NEW i \in 1..Len(r), r[i].kind = "move", \A j \in i..Len(r) : r[i].ply <= b[j]
      PROVE  g[r[i].ply] = r[i].mark
  <2>1. CASE i \in 1..Len(q)
    <3>1. r[i] = q[i] /\ q[i].ply \in Nat /\ i \in 0..Len(q) /\ IsChange(q[i])
      BY <1>1, <1>5, <2>1 DEF IsChange
    <3>2. q[i].ply <= Len(h) /\ q[i].ply <= Len(g) /\ \A j \in i..Len(q) : q[i].ply <= a[j]
      BY <1>3, <1>5, <3>1
    <3>3. h[q[i].ply] = q[i].mark
      BY <1>5, <2>1, <3>1, <3>2 DEF Course
    <3>4. q[i].ply = Before(q[i]) + 1 /\ Before(q[i]) = a[i - 1] /\ a[i - 1] \in Nat
      BY <1>1, <1>5, <2>1, <3>1 DEF Course, Before
    <3>5. q[i].ply \in 1..Len(g)
      BY <1>1, <3>1, <3>2, <3>4
    <3> QED BY <3>1, <3>2, <3>3, <3>5
  <2>2. CASE i \in (Len(q) + 1)..Len(r)
    BY <1>5, <2>2
  <2> QED BY <1>1, <2>1, <2>2
<1>6. Course(r, b, g)
  BY <1>4, <1>5 DEF Course
<1>7. ASSUME NEW B \in Seq(Marks), NEW m \in 0..Len(q), Agrees(q, a, h, B, m)
      PROVE  m \in 0..Len(r) /\ Agrees(r, b, g, B, m)
  <2>1. m \in 0..Len(r) /\ Len(B) = b[m] /\ Len(B) \in Nat
    BY <1>1, <1>7, LenProperties DEF Agrees
  <2>2. ASSUME NEW x \in 1..Len(B), \A i \in m..Len(r) : x <= b[i]
        PROVE  B[x] = g[x]
    <3>1. x <= Len(h) /\ x <= Len(g) /\ \A i \in m..Len(q) : x <= a[i]
      BY <1>3, <2>1, <2>2
    <3>2. B[x] = h[x]
      BY <1>7, <3>1 DEF Agrees
    <3>3. x \in 1..Len(g)
      BY <1>1, <2>1, <3>1
    <3> QED BY <3>1, <3>2, <3>3
  <2> QED BY <2>1, <2>2 DEF Agrees
<1> QED BY <1>6, <1>7 DEF Along

LEMMA CourseNews ==
    ASSUME NEW q \in Seq(Heard), NEW a, NEW h \in Seq(Marks), Course(q, a, h),
           NEW g \in Seq(Marks), \A x \in 1..Len(g) : x <= Len(h) => g[x] = h[x],
           NEW f \in Heard, IsChange(f), f.ply = Len(g), Before(f) = Len(h),
           f.kind = "move" => g[f.ply] = f.mark
    PROVE  \E b : /\ Course(q \o <<f>>, b, g)
                  /\ \A B \in Seq(Marks) : Along(q, a, h, B) => Along(q \o <<f>>, b, g, B)
<1> DEFINE r == q \o <<f>>
           b == [i \in 0..Len(r) |-> IF i <= Len(q) THEN a[i] ELSE Len(g)]
<1>1. Len(q) \in Nat /\ Len(h) \in Nat /\ Len(g) \in Nat /\ a[Len(q)] = Len(h)
      /\ \A i \in 0..Len(q) : a[i] \in Nat
  BY CourseIs, LenProperties DEF Course
<1>2. r \in Seq(Heard) /\ Len(r) = Len(q) + 1 /\ r[Len(q) + 1] = f
      /\ \A i \in 1..Len(q) : r[i] = q[i]
  <2>1. <<f>> \in Seq(Heard) /\ Len(<<f>>) = 1 /\ <<f>>[1] = f
    OBVIOUS
  <2>2. /\ r \in Seq(Heard) /\ Len(r) = Len(q) + 1
        /\ \A i \in 1..Len(r) : r[i] = IF i <= Len(q) THEN q[i] ELSE <<f>>[i - Len(q)]
    BY <2>1, ConcatProperties
  <2> HIDE DEF r
  <2>3. Len(q) + 1 \in 1..Len(r) /\ ~(Len(q) + 1 <= Len(q)) /\ Len(q) + 1 - Len(q) = 1
    BY <1>1, <2>2
  <2> QED BY <1>1, <2>1, <2>2, <2>3
<1> HIDE DEF r
<1>3. /\ b \in [0..Len(r) -> Nat] /\ b[Len(r)] = Len(g)
      /\ \A i \in 0..Len(q) : b[i] = a[i]
  BY <1>1, <1>2
<1> HIDE DEF b
<1>4. \A i \in (Len(q) + 1)..Len(r) :
         /\ b[i - 1] = IF IsChange(r[i]) THEN Before(r[i]) ELSE b[i]
         /\ IsChange(r[i]) => b[i] = r[i].ply
         /\ r[i].kind = "move" => g[r[i].ply] = r[i].mark
  <2> TAKE i \in (Len(q) + 1)..Len(r)
  <2>1. i = Len(q) + 1 /\ i - 1 = Len(q) /\ Len(q) \in 0..Len(q)
    BY <1>1, <1>2
  <2>2. r[i] = f /\ b[i] = Len(g) /\ b[i - 1] = Len(h)
    BY <1>1, <1>2, <1>3, <2>1
  <2> QED BY <2>2
<1>5. Len(q) <= Len(r)
  BY <1>1, <1>2
<1>6. Course(r, b, g) /\ \A B \in Seq(Marks) : Along(q, a, h, B) => Along(r, b, g, B)
  BY <1>2, <1>3, <1>4, <1>5, CourseGoesOn
<1> QED BY <1>6 DEF r

LEMMA CourseWords ==
    ASSUME NEW q \in Seq(Heard), NEW a, NEW h \in Seq(Marks), Course(q, a, h),
           NEW w \in Seq(Heard), \A i \in 1..Len(w) : ~IsChange(w[i])
    PROVE  \E b : /\ Course(q \o w, b, h)
                  /\ \A B \in Seq(Marks) : Along(q, a, h, B) => Along(q \o w, b, h, B)
<1> DEFINE r == q \o w
           b == [i \in 0..Len(r) |-> IF i <= Len(q) THEN a[i] ELSE Len(h)]
<1>1. Len(q) \in Nat /\ Len(w) \in Nat /\ Len(h) \in Nat /\ a[Len(q)] = Len(h)
      /\ \A i \in 0..Len(q) : a[i] \in Nat
  BY CourseIs, LenProperties DEF Course
<1>2. /\ r \in Seq(Heard) /\ Len(r) = Len(q) + Len(w)
      /\ \A i \in 1..Len(r) : r[i] = IF i <= Len(q) THEN q[i] ELSE w[i - Len(q)]
  BY ConcatProperties
<1> HIDE DEF r
<1>3. /\ b \in [0..Len(r) -> Nat] /\ b[Len(r)] = Len(h)
      /\ \A i \in 0..Len(q) : b[i] = a[i]
      /\ \A i \in Len(q)..Len(r) : b[i] = Len(h)
  BY <1>1, <1>2
<1> HIDE DEF b
<1>4. \A i \in (Len(q) + 1)..Len(r) :
         /\ b[i - 1] = IF IsChange(r[i]) THEN Before(r[i]) ELSE b[i]
         /\ IsChange(r[i]) => b[i] = r[i].ply
         /\ r[i].kind = "move" => h[r[i].ply] = r[i].mark
  <2> TAKE i \in (Len(q) + 1)..Len(r)
  <2>1. i \in Len(q)..Len(r) /\ i - 1 \in Len(q)..Len(r) /\ i - Len(q) \in 1..Len(w)
        /\ i \in 1..Len(r) /\ ~(i <= Len(q))
    BY <1>1, <1>2
  <2>2. ~IsChange(r[i]) /\ b[i] = b[i - 1]
    BY <1>2, <1>3, <2>1
  <2> QED BY <2>2 DEF IsChange
<1>5. Len(q) <= Len(r) /\ \A i \in 1..Len(q) : r[i] = q[i]
  <2>1. Len(q) <= Len(r) /\ \A i \in 1..Len(q) : i \in 1..Len(r) /\ i <= Len(q)
    BY <1>1, <1>2
  <2> QED BY <1>2, <2>1
<1>6. Course(r, b, h) /\ \A B \in Seq(Marks) : Along(q, a, h, B) => Along(r, b, h, B)
  BY <1>2, <1>3, <1>4, <1>5, CourseGoesOn
<1> QED BY <1>6 DEF r

\* A frame that tells of no change makes no difference when it is gone.
LEMMA CoursePassed ==
    ASSUME NEW q \in Seq(Heard), NEW a, NEW h \in Seq(Marks), Course(q, a, h),
           NEW k \in 1..Len(q), ~IsChange(q[k]),
           NEW r \in Seq(Heard), Len(r) = Len(q) - 1,
           \A i \in 1..Len(r) : r[i] = IF i < k THEN q[i] ELSE q[i + 1]
    PROVE  \E b : /\ Course(r, b, h)
                  /\ \A B \in Seq(Marks) : Along(q, a, h, B) => Along(r, b, h, B)
<1> DEFINE b == [i \in 0..Len(r) |-> IF i < k THEN a[i] ELSE a[i + 1]]
<1>1. /\ Len(q) \in Nat /\ Len(h) \in Nat /\ Len(r) \in Nat /\ k \in Nat
      /\ \A i \in 0..Len(q) : a[i] \in Nat
      /\ \A i \in 1..Len(q) : q[i].ply \in Nat
  BY CourseIs, LenProperties
<1>2. a[k - 1] = a[k] /\ a[Len(q)] = Len(h)
  BY DEF Course
<1>3. /\ b \in [0..Len(r) -> Nat]
      /\ \A i \in 0..Len(r) : b[i] = IF i < k THEN a[i] ELSE a[i + 1]
      /\ b[Len(r)] = Len(h)
  <2>1. \A i \in 0..Len(r) : i \in 0..Len(q) /\ i + 1 \in 0..Len(q)
    BY <1>1
  <2>2. b \in [0..Len(r) -> Nat] /\ \A i \in 0..Len(r) : b[i] = IF i < k THEN a[i] ELSE a[i + 1]
    BY <1>1, <2>1
  <2> HIDE DEF b
  <2>3. Len(r) \in 0..Len(r) /\ Len(r) + 1 = Len(q) /\ (Len(r) < k => Len(r) = k - 1 /\ k = Len(q))
    BY <1>1
  <2> QED BY <1>2, <2>2, <2>3
<1> HIDE DEF b
\* What holds of all that is left of r holds of all that is left of q.
<1>4. ASSUME NEW m \in 0..Len(r), NEW p \in 0..Len(q), p = IF m < k THEN m ELSE m + 1,
             NEW x \in Nat, \A i \in m..Len(r) : x <= b[i]
      PROVE  \A i \in p..Len(q) : x <= a[i]
  <2> TAKE i \in p..Len(q)
  <2>1. CASE i < k
    <3>1. i \in m..Len(r) /\ i \in 0..Len(r) /\ b[i] = a[i]
      BY <1>1, <1>3, <1>4, <2>1
    <3> QED BY <1>4, <3>1
  <2>2. CASE i > k
    <3>1. i - 1 \in m..Len(r) /\ i - 1 \in 0..Len(r) /\ ~(i - 1 < k) /\ (i - 1) + 1 = i
      BY <1>1, <1>4, <2>2
    <3>2. b[i - 1] = a[i]
      BY <1>3, <3>1
    <3> QED BY <1>4, <3>1, <3>2
  <2>3. CASE i = k
    <3>1. k - 1 \in m..Len(r) /\ k - 1 \in 0..Len(r) /\ k - 1 < k
      BY <1>1, <1>4, <2>3
    <3>2. b[k - 1] = a[k - 1]
      BY <1>3, <3>1
    <3> QED BY <1>2, <1>4, <2>3, <3>1, <3>2
  <2> QED BY <1>1, <2>1, <2>2, <2>3
<1>5. ASSUME NEW i \in 1..Len(r)
      PROVE  /\ b[i - 1] = IF IsChange(r[i]) THEN Before(r[i]) ELSE b[i]
             /\ IsChange(r[i]) => b[i] = r[i].ply
             /\ r[i].kind = "move" /\ (\A j \in i..Len(r) : r[i].ply <= b[j]) => h[r[i].ply] = r[i].mark
  <2>1. CASE i < k
    <3>0. i \in 1..Len(q) /\ i \in 0..Len(r) /\ i \in 0..Len(q) /\ i - 1 \in 0..Len(r) /\ i - 1 < k
      BY <1>1, <2>1
    <3>1. r[i] = q[i] /\ b[i] = a[i] /\ b[i - 1] = a[i - 1]
      BY <1>3, <2>1, <3>0
    <3>2. ASSUME \A j \in i..Len(r) : r[i].ply <= b[j] PROVE \A j \in i..Len(q) : q[i].ply <= a[j]
      BY <1>1, <1>4, <2>1, <3>0, <3>1, <3>2
    <3> QED BY <3>0, <3>1, <3>2 DEF Course
  <2>2. CASE i >= k
    <3>1. r[i] = q[i + 1] /\ b[i] = a[i + 1] /\ i + 1 \in 1..Len(q) /\ i \in 0..Len(r)
          /\ i + 1 \in 0..Len(q)
      BY <1>1, <1>3, <2>2
    <3>2. b[i - 1] = a[(i + 1) - 1]
      <4>1. i - 1 \in 0..Len(r) /\ (i + 1) - 1 = i /\ (i - 1) + 1 = i /\ (i - 1 < k => i = k)
        BY <1>1, <2>2
      <4> QED BY <1>2, <1>3, <4>1
    <3>3. ASSUME \A j \in i..Len(r) : r[i].ply <= b[j]
          PROVE  \A j \in (i + 1)..Len(q) : q[i + 1].ply <= a[j]
      <4>1. r[i].ply \in Nat /\ (i + 1 = IF i < k THEN i ELSE i + 1)
        BY <1>1, <2>2, <3>1
      <4>2. \A j \in (i + 1)..Len(q) : r[i].ply <= a[j]
        BY <1>4, <3>1, <3>3, <4>1
      <4> QED BY <3>1, <4>2
    <3> QED BY <3>1, <3>2, <3>3 DEF Course
  <2> QED BY <1>1, <2>1, <2>2
<1>6. Course(r, b, h)
  BY <1>3, <1>5 DEF Course
<1>7. ASSUME NEW B \in Seq(Marks), NEW m \in 0..Len(q), Agrees(q, a, h, B, m)
      PROVE  Along(r, b, h, B)
  <2> DEFINE p == IF m < k THEN m ELSE m - 1
  <2>1. p \in 0..Len(r) /\ Len(B) \in Nat
    BY <1>1, LenProperties
  <2>2. b[p] = a[m]
    <3>1. CASE m < k
      BY <1>3, <2>1, <3>1
    <3>2. CASE m = k
      BY <1>1, <1>2, <1>3, <2>1, <3>2
    <3>3. CASE m > k
      <4>1. p = m - 1 /\ ~(p < k) /\ p + 1 = m
        BY <1>1, <3>3
      <4> HIDE DEF p
      <4> QED BY <1>3, <2>1, <4>1
    <3> QED BY <1>1, <3>1, <3>2, <3>3
  <2>3. ASSUME NEW x \in 1..Len(B), \A i \in p..Len(r) : x <= b[i]
        PROVE  B[x] = h[x]
    <3> DEFINE s == IF p < k THEN p ELSE p + 1
    <3>1. s \in 0..Len(q) /\ s <= m /\ x \in Nat /\ (s = IF p < k THEN p ELSE p + 1)
      BY <1>1, <2>1
    <3> HIDE DEF p, s
    <3>2. \A i \in s..Len(q) : x <= a[i]
      BY <1>4, <2>1, <2>3, <3>1
    <3>3. \A i \in m..Len(q) : x <= a[i]
      <4>1. \A i \in m..Len(q) : i \in s..Len(q)
        BY <1>1, <3>1
      <4> QED BY <3>2, <4>1
    <3> QED BY <1>7, <3>3 DEF Agrees
  <2> HIDE DEF p
  <2>4. Agrees(r, b, h, B, p)
    BY <1>7, <2>2, <2>3 DEF Agrees
  <2> QED BY <2>1, <2>4 DEF Along
<1> QED BY <1>6, <1>7 DEF Along

\* Nor does what comes before a place on the course, to a board that has got there.
LEMMA CourseLater ==
    ASSUME NEW q \in Seq(Heard), NEW a, NEW h \in Seq(Marks), Course(q, a, h),
           NEW k \in 0..Len(q), NEW r \in Seq(Heard), Len(r) = Len(q) - k,
           \A i \in 1..Len(r) : r[i] = q[i + k]
    PROVE  \E b : /\ Course(r, b, h)
                  /\ \A B \in Seq(Marks), m \in k..Len(q) : Agrees(q, a, h, B, m) => Along(r, b, h, B)
<1> DEFINE b == [i \in 0..Len(r) |-> a[i + k]]
<1>1. /\ Len(q) \in Nat /\ Len(h) \in Nat /\ Len(r) \in Nat /\ k \in Nat
      /\ \A i \in 0..Len(q) : a[i] \in Nat
      /\ \A i \in 1..Len(q) : q[i].ply \in Nat
  BY CourseIs, LenProperties
<1>2. /\ b \in [0..Len(r) -> Nat] /\ b[Len(r)] = Len(h)
      /\ \A i \in 0..Len(r) : b[i] = a[i + k]
  <2>1. \A i \in 0..Len(r) : i + k \in 0..Len(q)
    BY <1>1
  <2>2. Len(r) + k = Len(q) /\ Len(r) \in 0..Len(r)
    BY <1>1
  <2> QED BY <1>1, <2>1, <2>2 DEF Course
<1> HIDE DEF b
<1>3. ASSUME NEW m \in k..Len(q), NEW x, \A i \in (m - k)..Len(r) : x <= b[i]
      PROVE  \A i \in m..Len(q) : x <= a[i]
  <2> TAKE i \in m..Len(q)
  <2>1. i - k \in (m - k)..Len(r) /\ i - k \in 0..Len(r) /\ (i - k) + k = i
    BY <1>1
  <2>2. b[i - k] = a[i]
    BY <1>2, <2>1
  <2> QED BY <1>3, <2>1, <2>2
<1>4. ASSUME NEW i \in 1..Len(r)
      PROVE  /\ b[i - 1] = IF IsChange(r[i]) THEN Before(r[i]) ELSE b[i]
             /\ IsChange(r[i]) => b[i] = r[i].ply
             /\ r[i].kind = "move" /\ (\A j \in i..Len(r) : r[i].ply <= b[j]) => h[r[i].ply] = r[i].mark
  <2>1. /\ i + k \in 1..Len(q) /\ i + k \in k..Len(q) /\ (i - 1) + k = (i + k) - 1 /\ (i + k) - k = i
        /\ i \in 0..Len(r) /\ i - 1 \in 0..Len(r)
    <3>1. i \in Nat \ {0} /\ i <= Len(r) /\ Len(r) = Len(q) - k
      BY <1>1
    <3>2. (i - 1) + k = (i + k) - 1 /\ (i + k) - k = i
      BY <1>1, <3>1
    <3>3. i + k \in 1..Len(q) /\ i + k \in k..Len(q)
      BY <1>1, <3>1
    <3>4. i \in 0..Len(r) /\ i - 1 \in 0..Len(r)
      BY <1>1, <3>1
    <3> QED BY <3>2, <3>3, <3>4
  <2>2. r[i] = q[i + k] /\ b[i] = a[i + k] /\ b[i - 1] = a[(i + k) - 1]
    <3>1. b[i - 1] = a[(i - 1) + k]
      BY <1>2, <2>1
    <3>2. b[i] = a[i + k]
      BY <1>2, <2>1
    <3> QED BY <2>1, <3>1, <3>2
  <2>3. ASSUME \A j \in i..Len(r) : r[i].ply <= b[j]
        PROVE  \A j \in (i + k)..Len(q) : q[i + k].ply <= a[j]
    BY <1>3, <2>1, <2>2, <2>3
  <2> QED BY <2>1, <2>2, <2>3 DEF Course
<1>5. Course(r, b, h)
  BY <1>2, <1>4 DEF Course
<1>6. ASSUME NEW B \in Seq(Marks), NEW m \in k..Len(q), Agrees(q, a, h, B, m)
      PROVE  Along(r, b, h, B)
  <2>1. m - k \in 0..Len(r) /\ (m - k) + k = m
    BY <1>1
  <2>2. Len(B) = b[m - k]
    BY <1>2, <1>6, <2>1 DEF Agrees
  <2>3. \A x \in 1..Len(B) : (\A i \in (m - k)..Len(r) : x <= b[i]) => B[x] = h[x]
    BY <1>3, <1>6 DEF Agrees
  <2> QED BY <2>1, <2>2, <2>3 DEF Agrees, Along
<1> QED BY <1>5, <1>6

\* A client that takes a change in stands where the change leads, whether it came from a
\* place further back or further on, or has a ply of its own on top.
LEMMA CourseTaken ==
    ASSUME NEW q \in Seq(Heard), NEW a, NEW h \in Seq(Marks), Course(q, a, h),
           NEW k \in 1..Len(q), IsChange(q[k]), NEW v \in Views, NEW w \in Views,
           Taken(v, q[k], w), ~w.syncing,
           NEW m \in (k - 1)..Len(q),
           Agrees(q, a, h, v.board, m) \/ (v.board # <<>> /\ Agrees(q, a, h, Front(v.board), m))
    PROVE  Agrees(q, a, h, w.board, k)
<1> DEFINE f == q[k]
           B == v.board
           W == w.board
<1>1. /\ Len(q) \in Nat /\ k \in Nat /\ k - 1 \in 0..Len(q) /\ k \in 0..Len(q)
      /\ f \in Heard /\ f.ply \in Nat
      /\ \A i \in 0..Len(q) : a[i] \in Nat
  BY CourseIs
<1>2. a[k] = f.ply /\ a[k - 1] = Before(f)
  BY DEF Course
<1>3. B \in Seq(Marks) /\ W \in Seq(Marks) /\ Len(B) \in Nat /\ Len(W) \in Nat
  BY LenProperties DEF Views
<1>4. /\ Front(B) \in Seq(Marks) /\ (B = <<>> <=> Len(B) = 0)
      /\ B # <<>> => Len(Front(B)) = Len(B) - 1 /\ Last(B) = B[Len(B)]
      /\ \A i \in 1..(Len(B) - 1) : Front(B)[i] = B[i]
  BY <1>3, Fronted, EmptySeq DEF Last
<1>5. f.kind = "move" => f.mark \in Marks
  BY <1>1, HeardIs
<1>6. /\ f.kind = "move" /\ (\A j \in k..Len(q) : f.ply <= a[j]) => h[f.ply] = f.mark
      /\ f.kind = "move" => Before(f) = f.ply - 1
      /\ f.kind = "back" => Before(f) = f.ply + 1
  BY DEF Course, Before
<1> HIDE DEF f, B, W
\* What came before the change and outlives the rest is on the board.
<1>7. ASSUME NEW x \in 1..Len(B), x <= Before(f), \A i \in k..Len(q) : x <= a[i],
             x < Len(B) \/ Agrees(q, a, h, B, m)
      PROVE  B[x] = h[x]
  <2>1. \A i \in m..Len(q) : x <= a[i]
    <3> TAKE i \in m..Len(q)
    <3>1. i = k - 1 \/ i \in k..Len(q)
      BY <1>1
    <3> QED BY <1>2, <1>7, <3>1
  <2>2. CASE Agrees(q, a, h, B, m)
    BY <2>1, <2>2 DEF Agrees
  <2>3. CASE x < Len(B) /\ B # <<>> /\ Agrees(q, a, h, Front(B), m)
    <3>1. x \in 1..Len(Front(B)) /\ x \in 1..(Len(B) - 1)
      BY <1>3, <1>4, <2>3
    <3>2. Front(B)[x] = h[x]
      BY <2>1, <2>3, <3>1 DEF Agrees
    <3> QED BY <1>4, <3>1, <3>2
  <2> QED BY <1>7, <2>2, <2>3 DEF B
<1>8. CASE f.kind = "move" /\ Echo(B, f) /\ W = B
  <2>1. f.ply = Len(B) /\ B # <<>> /\ B[Len(B)] = f.mark
    BY <1>4, <1>8 DEF Echo
  <2>2. ASSUME NEW x \in 1..Len(W), \A i \in k..Len(q) : x <= a[i] PROVE W[x] = h[x]
    <3>1. CASE x = f.ply
      BY <1>6, <1>8, <2>1, <2>2, <3>1
    <3>2. CASE x # f.ply
      <4>1. x \in 1..Len(B) /\ x <= Before(f) /\ x < Len(B)
        BY <1>1, <1>3, <1>6, <1>8, <2>1, <3>2
      <4> QED BY <1>7, <1>8, <2>2, <4>1
    <3> QED BY <3>1, <3>2
  <2> QED BY <1>2, <1>8, <2>1, <2>2 DEF Agrees, W
<1>9. CASE f.kind = "move" /\ f.ply = Len(B) + 1 /\ W = Append(B, f.mark)
  <2>1. /\ Len(W) = Len(B) + 1 /\ W[Len(B) + 1] = f.mark
        /\ \A i \in 1..Len(B) : W[i] = B[i]
    BY <1>3, <1>5, <1>9, AppendProperties
  <2>2. ASSUME NEW x \in 1..Len(W), \A i \in k..Len(q) : x <= a[i] PROVE W[x] = h[x]
    <3>1. CASE x = f.ply
      BY <1>6, <1>9, <2>1, <2>2, <3>1
    <3>2. CASE x # f.ply
      <4>1. x \in 1..Len(B) /\ x <= Before(f)
        BY <1>1, <1>3, <1>6, <1>9, <2>1, <3>2
      <4>2. x < Len(B) \/ Agrees(q, a, h, B, m)
        <5> SUFFICES ASSUME x = Len(B), B # <<>>, Agrees(q, a, h, Front(B), m) PROVE FALSE
          BY <1>3, <4>1 DEF B
        <5>1. a[m] = Len(B) - 1
          BY <1>4 DEF Agrees
        <5>2. a[m] \in Nat /\ a[m] >= Len(B)
          <6>1. CASE m = k - 1
            BY <1>1, <1>2, <1>3, <1>6, <1>9, <6>1
          <6>2. CASE m # k - 1
            <7>1. m \in k..Len(q) /\ m \in 0..Len(q)
              BY <1>1, <6>2
            <7>2. x <= a[m] /\ a[m] \in Nat
              BY <1>1, <2>2, <7>1
            <7> QED BY <1>3, <7>2
          <6> QED BY <6>1, <6>2
        <5> QED BY <1>3, <5>1, <5>2
      <4> QED BY <1>7, <2>1, <2>2, <4>1, <4>2
    <3> QED BY <3>1, <3>2
  <2>3. Len(W) = a[k]
    BY <1>2, <1>9, <2>1
  <2> QED BY <2>2, <2>3 DEF Agrees, W
<1>10. CASE f.kind = "back" /\ f.ply = Len(B) - 1 /\ W = Front(B)
  <2>1. B # <<>> /\ Len(W) = f.ply /\ \A i \in 1..Len(W) : W[i] = B[i]
    BY <1>1, <1>3, <1>4, <1>10
  <2>2. ASSUME NEW x \in 1..Len(W), \A i \in k..Len(q) : x <= a[i] PROVE W[x] = h[x]
    <3>1. x \in 1..Len(B) /\ x <= Before(f) /\ x < Len(B)
      BY <1>1, <1>3, <1>6, <1>10, <2>1
    <3> QED BY <1>7, <2>1, <2>2, <3>1
  <2> QED BY <1>2, <2>1, <2>2 DEF Agrees, W
<1> QED BY <1>8, <1>9, <1>10 DEF Taken, f, B, W

\* Without a change to come, every place on the course is the server's.
LEMMA CourseEnds ==
    ASSUME NEW q \in Seq(Heard), NEW a, NEW h \in Seq(Marks), Course(q, a, h),
           \A i \in 1..Len(q) : ~IsChange(q[i]), NEW B \in Seq(Marks), Along(q, a, h, B)
    PROVE  B = h
<1>1. Len(q) \in Nat /\ a[Len(q)] = Len(h) /\ Len(B) \in Nat
  BY LenProperties DEF Course
<1> DEFINE P == {k \in Nat : k <= Len(q) => a[k] = a[0]}
<1>2. P = Nat
  <2>1. 0 \in P
    OBVIOUS
  <2>2. ASSUME NEW k \in P PROVE k + 1 \in P
    <3> SUFFICES ASSUME k + 1 <= Len(q) PROVE a[k + 1] = a[0]
      OBVIOUS
    <3>1. k + 1 \in 1..Len(q) /\ (k + 1) - 1 = k /\ a[k] = a[0]
      BY <1>1
    <3> QED BY <3>1 DEF Course
  <2> HIDE DEF P
  <2> QED BY <2>1, <2>2, AllNaturals DEF P
<1> HIDE DEF P
<1>3. \A k \in 0..Len(q) : a[k] = Len(h)
  <2>1. \A k \in 0..Len(q) : k \in P /\ k <= Len(q)
    BY <1>1, <1>2
  <2>2. \A k \in 0..Len(q) : a[k] = a[0]
    BY <2>1 DEF P
  <2>3. Len(q) \in 0..Len(q)
    BY <1>1
  <2> QED BY <1>1, <2>2, <2>3
<1>4. PICK m \in 0..Len(q) : Agrees(q, a, h, B, m)
  BY DEF Along
<1>5. Len(B) = Len(h)
  BY <1>3, <1>4 DEF Agrees
<1>6. ASSUME NEW x \in 1..Len(B) PROVE B[x] = h[x]
  <2>1. \A i \in m..Len(q) : i \in 0..Len(q) /\ x <= Len(h)
    BY <1>1, <1>5
  <2>2. \A i \in m..Len(q) : x <= a[i]
    BY <1>3, <2>1
  <2> QED BY <1>4, <2>2 DEF Agrees
<1> QED BY <1>5, <1>6, SeqEqual

\* s is what is left of t's first k frames behind the first j.
Left(s, t, j, k) == Len(s) = k - j /\ \A i \in 1..(k - j) : s[i] = t[i + j]

\* A replay of the frames held, k of them taken in: all of them are on the board, or the rest
\* is held again behind the one that did not fit.
Replays(q, a, h, v, held, k) ==
    /\ v \in Views
    /\ ~v.syncing => v.held = <<>> /\ \E m \in k..Len(q) : Agrees(q, a, h, v.board, m)
    /\ v.syncing => \E j \in 0..k : Left(v.held, held, j, k)

LEMMA ReplayGoesOn ==
    ASSUME NEW q \in Seq(Heard), NEW a, NEW h \in Seq(Marks), Course(q, a, h),
           NEW held \in Seq(Held), NEW k \in Nat, k + 1 <= Len(held), Len(held) <= Len(q),
           q[k + 1] = held[k + 1], NEW v, Replays(q, a, h, v, held, k)
    PROVE  Replays(q, a, h, Replay(v, held[k + 1]), held, k + 1)
<1> DEFINE f == held[k + 1]
           w == Replay(v, f)
<1>1. /\ Len(q) \in Nat /\ Len(held) \in Nat /\ k + 1 \in 1..Len(held) /\ k + 1 \in 1..Len(q)
      /\ k \in 0..Len(q) /\ k + 1 \in 0..Len(q)
  BY LenProperties
<1>2. f \in Held /\ f \in Heard /\ IsChange(f) /\ f.ply \in Nat /\ f.kind \in {"move", "back"}
  BY <1>1, ElementOfSeq, HeldIs
<1>3. v \in Views /\ v.held \in Seq(Held) /\ v.board \in Seq(Marks) /\ Len(v.board) \in Nat
  BY LenProperties DEF Replays, Views
<1> HIDE DEF f, w
<1>4. CASE v.syncing
  <2>1. PICK j \in 0..k : Left(v.held, held, j, k)
    BY <1>4 DEF Replays
  <2>2. w = On(v, f)
    BY <1>4 DEF w, Replay
  <2>3. w \in Views /\ w.syncing /\ w.held = Append(v.held, f)
    BY <1>2, <1>3, <1>4, <2>2, OnRebuilding
  <2>4. Left(w.held, held, j, k + 1)
    <3>1. /\ Len(w.held) = (k - j) + 1 /\ w.held[(k - j) + 1] = f
          /\ \A i \in 1..(k - j) : w.held[i] = held[i + j]
      <4>1. Len(v.held) = k - j /\ \A i \in 1..(k - j) : v.held[i] = held[i + j]
        BY <2>1 DEF Left
      <4>2. /\ Len(w.held) = Len(v.held) + 1 /\ w.held[Len(v.held) + 1] = f
            /\ \A i \in 1..Len(v.held) : w.held[i] = v.held[i]
        BY <1>2, <1>3, <2>3, AppendProperties
      <4> QED BY <4>1, <4>2
    <3>2. (k + 1) - j = (k - j) + 1 /\ ((k - j) + 1) + j = k + 1 /\ k - j \in Nat
      BY <2>1
    <3>3. ASSUME NEW i \in 1..((k + 1) - j) PROVE w.held[i] = held[i + j]
      <4>1. i \in 1..(k - j) \/ i = (k - j) + 1
        BY <3>2
      <4> QED BY <3>1, <3>2, <4>1 DEF f
    <3> QED BY <3>1, <3>2, <3>3 DEF Left
  <2>5. j \in 0..(k + 1)
    BY <2>1
  <2> QED BY <2>3, <2>4, <2>5 DEF Replays, w, f
<1>5. CASE ~v.syncing
  <2>1. PICK m \in k..Len(q) : Agrees(q, a, h, v.board, m)
    BY <1>5 DEF Replays
  <2>2. v.held = <<>>
    BY <1>5 DEF Replays
  <2>3. CASE ~Fits(v.board, f)
    <3>1. w = v
      BY <1>5, <2>3 DEF w, Replay
    <3>2. m # k
      <4> SUFFICES ASSUME m = k PROVE FALSE
        OBVIOUS
      <4>1. Len(v.board) = a[k] /\ a[(k + 1) - 1] = Before(f) /\ (k + 1) - 1 = k
        BY <1>1, <1>2, <2>1 DEF Agrees, Course, f
      <4>2. Len(v.board) = Before(f)
        BY <4>1
      <4> QED BY <1>2, <1>3, <2>3, <4>2 DEF Before, Fits
    <3>3. m \in (k + 1)..Len(q)
      BY <1>1, <2>1, <3>2
    <3> QED BY <1>3, <1>5, <2>1, <2>2, <3>1, <3>3 DEF Replays, w, f
  <2>4. CASE Fits(v.board, f)
    <3>1. w = On(v, f)
      BY <2>4 DEF w, Replay
    <3>2. w \in Views /\ w.held = <<>> /\ Taken(v, f, w)
      BY <1>2, <1>3, <1>5, <2>2, <3>1, OnFollowing
    <3>3. CASE w.syncing
      <4>1. Left(w.held, held, k + 1, k + 1)
        <5>1. Len(w.held) = 0 /\ (k + 1) - (k + 1) = 0
          BY <3>2, EmptySeq
        <5> QED BY <5>1 DEF Left
      <4>2. k + 1 \in 0..(k + 1)
        OBVIOUS
      <4> QED BY <3>2, <3>3, <4>1, <4>2 DEF Replays, w, f
    <3>4. CASE ~w.syncing
      <4>1. m \in ((k + 1) - 1)..Len(q) /\ f = q[k + 1]
        BY <1>1 DEF f
      <4>2. Agrees(q, a, h, w.board, k + 1)
        BY <1>1, <1>2, <1>3, <2>1, <3>2, <3>4, <4>1, CourseTaken
      <4>3. k + 1 \in (k + 1)..Len(q)
        BY <1>1
      <4> QED BY <3>2, <3>4, <4>2, <4>3 DEF Replays, w, f
    <3> QED BY <3>3, <3>4
  <2> QED BY <2>3, <2>4
<1> QED BY <1>4, <1>5

LEMMA ReplayFollows ==
    ASSUME NEW q \in Seq(Heard), NEW a, NEW h \in Seq(Marks), Course(q, a, h),
           NEW held \in Seq(Held), Len(held) <= Len(q), \A i \in 1..Len(held) : q[i] = held[i],
           NEW v, Replays(q, a, h, v, held, 0)
    PROVE  Replays(q, a, h, Replayed(v, held), held, Len(held))
<1>1. PICK c : ReplayTurns(c, v, held)
  BY ReplayedInTurn
<1>2. Len(held) \in Nat
  BY LenProperties
<1> DEFINE P == {k \in Nat : k <= Len(held) => Replays(q, a, h, c[k], held, k)}
<1>3. 0 \in P
  BY <1>1 DEF ReplayTurns
<1>4. ASSUME NEW k \in P PROVE k + 1 \in P
  <2> SUFFICES ASSUME k + 1 <= Len(held) PROVE Replays(q, a, h, c[k + 1], held, k + 1)
    OBVIOUS
  <2>1. /\ k \in Nat /\ k \in 0..(Len(held) - 1) /\ k + 1 \in 1..Len(held)
        /\ Replays(q, a, h, c[k], held, k)
    BY <1>2
  <2>2. c[k + 1] = Replay(c[k], held[k + 1])
    BY <1>1, <2>1 DEF ReplayTurns
  <2> QED BY <2>1, <2>2, ReplayGoesOn
<1> HIDE DEF P
<1>5. P = Nat
  BY <1>3, <1>4, AllNaturals DEF P
<1>6. Replays(q, a, h, c[Len(held)], held, Len(held))
  BY <1>2, <1>5 DEF P
<1> QED BY <1>1, <1>6 DEF ReplayTurns

-----------------------------------------------------------------------------
(* A socket that held: nothing is missed *)

\* The frames the client has yet to take in, held or on their way.
Rest == view.held \o down

Refused(d) == \E i \in 1..Len(d) : d[i].kind = "rejected"

Coming(q, u) ==
    \/ \E i \in 1..Len(q) : IsChange(q[i])
    \/ \E i \in 1..Len(u) : u[i].kind = "move"

\* The player's own ply is on top, and it or something else is still to be heard of.
Ahead(q, a, h, B, u) ==
    B # <<>> /\ ~MyTurn(B) /\ Along(q, a, h, Front(B)) /\ Coming(q, u)

\* What a rebuild will start from is on the course, and so is the board of a client that does
\* not rebuild, unless the refusal of a move is on its way to it.
OnCourse(a) ==
    /\ Course(Rest, a, hist)
    /\ \A i \in 1..Len(fetches) : fetches[i].answered => Along(Rest, a, hist, fetches[i].snapshot)
    /\ ~view.syncing => \/ Refused(down)
                        \/ Along(Rest, a, hist, view.board)
                        \/ Ahead(Rest, a, hist, view.board, up)

Faithful ==
    drops = 0 =>
        /\ link = "open"
        /\ Len(fetches) = IF view.syncing THEN 1 ELSE 0
        /\ \E a : OnCourse(a)

LEMMA HeldHeard == Held \subseteq Heard
BY DEF Held, Heard, Words

LEMMA RestIs ==
    ASSUME NEW s \in Seq(Held), NEW d \in Seq(Heard)
    PROVE  /\ s \in Seq(Heard) /\ Len(s) \in Nat /\ Len(d) \in Nat
           /\ s \o d \in Seq(Heard) /\ Len(s \o d) = Len(s) + Len(d)
           /\ \A i \in 1..Len(s \o d) : (s \o d)[i] = IF i <= Len(s) THEN s[i] ELSE d[i - Len(s)]
           /\ s = <<>> => s \o d = d
<1>1. s \in Seq(Heard)
  BY HeldHeard, SeqMonotonic
<1>2. <<>> \o d = d
  BY ConcatEmptySeq
<1> QED BY <1>1, <1>2, ConcatProperties, LenProperties

LEMMA HeardJoined ==
    ASSUME NEW s \in Seq(Heard), NEW d \in Seq(Heard), NEW w \in Seq(Heard)
    PROVE  (s \o d) \o w = s \o (d \o w)
<1>1. /\ s \o d \in Seq(Heard) /\ d \o w \in Seq(Heard)
      /\ (s \o d) \o w \in Seq(Heard) /\ s \o (d \o w) \in Seq(Heard)
      /\ Len(s) \in Nat /\ Len(d) \in Nat /\ Len(w) \in Nat
      /\ Len(s \o d) = Len(s) + Len(d) /\ Len(d \o w) = Len(d) + Len(w)
  BY ConcatProperties, LenProperties
<1> DEFINE l == (s \o d) \o w
           r == s \o (d \o w)
<1>2. /\ Len(l) = Len(s) + Len(d) + Len(w)
      /\ \A i \in 1..(Len(s) + Len(d) + Len(w)) :
           l[i] = IF i <= Len(s) + Len(d) THEN (s \o d)[i] ELSE w[i - (Len(s) + Len(d))]
  BY <1>1, ConcatProperties
<1>3. /\ Len(r) = Len(s) + (Len(d) + Len(w))
      /\ \A i \in 1..(Len(s) + (Len(d) + Len(w))) :
           r[i] = IF i <= Len(s) THEN s[i] ELSE (d \o w)[i - Len(s)]
  BY <1>1, ConcatProperties
<1> HIDE DEF l, r
<1>4. ASSUME NEW i \in 1..(Len(s) + Len(d) + Len(w)) PROVE l[i] = r[i]
  <2>1. \A j \in 1..(Len(s) + Len(d)) : (s \o d)[j] = IF j <= Len(s) THEN s[j] ELSE d[j - Len(s)]
    BY ConcatProperties
  <2>2. \A j \in 1..(Len(d) + Len(w)) : (d \o w)[j] = IF j <= Len(d) THEN d[j] ELSE w[j - Len(d)]
    BY ConcatProperties
  <2>3. CASE i <= Len(s)
    BY <1>1, <1>2, <1>3, <2>1, <2>3
  <2>4. CASE i > Len(s) /\ i <= Len(s) + Len(d)
    BY <1>1, <1>2, <1>3, <2>1, <2>2, <2>4
  <2>5. CASE i > Len(s) + Len(d)
    <3>1. i - Len(s) \in 1..(Len(d) + Len(w)) /\ ~(i - Len(s) <= Len(d)) /\ ~(i <= Len(s))
          /\ (i - Len(s)) - Len(d) = i - (Len(s) + Len(d)) /\ ~(i <= Len(s) + Len(d))
      BY <1>1, <2>5
    <3> QED BY <1>1, <1>2, <1>3, <2>2, <3>1
  <2> QED BY <1>1, <2>3, <2>4, <2>5
<1>5. l \in Seq(Heard) /\ r \in Seq(Heard) /\ Len(l) = Len(r)
  BY <1>1, <1>2, <1>3 DEF l, r
<1>6. l = r
  BY <1>1, <1>2, <1>4, <1>5, SeqEqual
<1> QED BY <1>6 DEF l, r

LEMMA ViewIs ==
    ASSUME Typed
    PROVE  /\ view \in Views /\ HoldsFor(view) /\ view.held \in Seq(Held) /\ down \in Seq(Heard)
           /\ view.held \in Seq(Heard) /\ Rest \in Seq(Heard) /\ hist \in Seq(Marks)
           /\ view.board \in Seq(Marks) /\ Front(view.board) \in Seq(Marks)
           /\ ~view.syncing => view.held = <<>> /\ Rest = down
           /\ fetches \in Seq(Fetches) /\ \A i \in 1..Len(fetches) : fetches[i].snapshot \in Seq(Marks)
<1>1. /\ view \in Views /\ HoldsFor(view) /\ view.held \in Seq(Held) /\ down \in Seq(Heard)
      /\ view.board \in Seq(Marks) /\ hist \in Seq(Marks) /\ fetches \in Seq(Fetches)
  BY DEF Typed, ServerTyped, ViewTyped, WireTyped, Views
<1>2. ASSUME NEW i \in 1..Len(fetches) PROVE fetches[i].snapshot \in Seq(Marks)
  <2>1. fetches[i] \in Fetches
    BY <1>1, ElementOfSeq
  <2> QED BY <2>1 DEF Fetches
<1>3. view.held \in Seq(Heard) /\ Rest \in Seq(Heard) /\ (view.held = <<>> => Rest = down)
  BY <1>1, RestIs DEF Rest
<1> QED BY <1>1, <1>2, <1>3, Fronted DEF HoldsFor

\* Whatever the course was, it goes on, and what was on it stays on it.
CourseKept ==
    \A a : Course(Rest, a, hist) =>
        \E b : /\ Course(Rest', b, hist')
               /\ \A B \in Seq(Marks) : Along(Rest, a, hist, B) => Along(Rest', b, hist', B)

LEMMA StillFaithful ==
    ASSUME Typed, Faithful, UNCHANGED <<view, fetches, link, drops>>,
           drops = 0 => /\ CourseKept
                        /\ Refused(down) => Refused(down')
                        /\ Coming(Rest, up) => Coming(Rest', up') \/ Refused(down')
    PROVE  Faithful'
<1> SUFFICES ASSUME drops = 0
             PROVE  link' = "open" /\ Len(fetches') = (IF view'.syncing THEN 1 ELSE 0)
                    /\ \E b : OnCourse(b)'
  BY DEF Faithful
<1>1. link' = "open" /\ Len(fetches') = IF view'.syncing THEN 1 ELSE 0
  BY DEF Faithful
<1>2. PICK a : OnCourse(a)
  BY DEF Faithful
<1>3. Course(Rest, a, hist)
  BY <1>2 DEF OnCourse
<1>4. PICK b : /\ Course(Rest', b, hist')
               /\ \A B \in Seq(Marks) : Along(Rest, a, hist, B) => Along(Rest', b, hist', B)
  BY <1>3 DEF CourseKept
<1>5. ASSUME NEW i \in 1..Len(fetches'), fetches'[i].answered
      PROVE  Along(Rest', b, hist', fetches'[i].snapshot)
  <2>1. Along(Rest, a, hist, fetches[i].snapshot) /\ fetches[i].snapshot \in Seq(Marks)
    BY <1>2, <1>5, ViewIs DEF OnCourse
  <2> QED BY <1>4, <2>1
<1>6. ASSUME ~view'.syncing
      PROVE  \/ Refused(down') \/ Along(Rest', b, hist', view'.board)
             \/ Ahead(Rest', b, hist', view'.board, up')
  <2>1. view.board \in Seq(Marks) /\ Front(view.board) \in Seq(Marks)
    BY ViewIs
  <2>2. CASE Refused(down)
    BY <2>2
  <2>3. CASE Along(Rest, a, hist, view.board)
    BY <1>4, <2>1, <2>3
  <2>4. CASE Ahead(Rest, a, hist, view.board, up)
    BY <1>4, <2>1, <2>4 DEF Ahead
  <2> QED BY <1>2, <1>6, <2>2, <2>3, <2>4 DEF OnCourse
<1>7. OnCourse(b)'
  BY <1>4, <1>5, <1>6 DEF OnCourse
<1> QED BY <1>1, <1>7

\* The history is the same, frames that tell of no change are sent.
LEMMA WordsCourse ==
    ASSUME Typed, link = "open", NEW w \in Seq(Heard), \A i \in 1..Len(w) : ~IsChange(w[i]),
           Tell(w), UNCHANGED <<view, hist>>
    PROVE  /\ CourseKept
           /\ Refused(down) => Refused(down')
           /\ (\E i \in 1..Len(Rest) : IsChange(Rest[i])) => \E i \in 1..Len(Rest') : IsChange(Rest'[i])
<1>1. down' = down \o w
  BY DEF Tell
<1>2. /\ view.held \in Seq(Heard) /\ down \in Seq(Heard) /\ Rest \in Seq(Heard)
      /\ Rest = view.held \o down /\ hist \in Seq(Marks)
  <2>1. Rest = view.held \o down
    BY DEF Rest
  <2> QED BY <2>1, ViewIs
<1>3. Rest' = Rest \o w
  <2>1. Rest' = view.held \o (down \o w)
    BY <1>1 DEF Rest
  <2>2. (view.held \o down) \o w = view.held \o (down \o w)
    <3>1. view.held \in Seq(Heard) /\ down \in Seq(Heard) /\ w \in Seq(Heard)
      BY <1>2
    <3> QED BY <3>1, HeardJoined, Zenon
  <2>3. Rest \o w = (view.held \o down) \o w
    BY DEF Rest
  <2> QED BY <2>1, <2>2, <2>3
<1>4. CourseKept
  BY <1>2, <1>3, CourseWords DEF CourseKept
<1>5. /\ Len(Rest \o w) = Len(Rest) + Len(w) /\ Len(Rest) \in Nat /\ Len(w) \in Nat
      /\ \A i \in 1..Len(Rest) : (Rest \o w)[i] = Rest[i]
      /\ Len(down \o w) = Len(down) + Len(w) /\ Len(down) \in Nat
      /\ \A i \in 1..Len(down) : (down \o w)[i] = down[i]
  BY <1>2, ConcatProperties, LenProperties
<1>6. ASSUME NEW i \in 1..Len(Rest), IsChange(Rest[i]) PROVE \E j \in 1..Len(Rest') : IsChange(Rest'[j])
  <2>1. i \in 1..Len(Rest') /\ Rest'[i] = Rest[i]
    BY <1>3, <1>5
  <2> QED BY <1>6, <2>1
<1>7. ASSUME NEW i \in 1..Len(down), down[i].kind = "rejected" PROVE Refused(down')
  <2>1. i \in 1..Len(down') /\ down'[i] = down[i]
    BY <1>1, <1>5
  <2> QED BY <1>7, <2>1 DEF Refused
<1> QED BY <1>4, <1>6, <1>7 DEF Refused

\* The history changes, and the news is sent.
LEMMA NewsCourse ==
    ASSUME Typed, link = "open", NEW f \in Heard, Tell(<<f>>), UNCHANGED view,
           hist' \in Seq(Marks), \A x \in 1..Len(hist') : x <= Len(hist) => hist'[x] = hist[x],
           IsChange(f), f.ply = Len(hist'), Before(f) = Len(hist),
           f.kind = "move" => hist'[f.ply] = f.mark
    PROVE  /\ CourseKept
           /\ Refused(down) => Refused(down')
           /\ \E i \in 1..Len(Rest') : IsChange(Rest'[i])
<1>0. <<f>> \in Seq(Heard) /\ Len(<<f>>) = 1 /\ <<f>>[1] = f
  OBVIOUS
<1>1. down' = down \o <<f>>
  BY DEF Tell
<1>2. /\ view.held \in Seq(Heard) /\ down \in Seq(Heard) /\ Rest \in Seq(Heard)
      /\ Rest = view.held \o down /\ hist \in Seq(Marks)
  <2>1. Rest = view.held \o down
    BY DEF Rest
  <2> QED BY <2>1, ViewIs
<1>3. Rest' = Rest \o <<f>>
  <2>1. Rest' = view.held \o (down \o <<f>>)
    BY <1>1 DEF Rest
  <2>2. (view.held \o down) \o <<f>> = view.held \o (down \o <<f>>)
    <3>1. view.held \in Seq(Heard) /\ down \in Seq(Heard) /\ <<f>> \in Seq(Heard)
      BY <1>0, <1>2
    <3> QED BY <3>1, HeardJoined, Zenon
  <2>3. Rest \o <<f>> = (view.held \o down) \o <<f>>
    BY DEF Rest
  <2> QED BY <2>1, <2>2, <2>3
<1>4. CourseKept
  BY <1>2, <1>3, CourseNews DEF CourseKept
<1>5. /\ Len(Rest \o <<f>>) = Len(Rest) + 1 /\ Len(Rest) \in Nat
      /\ \A i \in 1..(Len(Rest) + 1) : (Rest \o <<f>>)[i] = IF i <= Len(Rest) THEN Rest[i] ELSE <<f>>[i - Len(Rest)]
      /\ Len(down \o <<f>>) = Len(down) + 1 /\ Len(down) \in Nat
      /\ \A i \in 1..Len(down) : (down \o <<f>>)[i] = down[i]
  BY <1>0, <1>2, ConcatProperties, LenProperties
<1>6. Len(Rest) + 1 \in 1..Len(Rest') /\ IsChange(Rest'[Len(Rest) + 1])
  <2>1. Len(Rest) + 1 \in 1..(Len(Rest) + 1) /\ ~(Len(Rest) + 1 <= Len(Rest))
        /\ Len(Rest) + 1 - Len(Rest) = 1
    BY <1>5
  <2>2. (Rest \o <<f>>)[Len(Rest) + 1] = f
    BY <1>0, <1>5, <2>1
  <2> QED BY <1>3, <1>5, <2>1, <2>2
<1>7. ASSUME NEW i \in 1..Len(down), down[i].kind = "rejected" PROVE Refused(down')
  <2>1. i \in 1..Len(down') /\ down'[i] = down[i]
    BY <1>1, <1>5
  <2> QED BY <1>7, <2>1 DEF Refused
<1> QED BY <1>4, <1>6, <1>7 DEF Refused

LEMMA LandCourse ==
    ASSUME Typed, link = "open", NEW mark \in Marks, Land(mark), Tell(<<News("move", mark)>>),
           UNCHANGED view
    PROVE  /\ CourseKept
           /\ Refused(down) => Refused(down')
           /\ \E i \in 1..Len(Rest') : IsChange(Rest'[i])
<1> DEFINE f == News("move", mark)
<1>1. ServerTyped /\ WireTyped
  BY DEF Typed
<1>2. Append(hist, mark) \in Seq(Marks) /\ hist' = Append(hist, mark) /\ f \in Heard
  BY <1>1, LandTyped DEF Changed
<1>3. /\ hist' \in Seq(Marks) /\ Len(hist') = Len(hist) + 1 /\ Len(hist) \in Nat
      /\ \A x \in 1..Len(hist) : hist'[x] = hist[x]
      /\ hist'[Len(hist) + 1] = mark
  BY <1>1, <1>2, AppendProperties, LenProperties DEF ServerTyped
<1>4. f = Frame("move", Len(hist'), mark) /\ Tell(<<f>>)
  BY DEF News
<1> HIDE DEF f
<1>5. /\ IsChange(f) /\ f.kind = "move" /\ f.ply = Len(hist') /\ f.mark = mark
      /\ Before(f) = Len(hist)
  BY <1>3, <1>4 DEF Frame, IsChange, Before
<1>6. /\ \A x \in 1..Len(hist') : x <= Len(hist) => hist'[x] = hist[x]
      /\ hist'[f.ply] = f.mark
  BY <1>3, <1>5
<1> QED BY <1>2, <1>3, <1>4, <1>5, <1>6, NewsCourse

LEMMA UndoCourse ==
    ASSUME Typed, link = "open", Undo, hist # <<>>, UNCHANGED view
    PROVE  /\ CourseKept
           /\ Refused(down) => Refused(down')
           /\ \E i \in 1..Len(Rest') : IsChange(Rest'[i])
<1> DEFINE f == News("back", NoMark)
<1>1. ServerTyped /\ WireTyped
  BY DEF Typed
<1>2. Front(hist) \in Seq(Marks) /\ hist' = Front(hist) /\ f \in Heard
  BY <1>1, UndoTyped DEF Changed
<1>3. /\ hist' \in Seq(Marks) /\ Len(hist') = Len(hist) - 1 /\ Len(hist) \in Nat
      /\ \A x \in 1..Len(hist') : hist'[x] = hist[x]
  BY <1>1, <1>2, Fronted, LenProperties DEF ServerTyped
<1>4. f = Frame("back", Len(hist'), NoMark) /\ Tell(<<f>>)
  BY DEF News, Undo
<1> HIDE DEF f
<1>5. IsChange(f) /\ f.kind = "back" /\ f.ply = Len(hist') /\ Before(f) = Len(hist)
  BY <1>3, <1>4 DEF Frame, IsChange, Before
<1> QED BY <1>2, <1>3, <1>4, <1>5, NewsCourse

LEMMA OpponentFaithful ==
    ASSUME Typed, Journal, Faithful,
           (\E mark \in Marks : OpponentMoves(mark)) \/ OpponentAsks \/ OpponentAccepts
    PROVE  Faithful'
<1>0. /\ UNCHANGED <<view, fetches, link, drops, up>>
      /\ drops = 0 => link = "open"
  BY DEF OpponentMoves, OpponentAsks, OpponentAccepts, clientVars, linkVars, Faithful
<1> SUFFICES ASSUME drops = 0
             PROVE  /\ CourseKept
                    /\ Refused(down) => Refused(down')
                    /\ Coming(Rest, up) => Coming(Rest', up')
  BY <1>0, StillFaithful
<1>1. CASE \E mark \in Marks : OpponentMoves(mark)
  <2>1. PICK mark \in Marks : Land(mark) /\ Tell(<<News("move", mark)>>)
    BY <1>1 DEF OpponentMoves
  <2>2. /\ CourseKept /\ (Refused(down) => Refused(down'))
        /\ \E i \in 1..Len(Rest') : IsChange(Rest'[i])
    BY <1>0, <2>1, LandCourse
  <2> QED BY <2>2 DEF Coming
<1>2. CASE OpponentAsks
  <2>1. Tell(<<Frame("asks", 0, NoMark)>>) /\ hist' = hist
    BY <1>2 DEF OpponentAsks
  <2>2. /\ <<Frame("asks", 0, NoMark)>> \in Seq(Heard)
        /\ \A i \in 1..Len(<<Frame("asks", 0, NoMark)>>) : ~IsChange(<<Frame("asks", 0, NoMark)>>[i])
    BY PlainWords DEF Typed
  <2> DEFINE w == <<Frame("asks", 0, NoMark)>>
  <2>3. w \in Seq(Heard) /\ (\A i \in 1..Len(w) : ~IsChange(w[i])) /\ Tell(w)
    BY <2>1, <2>2
  <2> HIDE DEF w
  <2>4. /\ CourseKept /\ (Refused(down) => Refused(down'))
        /\ (\E i \in 1..Len(Rest) : IsChange(Rest[i])) => \E i \in 1..Len(Rest') : IsChange(Rest'[i])
    BY <1>0, <2>1, <2>3, WordsCourse
  <2> QED BY <1>0, <2>4 DEF Coming
<1>3. CASE OpponentAccepts
  <2>1. Undo /\ hist # <<>>
    BY <1>3 DEF OpponentAccepts, Journal, Nobody
  <2>2. /\ CourseKept /\ (Refused(down) => Refused(down'))
        /\ \E i \in 1..Len(Rest') : IsChange(Rest'[i])
    BY <1>0, <2>1, UndoCourse
  <2> QED BY <2>2 DEF Coming
<1> QED BY <1>1, <1>2, <1>3

\* A frame of the client's that is no move leaves the moves on their way there.
LEMMA OthersLeave ==
    ASSUME Typed, up # <<>>, up' = Tail(up), Head(up).kind # "move",
           \E i \in 1..Len(up) : up[i].kind = "move"
    PROVE  \E i \in 1..Len(up') : up'[i].kind = "move"
<1>1. /\ Head(up) = up[1] /\ Len(up) \in Nat /\ Len(Tail(up)) = Len(up) - 1
      /\ \A i \in 1..(Len(up) - 1) : Tail(up)[i] = up[i + 1]
  BY Tailed DEF Typed, WireTyped
<1>2. PICK i \in 1..Len(up) : up[i].kind = "move"
  OBVIOUS
<1>3. i - 1 \in 1..(Len(up) - 1) /\ (i - 1) + 1 = i
  BY <1>1, <1>2
<1>4. Tail(up)[i - 1].kind = "move"
  BY <1>1, <1>2, <1>3
<1> QED BY <1>1, <1>3, <1>4

LEMMA ReceiveFaithful ==
    ASSUME Typed, Journal, Faithful, Receive
    PROVE  Faithful'
<1> DEFINE f == Head(up)
<1>0. /\ UNCHANGED <<view, fetches, link, drops>>
      /\ drops = 0 => link = "open"
  BY DEF Receive, clientVars, linkVars, Faithful
<1> SUFFICES ASSUME drops = 0
             PROVE  /\ CourseKept
                    /\ Refused(down) => Refused(down')
                    /\ Coming(Rest, up) => Coming(Rest', up') \/ Refused(down')
  BY <1>0, StillFaithful
<1>1. /\ up # <<>> /\ up' = Tail(up)
      /\ \/ f.kind = "move" /\ TakeMove(f)
         \/ f.kind = "request" /\ TakeRequest
         \/ f.kind = "answer" /\ TakeAnswer
         \/ f.kind = "ping" /\ TakePing(f)
  BY DEF Receive
<1>2. f \in Sent \cup Beats
  BY <1>1, Tailed DEF Typed, WireTyped
<1>3. f.kind # "move" /\ (\E i \in 1..Len(up) : up[i].kind = "move")
        => \E i \in 1..Len(up') : up'[i].kind = "move"
  BY <1>1, OthersLeave
<1> HIDE DEF f
<1>4. f.kind = "move" => f.mark \in Marks
  BY <1>2 DEF Sent, Beats, Moves, Words
\* Frames that tell of no change.
<1>5. ASSUME NEW w \in Seq(Heard), \A i \in 1..Len(w) : ~IsChange(w[i]), Tell(w), hist' = hist,
             f.kind # "move"
      PROVE  /\ CourseKept
             /\ Refused(down) => Refused(down')
             /\ Coming(Rest, up) => Coming(Rest', up') \/ Refused(down')
  <2>1. /\ CourseKept /\ (Refused(down) => Refused(down'))
        /\ (\E i \in 1..Len(Rest) : IsChange(Rest[i])) => \E i \in 1..Len(Rest') : IsChange(Rest'[i])
    BY <1>0, <1>5, WordsCourse
  <2> QED BY <1>3, <1>5, <2>1 DEF Coming
<1>6. CASE f.kind = "move" /\ TakeMove(f)
  <2>1. CASE MyTurn(hist)
    <3>1. Land(f.mark) /\ Tell(<<News("move", f.mark)>>)
      BY <1>6, <2>1 DEF TakeMove
    <3>2. /\ CourseKept /\ (Refused(down) => Refused(down'))
          /\ \E i \in 1..Len(Rest') : IsChange(Rest'[i])
      BY <1>0, <1>4, <1>6, <3>1, LandCourse
    <3> QED BY <3>2 DEF Coming
  <2>2. CASE ~MyTurn(hist)
    <3> DEFINE e == Frame("rejected", 0, NoMark)
               w == <<e>>
    <3>1. Tell(w) /\ hist' = hist
      BY <1>6, <2>2 DEF TakeMove, serverVars
    <3>2. w \in Seq(Heard) /\ (\A i \in 1..Len(w) : ~IsChange(w[i]))
      BY PlainWords DEF Typed
    <3>3. Len(w) = 1 /\ w[1].kind = "rejected"
      BY DEF Frame
    <3> HIDE DEF w
    <3>4. CourseKept /\ (Refused(down) => Refused(down'))
      BY <1>0, <3>1, <3>2, WordsCourse
    <3>5. Refused(down')
      <4>1. down' = down \o w /\ down \in Seq(Heard)
        BY <1>0, <3>1, ViewIs DEF Tell
      <4>2. /\ Len(down) \in Nat /\ Len(down') = Len(down) + 1
            /\ \A i \in 1..(Len(down) + 1) : down'[i] = IF i <= Len(down) THEN down[i] ELSE w[i - Len(down)]
        BY <3>2, <3>3, <4>1, ConcatProperties, LenProperties
      <4>3. Len(down) + 1 \in 1..(Len(down) + 1) /\ ~(Len(down) + 1 <= Len(down))
            /\ Len(down) + 1 - Len(down) = 1
        BY <4>2
      <4>4. down'[Len(down) + 1].kind = "rejected"
        BY <3>3, <4>2, <4>3
      <4> QED BY <4>2, <4>3, <4>4 DEF Refused
    <3> QED BY <3>4, <3>5
  <2> QED BY <2>1, <2>2
<1>7. CASE f.kind = "request" /\ TakeRequest
  <2>1. Tell(<<>>) /\ hist' = hist
    BY <1>7 DEF TakeRequest
  <2>2. <<>> \in Seq(Heard) /\ \A i \in 1..Len(<<>>) : ~IsChange(<<>>[i])
    BY EmptySeq
  <2> QED BY <1>5, <1>7, <2>1, <2>2
<1>8. CASE f.kind = "answer" /\ TakeAnswer
  <2>1. CASE hist # <<>> /\ Undo
    <3>1. /\ CourseKept /\ (Refused(down) => Refused(down'))
          /\ \E i \in 1..Len(Rest') : IsChange(Rest'[i])
      BY <1>0, <2>1, UndoCourse
    <3> QED BY <3>1 DEF Coming
  <2>2. CASE Tell(<<>>) /\ UNCHANGED serverVars
    <3>1. <<>> \in Seq(Heard) /\ \A i \in 1..Len(<<>>) : ~IsChange(<<>>[i])
      BY EmptySeq
    <3> QED BY <1>5, <1>8, <2>2, <3>1 DEF serverVars
  <2> QED BY <1>8, <2>1, <2>2 DEF TakeAnswer
<1>9. CASE f.kind = "ping" /\ TakePing(f)
  <2>1. ServerTyped
    BY DEF Typed
  <2>2. PICK w \in {Answers \o Directive, Answers \o <<>>} : Tell(w)
    BY <1>9, <2>1, PingTakes
  <2>3. w \in Seq(Heard) /\ \A i \in 1..Len(w) : ~IsChange(w[i])
    BY <2>1, PlainWords
  <2>4. hist' = hist
    BY <1>9, <2>1, PingTakes
  <2> QED BY <1>5, <1>9, <2>2, <2>3, <2>4
<1> QED BY <1>1, <1>6, <1>7, <1>8, <1>9

LEMMA OthersFaithful ==
    ASSUME Typed, Faithful, GateOpens \/ GraceEnds \/ Drop \/ Timeout \/ Lose \/ Resume \/ Connect
    PROVE  Faithful'
<1>1. CASE GateOpens \/ GraceEnds
  BY <1>1 DEF GateOpens, GraceEnds, clientVars, linkVars, Faithful, OnCourse, Rest
<1>2. CASE Drop \/ Timeout
  <2>1. drops \in Nat /\ drops' = drops + 1
    BY <1>2 DEF Drop, Timeout, Typed, WireTyped
  <2>2. drops' # 0
    BY <2>1
  <2> QED BY <2>2 DEF Faithful
<1>3. CASE Lose \/ Resume \/ Connect
  <2>1. drops' = drops /\ link # "open"
    BY <1>3 DEF Lose, Resume, Connect, linkVars
  <2> QED BY <2>1 DEF Faithful
<1> QED BY <1>1, <1>2, <1>3

LEMMA SameFaithful ==
    ASSUME Typed, Faithful, UNCHANGED <<hist, fetches, link, drops, down>>,
           view'.held = view.held, view'.syncing = view.syncing, view'.board = view.board,
           (link = "open" /\ \E i \in 1..Len(up) : up[i].kind = "move")
             => \E i \in 1..Len(up') : up'[i].kind = "move"
    PROVE  Faithful'
<1> SUFFICES ASSUME drops = 0
             PROVE  link' = "open" /\ Len(fetches') = (IF view'.syncing THEN 1 ELSE 0)
                    /\ \E b : OnCourse(b)'
  BY DEF Faithful
<1>1. link' = "open" /\ link = "open" /\ Len(fetches') = IF view'.syncing THEN 1 ELSE 0
  BY DEF Faithful
<1>2. PICK a : OnCourse(a)
  BY DEF Faithful
<1>3. Rest' = Rest
  BY DEF Rest
<1>4. Coming(Rest, up) => Coming(Rest', up')
  BY <1>1, <1>3 DEF Coming
<1>5. Course(Rest', a, hist')
  BY <1>2, <1>3 DEF OnCourse
<1>6. \A i \in 1..Len(fetches') : fetches'[i].answered => Along(Rest', a, hist', fetches'[i].snapshot)
  BY <1>2, <1>3 DEF OnCourse
<1>7. ~view'.syncing => \/ Refused(down') \/ Along(Rest', a, hist', view'.board)
                        \/ Ahead(Rest', a, hist', view'.board, up')
  BY <1>2, <1>3, <1>4 DEF OnCourse, Ahead
<1>8. OnCourse(a)'
  BY <1>5, <1>6, <1>7 DEF OnCourse
<1> QED BY <1>1, <1>8

LEMMA MoreUp ==
    ASSUME Typed, NEW f \in Sent \cup Beats, up' = Append(up, f)
    PROVE  /\ (\E i \in 1..Len(up) : up[i].kind = "move") => \E i \in 1..Len(up') : up'[i].kind = "move"
           /\ f.kind = "move" => \E i \in 1..Len(up') : up'[i].kind = "move"
<1>1. /\ Len(up) \in Nat /\ Len(up') = Len(up) + 1 /\ up'[Len(up) + 1] = f
      /\ \A i \in 1..Len(up) : up'[i] = up[i]
  BY AppendProperties, LenProperties DEF Typed, WireTyped
<1>2. /\ Len(up) + 1 \in 1..Len(up')
      /\ \A i \in 1..Len(up) : i \in 1..Len(up')
  BY <1>1
<1>3. ASSUME NEW i \in 1..Len(up), up[i].kind = "move" PROVE \E j \in 1..Len(up') : up'[j].kind = "move"
  BY <1>1, <1>2, <1>3
<1> QED BY <1>1, <1>2, <1>3

LEMMA PutOnTop ==
    ASSUME NEW B \in Seq(Marks), NEW mark \in Marks, MyTurn(B)
    PROVE  /\ Append(B, mark) # <<>> /\ ~MyTurn(Append(B, mark))
           /\ Front(Append(B, mark)) = B
<1> DEFINE W == Append(B, mark)
<1>1. /\ W \in Seq(Marks) /\ W # <<>> /\ Len(W) = Len(B) + 1 /\ Len(B) \in Nat
      /\ \A i \in 1..Len(B) : W[i] = B[i]
  BY AppendProperties, LenProperties
<1> HIDE DEF W
<1>2. Len(B) % 2 = Mine /\ (Len(B) + 1) % 2 # Len(B) % 2
  BY <1>1 DEF MyTurn
<1>3. ~MyTurn(W)
  BY <1>1, <1>2 DEF MyTurn
<1>4. /\ Front(W) \in Seq(Marks) /\ Len(Front(W)) = Len(B)
      /\ \A i \in 1..Len(Front(W)) : Front(W)[i] = B[i]
  BY <1>1, Fronted
<1>5. Front(W) = B
  BY <1>4, SeqEqual
<1> QED BY <1>1, <1>3, <1>5 DEF W

LEMMA PlayerFaithful ==
    ASSUME Typed, Faithful, (\E mark \in Marks : MyMove(mark)) \/ MyRequest \/ MyAnswer \/ Ping
    PROVE  Faithful'
<1>1. CASE \E mark \in Marks : MyMove(mark)
  <2>1. PICK mark \in Marks : MyMove(mark)
    BY <1>1
  <2> DEFINE f == Frame("move", 0, mark)
  <2>2. /\ MyTurn(view.board)
        /\ view' = [view EXCEPT !.board = Append(@, mark), !.banner = FALSE]
        /\ Send(f) /\ UNCHANGED <<hist, fetches, link, drops, down>>
    BY <2>1 DEF MyMove, serverVars, linkVars
  <2>3. f \in Sent /\ f.kind = "move"
    BY MoveFrame DEF Frame
  <2> HIDE DEF f
  <2>4. view \in Views /\ view.board \in Seq(Marks)
    BY ViewIs
  <2>5. view'.held = view.held /\ view'.syncing = view.syncing /\ view'.board = Append(view.board, mark)
    BY <2>2, <2>4 DEF Views
  <2> SUFFICES ASSUME drops = 0
               PROVE  link' = "open" /\ Len(fetches') = (IF view'.syncing THEN 1 ELSE 0)
                      /\ \E b : OnCourse(b)'
    BY <2>2 DEF Faithful
  <2>6. link' = "open" /\ link = "open" /\ Len(fetches') = IF view'.syncing THEN 1 ELSE 0
    BY <2>2, <2>5 DEF Faithful
  <2>7. PICK a : OnCourse(a)
    BY DEF Faithful
  <2>8. Rest' = Rest
    BY <2>2, <2>5 DEF Rest
  <2>9. Coming(Rest', up')
    <3>1. up' = Append(up, f)
      BY <2>2, <2>6 DEF Send
    <3> QED BY <2>3, <3>1, MoreUp DEF Coming
  <2>10. ~view'.syncing => Refused(down') \/ Ahead(Rest', a, hist', view'.board, up')
    <3> SUFFICES ASSUME ~view.syncing, ~Refused(down)
                 PROVE  Ahead(Rest', a, hist', view'.board, up')
      BY <2>2, <2>5
    <3>1. Along(Rest, a, hist, view.board)
      BY <2>2, <2>7 DEF OnCourse, Ahead
    <3>2. /\ view'.board # <<>> /\ ~MyTurn(view'.board) /\ Front(view'.board) = view.board
      BY <2>2, <2>4, <2>5, PutOnTop
    <3>3. Along(Rest', a, hist', Front(view'.board))
      BY <2>2, <2>8, <3>1, <3>2
    <3> QED BY <2>9, <3>2, <3>3 DEF Ahead
  <2>11. Course(Rest', a, hist')
    BY <2>2, <2>7, <2>8 DEF OnCourse
  <2>12. \A i \in 1..Len(fetches') :
            fetches'[i].answered => Along(Rest', a, hist', fetches'[i].snapshot)
    BY <2>2, <2>7, <2>8 DEF OnCourse
  <2>13. OnCourse(a)'
    BY <2>10, <2>11, <2>12 DEF OnCourse
  <2> QED BY <2>6, <2>13
<1>2. CASE MyRequest
  <2>1. Frame("request", 0, NoMark) \in Sent /\ Send(Frame("request", 0, NoMark))
        /\ UNCHANGED <<view, hist, fetches, link, drops, down>>
    BY <1>2, WordFrame DEF MyRequest, serverVars, linkVars
  <2> QED BY <2>1, MoreUp, SameFaithful DEF Send
<1>3. CASE MyAnswer
  <2>1. /\ Frame("answer", 0, NoMark) \in Sent /\ Send(Frame("answer", 0, NoMark))
        /\ view' = [view EXCEPT !.banner = FALSE] /\ UNCHANGED <<hist, fetches, link, drops, down>>
    BY <1>3, WordFrame DEF MyAnswer, serverVars, linkVars
  <2>2. view'.held = view.held /\ view'.syncing = view.syncing /\ view'.board = view.board
    BY <2>1, ViewIs DEF Views
  <2> QED BY <2>1, <2>2, MoreUp, SameFaithful DEF Send
<1>4. CASE Ping
  <2>1. up' = Append(up, Beat) /\ Beat \in Beats /\ UNCHANGED <<view, hist, fetches, link, drops, down>>
    BY <1>4, PingTyped DEF serverVars, clientVars, linkVars
  <2> HIDE DEF Beat
  <2>2. view'.held = view.held /\ view'.syncing = view.syncing /\ view'.board = view.board
    BY <2>1
  <2> QED BY <2>1, <2>2, MoreUp, SameFaithful
<1> QED BY <1>1, <1>2, <1>3, <1>4

\* A snapshot is the server's board as it is.
LEMMA ServeFaithful ==
    ASSUME Typed, Faithful, NEW i \in DOMAIN fetches, Serve(i)
    PROVE  Faithful'
<1>0. i \in 1..Len(fetches) /\ fetches \in Seq(Fetches)
  BY LenProperties DEF Typed, ViewTyped
<1> DEFINE told == [answered |-> TRUE, snapshot |-> hist]
<1>1. fetches' = [fetches EXCEPT ![i] = told] /\ UNCHANGED <<hist, view, link, drops, up, down>>
  BY DEF Serve, linkVars
<1>2. told \in Fetches /\ told.snapshot = hist
  BY DEF Typed, ServerTyped, Fetches
<1> HIDE DEF told
<1>3. /\ Len(fetches') = Len(fetches)
      /\ \A j \in 1..Len(fetches) : fetches'[j] = IF j = i THEN told ELSE fetches[j]
  BY <1>0, <1>1, <1>2, ExceptSeq
<1> SUFFICES ASSUME drops = 0
             PROVE  link' = "open" /\ Len(fetches') = (IF view'.syncing THEN 1 ELSE 0)
                    /\ \E b : OnCourse(b)'
  BY <1>1 DEF Faithful
<1>4. link' = "open" /\ Len(fetches') = IF view'.syncing THEN 1 ELSE 0
  BY <1>1, <1>3 DEF Faithful
<1>5. PICK a : OnCourse(a)
  BY DEF Faithful
<1>6. Rest' = Rest
  BY <1>1 DEF Rest
<1>7. Along(Rest, a, hist, hist)
  <2>1. Len(Rest) \in Nat /\ Course(Rest, a, hist)
    BY <1>5, ViewIs, LenProperties DEF OnCourse
  <2>2. Len(Rest) \in 0..Len(Rest) /\ Agrees(Rest, a, hist, hist, Len(Rest))
    BY <2>1 DEF Course, Agrees
  <2> QED BY <2>2 DEF Along
<1>8. \A j \in 1..Len(fetches') : fetches'[j].answered => Along(Rest', a, hist', fetches'[j].snapshot)
  BY <1>1, <1>2, <1>3, <1>5, <1>6, <1>7 DEF OnCourse
<1>9. OnCourse(a)'
  BY <1>1, <1>5, <1>6, <1>8 DEF OnCourse
<1> QED BY <1>4, <1>9

\* The head of what is on its way, after what is held.
LEMMA HeadOfRest ==
    ASSUME NEW s \in Seq(Held), NEW d \in Seq(Heard), d # <<>>
    PROVE  /\ Len(s) + 1 \in 1..Len(s \o d) /\ (s \o d)[Len(s) + 1] = Head(d)
           /\ s \o Tail(d) \in Seq(Heard) /\ Len(s \o Tail(d)) = Len(s \o d) - 1
           /\ \A i \in 1..Len(s \o Tail(d)) :
                (s \o Tail(d))[i] = IF i < Len(s) + 1 THEN (s \o d)[i] ELSE (s \o d)[i + 1]
           /\ Head(d) \in Held => Append(s, Head(d)) \o Tail(d) = s \o d
<1>1. /\ Head(d) = d[1] /\ Tail(d) \in Seq(Heard) /\ Len(d) \in Nat \ {0}
      /\ Len(Tail(d)) = Len(d) - 1 /\ \A i \in 1..(Len(d) - 1) : Tail(d)[i] = d[i + 1]
  BY Tailed
<1> DEFINE t == Tail(d)
           q == s \o d
           r == s \o t
<1>2. /\ Len(s) \in Nat /\ q \in Seq(Heard) /\ Len(q) = Len(s) + Len(d)
      /\ \A i \in 1..Len(q) : q[i] = IF i <= Len(s) THEN s[i] ELSE d[i - Len(s)]
  BY RestIs
<1>3. /\ r \in Seq(Heard) /\ Len(r) = Len(s) + Len(t)
      /\ \A i \in 1..Len(r) : r[i] = IF i <= Len(s) THEN s[i] ELSE t[i - Len(s)]
  <2> HIDE DEF t
  <2>1. t \in Seq(Heard)
    BY <1>1 DEF t
  <2> QED BY <2>1, RestIs
<1>4. Len(t) = Len(d) - 1 /\ \A i \in 1..(Len(d) - 1) : t[i] = d[i + 1]
  BY <1>1
<1> HIDE DEF t, q, r
<1>5. Len(s) + 1 \in 1..Len(q) /\ q[Len(s) + 1] = Head(d)
  <2>1. Len(s) + 1 \in 1..Len(q) /\ ~(Len(s) + 1 <= Len(s)) /\ Len(s) + 1 - Len(s) = 1
    BY <1>1, <1>2
  <2> QED BY <1>1, <1>2, <2>1
<1>6. Len(r) = Len(q) - 1
  BY <1>1, <1>2, <1>3, <1>4
<1>7. ASSUME NEW i \in 1..Len(r) PROVE r[i] = IF i < Len(s) + 1 THEN q[i] ELSE q[i + 1]
  <2>1. CASE i <= Len(s)
    BY <1>1, <1>2, <1>3, <1>6, <2>1
  <2>2. CASE i > Len(s)
    <3>1. /\ i - Len(s) \in 1..(Len(d) - 1) /\ (i - Len(s)) + 1 = (i + 1) - Len(s)
          /\ i + 1 \in 1..Len(q) /\ ~(i <= Len(s)) /\ ~(i + 1 <= Len(s)) /\ ~(i < Len(s) + 1)
      BY <1>1, <1>2, <1>3, <1>4, <2>2
    <3> QED BY <1>2, <1>3, <1>4, <3>1
  <2> QED BY <1>2, <1>3, <2>1, <2>2
<1>8. ASSUME Head(d) \in Held PROVE Append(s, Head(d)) \o t = q
  <2> DEFINE e == Append(s, Head(d))
             p == e \o t
  <2>1. /\ e \in Seq(Held) /\ Len(e) = Len(s) + 1 /\ e[Len(s) + 1] = Head(d)
        /\ \A i \in 1..Len(s) : e[i] = s[i]
    BY <1>8, AppendProperties
  <2> HIDE DEF e
  <2>2. /\ p \in Seq(Heard) /\ Len(p) = Len(e) + Len(t)
        /\ \A i \in 1..Len(p) : p[i] = IF i <= Len(e) THEN e[i] ELSE t[i - Len(e)]
    <3>1. t \in Seq(Heard)
      BY <1>1 DEF t
    <3> QED BY <2>1, <3>1, RestIs
  <2> HIDE DEF p
  <2>3. Len(p) = Len(q)
    BY <1>1, <1>2, <1>4, <2>1, <2>2
  <2>4. ASSUME NEW i \in 1..Len(p) PROVE p[i] = q[i]
    <3>1. CASE i <= Len(s)
      <4>1. i \in 1..Len(s) /\ i <= Len(e) /\ i \in 1..Len(q)
        BY <1>2, <2>1, <2>3, <3>1
      <4>2. p[i] = e[i] /\ q[i] = s[i] /\ e[i] = s[i]
        BY <1>2, <2>1, <2>2, <3>1, <4>1
      <4> QED BY <4>2
    <3>2. CASE i = Len(s) + 1
      BY <1>2, <1>5, <2>1, <2>2, <3>2
    <3>3. CASE i > Len(s) + 1
      <4>1. /\ i - Len(e) \in 1..(Len(d) - 1) /\ (i - Len(e)) + 1 = i - Len(s)
            /\ ~(i <= Len(e)) /\ ~(i <= Len(s)) /\ i \in 1..Len(q)
        BY <1>1, <1>2, <1>4, <2>1, <2>2, <3>3
      <4> QED BY <1>2, <1>4, <2>2, <4>1
    <3> QED BY <1>2, <2>1, <2>2, <3>1, <3>2, <3>3
  <2> QED BY <1>2, <2>2, <2>3, <2>4, SeqEqual DEF p, e
<1> QED BY <1>3, <1>5, <1>6, <1>7, <1>8 DEF t, q, r

\* A change is taken in from on its way, or is held.
LEMMA DeliverFaithful ==
    ASSUME Typed, Faithful, Deliver
    PROVE  Faithful'
<1> DEFINE f == Head(down)
           w == On(view, f)
<1>1. /\ down # <<>> /\ down' = Tail(down) /\ UNCHANGED <<hist, link, drops, up>>
      /\ view' = w
      /\ fetches' = IF w.syncing /\ ~view.syncing THEN Append(fetches, NotYet) ELSE fetches
  BY DEF Deliver, Become, serverVars, linkVars
<1>2. /\ view \in Views /\ HoldsFor(view) /\ view.held \in Seq(Held) /\ down \in Seq(Heard)
      /\ Rest \in Seq(Heard) /\ Rest = view.held \o down /\ hist \in Seq(Marks)
      /\ view.board \in Seq(Marks) /\ Front(view.board) \in Seq(Marks)
      /\ ~view.syncing => view.held = <<>> /\ Rest = down
      /\ \A i \in 1..Len(fetches) : fetches[i].snapshot \in Seq(Marks)
  <2>1. Rest = view.held \o down
    BY DEF Rest
  <2> QED BY <2>1, ViewIs
<1>3. f \in Heard /\ (IsChange(f) <=> f \in Held)
  BY <1>1, <1>2, Tailed, HeardIs
<1> DEFINE k == Len(view.held) + 1
<1>4. /\ k \in 1..Len(Rest) /\ Rest[k] = f
      /\ view.held \o Tail(down) \in Seq(Heard) /\ Len(view.held \o Tail(down)) = Len(Rest) - 1
      /\ \A i \in 1..Len(view.held \o Tail(down)) :
            (view.held \o Tail(down))[i] = IF i < k THEN Rest[i] ELSE Rest[i + 1]
      /\ f \in Held => Append(view.held, f) \o Tail(down) = Rest
  BY <1>1, <1>2, HeadOfRest
<1> SUFFICES ASSUME drops = 0
             PROVE  link' = "open" /\ Len(fetches') = (IF view'.syncing THEN 1 ELSE 0)
                    /\ \E b : OnCourse(b)'
  BY <1>1 DEF Faithful
<1>5. link' = "open" /\ Len(fetches) = IF view.syncing THEN 1 ELSE 0
  BY <1>1 DEF Faithful
<1>6. PICK a : OnCourse(a)
  BY DEF Faithful
<1>7. Course(Rest, a, hist)
  BY <1>6 DEF OnCourse
<1>8. Rest' = w.held \o Tail(down)
  BY <1>1 DEF Rest
<1> HIDE DEF f, w, k
<1>9. CASE view.syncing
  <2>1. /\ w.syncing /\ w.board = view.board
        /\ w.held = IF IsChange(f) THEN Append(view.held, f) ELSE view.held
    BY <1>2, <1>3, <1>9, OnRebuilding DEF w
  <2>2. fetches' = fetches /\ Len(fetches') = IF view'.syncing THEN 1 ELSE 0
    BY <1>1, <1>5, <1>9, <2>1
  <2>3. PICK b : /\ Course(Rest', b, hist)
                 /\ \A B \in Seq(Marks) : Along(Rest, a, hist, B) => Along(Rest', b, hist, B)
    <3>1. CASE IsChange(f)
      <4>1. Rest' = Rest
        BY <1>3, <1>4, <1>8, <2>1, <3>1
      <4> QED BY <1>7, <4>1
    <3>2. CASE ~IsChange(f)
      <4>1. Rest' = view.held \o Tail(down)
        BY <1>8, <2>1, <3>2
      <4>2. \E b : /\ Course(view.held \o Tail(down), b, hist)
                   /\ \A B \in Seq(Marks) :
                        Along(Rest, a, hist, B) => Along(view.held \o Tail(down), b, hist, B)
        <5> DEFINE r == view.held \o Tail(down)
        <5>1. k \in 1..Len(Rest) /\ ~IsChange(Rest[k]) /\ Rest \in Seq(Heard) /\ hist \in Seq(Marks)
          BY <1>2, <1>4, <3>2
        <5>2. /\ r \in Seq(Heard) /\ Len(r) = Len(Rest) - 1
              /\ \A i \in 1..Len(r) : r[i] = IF i < k THEN Rest[i] ELSE Rest[i + 1]
          BY <1>4
        <5> HIDE DEF r
        <5>3. \E b : /\ Course(r, b, hist)
                     /\ \A B \in Seq(Marks) : Along(Rest, a, hist, B) => Along(r, b, hist, B)
          BY <1>7, <5>1, <5>2, CoursePassed
        <5> QED BY <5>3 DEF r
      <4> QED BY <4>1, <4>2
    <3> QED BY <3>1, <3>2
  <2>4. \A i \in 1..Len(fetches') : fetches'[i].answered => Along(Rest', b, hist', fetches'[i].snapshot)
    BY <1>1, <1>2, <1>6, <2>2, <2>3 DEF OnCourse
  <2>5. Course(Rest', b, hist') /\ view'.syncing
    BY <1>1, <2>1, <2>3
  <2>6. OnCourse(b)'
    BY <2>4, <2>5 DEF OnCourse
  <2> QED BY <1>5, <2>2, <2>6
<1>10. CASE ~view.syncing
  <2>1. w.held = <<>> /\ Taken(view, f, w) /\ w \in Views /\ (f.kind = "rejected" => w.syncing)
    BY <1>2, <1>3, <1>10, OnFollowing DEF w
  <2>2. /\ Rest = down /\ Rest' = Tail(down) /\ Len(fetches) = 0 /\ Len(view.held) = 0
        /\ Tail(down) \in Seq(Heard) /\ Len(Tail(down)) = Len(down) - 1 /\ Len(down) \in Nat \ {0}
        /\ f = down[1] /\ \A i \in 1..(Len(down) - 1) : Tail(down)[i] = down[i + 1]
    <3>1. Tail(down) \in Seq(Heard) /\ Len(Tail(down)) = Len(down) - 1 /\ Len(down) \in Nat \ {0}
          /\ f = down[1] /\ \A i \in 1..(Len(down) - 1) : Tail(down)[i] = down[i + 1]
      BY <1>1, <1>2, Tailed DEF f
    <3>2. <<>> \o Tail(down) = Tail(down)
      BY <3>1, ConcatEmptySeq
    <3> QED BY <1>2, <1>5, <1>8, <1>10, <2>1, <3>1, <3>2, EmptySeq
  <2>3. \E b : /\ Course(Rest', b, hist)
               /\ \A B \in Seq(Marks), m \in 1..Len(down) :
                     Agrees(down, a, hist, B, m) => Along(Rest', b, hist, B)
    <3>1. 1 \in 0..Len(down) /\ Len(Rest') = Len(down) - 1
          /\ \A i \in 1..Len(Rest') : Rest'[i] = down[i + 1]
      BY <2>2
    <3> QED BY <1>2, <1>7, <2>2, <3>1, CourseLater
  <2>4. CASE w.syncing
    <3>1. PICK b : Course(Rest', b, hist)
      BY <2>3
    <3>2. Len(fetches') = 1 /\ ~fetches'[1].answered
      <4>1. fetches \in Seq(Fetches) /\ NotYet \in Fetches /\ ~NotYet.answered
        BY ViewIs, EmptySeq DEF NotYet, Fetches
      <4>2. fetches' = Append(fetches, NotYet)
        BY <1>1, <1>10, <2>4
      <4>3. Len(fetches') = Len(fetches) + 1 /\ fetches'[Len(fetches) + 1] = NotYet
        BY <4>1, <4>2, AppendProperties
      <4> QED BY <2>2, <4>1, <4>3
    <3>3. \A i \in 1..Len(fetches') : fetches'[i].answered => Along(Rest', b, hist', fetches'[i].snapshot)
      BY <3>2
    <3>4. view'.syncing /\ Course(Rest', b, hist')
      BY <1>1, <2>4, <3>1
    <3>5. OnCourse(b)'
      BY <3>3, <3>4 DEF OnCourse
    <3> QED BY <1>5, <3>2, <3>4, <3>5
  <2>5. CASE ~w.syncing
    <3>1. fetches' = fetches /\ Len(fetches') = 0 /\ view' = w
      BY <1>1, <2>2, <2>5
    <3>2. \E b : /\ Course(Rest', b, hist)
                 /\ \/ Refused(Tail(down)) \/ Along(Rest', b, hist, w.board)
                    \/ Ahead(Rest', b, hist, w.board, up)
      <4>1. CASE Refused(down)
        <5>1. PICK i \in 1..Len(down) : down[i].kind = "rejected"
          BY <4>1 DEF Refused
        <5>2. i # 1
          BY <2>1, <2>2, <2>5, <5>1
        <5>3. i - 1 \in 1..(Len(down) - 1) /\ (i - 1) + 1 = i
          BY <2>2, <5>1, <5>2
        <5>4. Tail(down)[i - 1].kind = "rejected"
          BY <2>2, <5>1, <5>3
        <5>5. Refused(Tail(down))
          BY <2>2, <5>3, <5>4 DEF Refused
        <5> QED BY <2>3, <5>5
      <4>2. CASE ~Refused(down) /\ ~IsChange(f)
        <5>1. w.board = view.board
          BY <2>1, <2>5, <4>2 DEF Taken, IsChange
        <5>2. PICK b : /\ Course(Rest', b, hist)
                       /\ \A B \in Seq(Marks) : Along(Rest, a, hist, B) => Along(Rest', b, hist, B)
          <6>1. /\ 1 \in 1..Len(Rest) /\ ~IsChange(Rest[1]) /\ Len(Rest') = Len(Rest) - 1
                /\ Rest' \in Seq(Heard)
                /\ \A i \in 1..Len(Rest') : Rest'[i] = IF i < 1 THEN Rest[i] ELSE Rest[i + 1]
            BY <2>2, <4>2
          <6> QED BY <1>2, <1>7, <6>1, CoursePassed
        <5>3. CASE Along(Rest, a, hist, view.board)
          BY <1>2, <5>1, <5>2, <5>3
        <5>4. CASE Ahead(Rest, a, hist, view.board, up)
          <6>1. Coming(Rest', up)
            <7>1. ASSUME NEW i \in 1..Len(down), IsChange(down[i])
                  PROVE  \E j \in 1..Len(Rest') : IsChange(Rest'[j])
              <8>1. i # 1
                BY <2>2, <4>2, <7>1
              <8>2. i - 1 \in 1..(Len(down) - 1) /\ (i - 1) + 1 = i
                BY <2>2, <8>1
              <8>3. i - 1 \in 1..Len(Rest') /\ Rest'[i - 1] = down[i]
                BY <2>2, <8>2
              <8> QED BY <7>1, <8>3
            <7> QED BY <2>2, <5>4, <7>1 DEF Ahead, Coming
          <6> QED BY <1>2, <5>1, <5>2, <5>4, <6>1 DEF Ahead
        <5> QED BY <1>6, <1>10, <4>2, <5>2, <5>3, <5>4 DEF OnCourse
      <4>3. CASE ~Refused(down) /\ IsChange(f)
        <5>1. \E m \in 0..Len(down) :
                 \/ Agrees(down, a, hist, view.board, m)
                 \/ view.board # <<>> /\ Agrees(down, a, hist, Front(view.board), m)
          BY <1>6, <1>10, <2>2, <4>3 DEF OnCourse, Along, Ahead
        <5>2. 1 \in 1..Len(down) /\ 1 - 1 = 0 /\ f = down[1]
          BY <2>2
        <5>3. Agrees(down, a, hist, w.board, 1)
          BY <1>2, <1>7, <2>1, <2>2, <2>5, <4>3, <5>1, <5>2, CourseTaken
        <5>4. w.board \in Seq(Marks)
          BY <2>1 DEF Views
        <5> QED BY <2>3, <5>2, <5>3, <5>4
      <4> QED BY <4>1, <4>2, <4>3
    <3>3. PICK b : /\ Course(Rest', b, hist)
                   /\ \/ Refused(Tail(down)) \/ Along(Rest', b, hist, w.board)
                      \/ Ahead(Rest', b, hist, w.board, up)
      BY <3>2
    <3>4. Course(Rest', b, hist') /\ 1..Len(fetches') = {}
      BY <1>1, <3>1, <3>3
    <3>5. \/ Refused(down') \/ Along(Rest', b, hist', view'.board)
          \/ Ahead(Rest', b, hist', view'.board, up')
      BY <1>1, <3>1, <3>3
    <3>6. OnCourse(b)'
      BY <3>4, <3>5 DEF OnCourse
    <3> QED BY <1>5, <2>5, <3>1, <3>6
  <2> QED BY <2>4, <2>5
<1> QED BY <1>9, <1>10

\* The answer of the fetch comes in: its snapshot is on the course of what was held and of what
\* is on its way, and so is the board the replay leaves.
LEMMA FetchedFaithful ==
    ASSUME Typed, Faithful, NEW n \in DOMAIN fetches, Fetched(n)
    PROVE  Faithful'
<1> SUFFICES ASSUME drops = 0
             PROVE  link' = "open" /\ Len(fetches') = (IF view'.syncing THEN 1 ELSE 0)
                    /\ \E b : OnCourse(b)'
  <2>1. drops' = drops
    BY DEF Fetched, linkVars
  <2> QED BY <2>1 DEF Faithful
<1> DEFINE s == fetches[n].snapshot
           held == view.held
           v == Freed(Rebased(view, s))
           w == Adopt(view, s)
           left == RemoveAt(fetches, n)
<1>1. /\ fetches[n].answered /\ UNCHANGED <<hist, link, drops, up, down>>
      /\ view' = w
      /\ fetches' = IF w.syncing THEN Append(left, NotYet) ELSE left
  BY DEF Fetched, Become, serverVars, linkVars
<1>2. /\ view \in Views /\ held \in Seq(Held) /\ down \in Seq(Heard)
      /\ Rest \in Seq(Heard) /\ hist \in Seq(Marks) /\ fetches \in Seq(Fetches)
      /\ n \in 1..Len(fetches) /\ s \in Seq(Marks)
  BY ViewIs, LenProperties
<1>3. /\ Len(held) \in Nat /\ Len(down) \in Nat /\ Len(Rest) = Len(held) + Len(down)
      /\ \A i \in 1..Len(Rest) : Rest[i] = IF i <= Len(held) THEN held[i] ELSE down[i - Len(held)]
  <2>1. Rest = held \o down
    BY DEF Rest
  <2> QED BY <1>2, <2>1, RestIs
<1>4. link' = "open" /\ Len(fetches) = IF view.syncing THEN 1 ELSE 0
  BY <1>1 DEF Faithful
<1>5. PICK a : OnCourse(a)
  BY DEF Faithful
<1>6. Course(Rest, a, hist) /\ Along(Rest, a, hist, s)
  BY <1>1, <1>2, <1>5 DEF OnCourse
<1>7. left \in Seq(Fetches) /\ Len(left) = 0
  <2>1. Len(fetches) = 1
    BY <1>2, <1>4
  <2>2. left \in Seq(Fetches) /\ Len(left) = Len(fetches) - 1
    BY <1>2, Removed
  <2> QED BY <2>1, <2>2
<1>8. /\ v \in Views /\ ~v.syncing /\ v.held = <<>> /\ v.board = s
      /\ w = Replayed(v, held)
  <2>1. /\ Rebased(view, s) \in Views /\ Rebased(view, s).board = s
        /\ Rebased(view, s).held = held /\ w = EndResync(Rebased(view, s))
    BY <1>2, RebasedIs
  <2> QED BY <2>1, FreedIs
<1> HIDE DEF s, held, v, w, left
<1>9. Replays(Rest, a, hist, v, held, 0)
  <2>1. \E m \in 0..Len(Rest) : Agrees(Rest, a, hist, s, m)
    BY <1>6 DEF Along
  <2> QED BY <1>8, <2>1 DEF Replays
<1>10. Replays(Rest, a, hist, w, held, Len(held))
  <2>1. Len(held) <= Len(Rest) /\ \A i \in 1..Len(held) : Rest[i] = held[i]
    BY <1>3
  <2>2. Replays(Rest, a, hist, Replayed(v, held), held, Len(held))
    BY <1>2, <1>6, <1>9, <2>1, ReplayFollows
  <2> QED BY <1>8, <2>2
<1>11. Rest' = w.held \o down
  BY <1>1 DEF Rest
<1>12. w \in Views /\ w.held \in Seq(Held)
  BY <1>10 DEF Replays, Views
<1>13. /\ Rest' \in Seq(Heard) /\ Len(w.held) \in Nat /\ Len(Rest') = Len(w.held) + Len(down)
       /\ \A i \in 1..Len(Rest') :
            Rest'[i] = IF i <= Len(w.held) THEN w.held[i] ELSE down[i - Len(w.held)]
  BY <1>2, <1>11, <1>12, RestIs
<1>14. CASE w.syncing
  <2>1. PICK j \in 0..Len(held) : Left(w.held, held, j, Len(held))
    BY <1>10, <1>14 DEF Replays
  <2>2. /\ j \in 0..Len(Rest) /\ Len(w.held) = Len(held) - j /\ Len(Rest') = Len(Rest) - j
        /\ \A i \in 1..Len(w.held) : w.held[i] = held[i + j]
    BY <1>3, <1>13, <2>1 DEF Left
  <2>3. ASSUME NEW i \in 1..Len(Rest') PROVE Rest'[i] = Rest[i + j]
    <3>1. i + j \in 1..Len(Rest)
      BY <1>3, <1>13, <2>2
    <3>2. CASE i <= Len(w.held)
      <4>1. i \in 1..Len(w.held) /\ i + j <= Len(held)
        BY <1>3, <1>13, <2>2, <3>2
      <4> QED BY <1>3, <1>13, <2>2, <3>1, <3>2, <4>1
    <3>3. CASE i > Len(w.held)
      <4>1. /\ ~(i <= Len(w.held)) /\ ~(i + j <= Len(held))
            /\ (i + j) - Len(held) = i - Len(w.held)
        BY <1>3, <1>13, <2>2, <3>3
      <4> QED BY <1>3, <1>13, <3>1, <4>1
    <3> QED BY <1>13, <3>2, <3>3
  <2>4. PICK b : Course(Rest', b, hist)
    <3>1. \E b : /\ Course(Rest', b, hist)
                 /\ \A B \in Seq(Marks), m \in j..Len(Rest) :
                       Agrees(Rest, a, hist, B, m) => Along(Rest', b, hist, B)
      BY <1>2, <1>6, <1>13, <2>2, <2>3, CourseLater
    <3> QED BY <3>1
  <2>5. Len(fetches') = 1 /\ ~fetches'[1].answered
    <3>1. NotYet \in Fetches /\ ~NotYet.answered
      BY EmptySeq DEF NotYet, Fetches
    <3>2. fetches' = Append(left, NotYet)
      BY <1>1, <1>14
    <3>3. Len(fetches') = Len(left) + 1 /\ fetches'[Len(left) + 1] = NotYet
      BY <1>7, <3>1, <3>2, AppendProperties
    <3> QED BY <1>7, <3>1, <3>3
  <2>6. \A i \in 1..Len(fetches') : fetches'[i].answered => Along(Rest', b, hist', fetches'[i].snapshot)
    BY <2>5
  <2>7. view'.syncing /\ Course(Rest', b, hist')
    BY <1>1, <1>14, <2>4
  <2>8. OnCourse(b)'
    BY <2>6, <2>7 DEF OnCourse
  <2> QED BY <1>4, <2>5, <2>7, <2>8
<1>15. CASE ~w.syncing
  <2>1. w.held = <<>> /\ \E m \in Len(held)..Len(Rest) : Agrees(Rest, a, hist, w.board, m)
    BY <1>10, <1>15 DEF Replays
  <2>2. /\ Len(w.held) = 0 /\ Len(held) \in 0..Len(Rest) /\ Len(Rest') = Len(Rest) - Len(held)
        /\ \A i \in 1..Len(Rest') : Rest'[i] = Rest[i + Len(held)]
    <3>1. Len(w.held) = 0
      BY <2>1
    <3>2. Len(held) \in 0..Len(Rest) /\ Len(Rest') = Len(Rest) - Len(held) /\ Len(Rest') = Len(down)
      BY <1>3, <1>13, <3>1
    <3>3. ASSUME NEW i \in 1..Len(Rest') PROVE Rest'[i] = Rest[i + Len(held)]
      <4>1. /\ i + Len(held) \in 1..Len(Rest) /\ ~(i + Len(held) <= Len(held))
            /\ (i + Len(held)) - Len(held) = i /\ ~(i <= Len(w.held)) /\ i - Len(w.held) = i
        BY <1>3, <3>1, <3>2
      <4> QED BY <1>3, <1>13, <4>1
    <3> QED BY <3>1, <3>2, <3>3
  <2>3. PICK b : /\ Course(Rest', b, hist)
                 /\ \A B \in Seq(Marks), m \in Len(held)..Len(Rest) :
                       Agrees(Rest, a, hist, B, m) => Along(Rest', b, hist, B)
    BY <1>2, <1>6, <1>13, <2>2, CourseLater
  <2>4. w.board \in Seq(Marks)
    BY <1>12 DEF Views
  <2>5. Along(Rest', b, hist, w.board)
    BY <2>1, <2>3, <2>4
  <2>6. fetches' = left /\ Len(fetches') = 0 /\ view' = w /\ hist' = hist
    BY <1>1, <1>7, <1>15
  <2>7. 1..Len(fetches') = {} /\ Course(Rest', b, hist') /\ Along(Rest', b, hist', view'.board)
    BY <2>3, <2>5, <2>6
  <2>8. OnCourse(b)'
    BY <2>7 DEF OnCourse
  <2> QED BY <1>4, <1>15, <2>6, <2>8
<1> QED BY <1>14, <1>15

-----------------------------------------------------------------------------
(* The client of a socket that held is never off its course *)

LEMMA FaithfulInit == Init => Faithful
<1> SUFFICES ASSUME Init PROVE Faithful
  OBVIOUS
<1>1. /\ hist \in Openings /\ view = [board |-> hist, syncing |-> FALSE, held |-> <<>>, banner |-> FALSE]
      /\ fetches = <<>> /\ down = <<>> /\ link = "open"
  BY DEF Init
<1>2. hist \in Seq(Marks) /\ ~view.syncing /\ view.board = hist /\ Len(fetches) = 0
  BY <1>1, SyncAssumption
<1>3. Rest = <<>> /\ Len(Rest) = 0
  BY <1>1, ConcatEmptySeq, EmptySeq DEF Rest
<1> DEFINE a == [i \in 0..0 |-> Len(hist)]
<1>4. a \in [0..0 -> Nat] /\ a[0] = Len(hist)
  BY <1>2, LenProperties
<1> HIDE DEF a
<1>5. Course(Rest, a, hist)
  BY <1>3, <1>4 DEF Course
<1>6. Along(Rest, a, hist, hist)
  <2>1. 0 \in 0..Len(Rest) /\ Agrees(Rest, a, hist, hist, 0)
    BY <1>3, <1>4 DEF Agrees
  <2> QED BY <2>1 DEF Along
<1>7. OnCourse(a)
  BY <1>2, <1>5, <1>6 DEF OnCourse
<1> QED BY <1>1, <1>2, <1>7 DEF Faithful

LEMMA FaithfulStep == Typed /\ Journal /\ Faithful /\ [Next]_vars => Faithful'
<1> SUFFICES ASSUME Typed, Journal, Faithful, [Next]_vars PROVE Faithful'
  OBVIOUS
<1>1. ASSUME NEW mark \in Marks, OpponentMoves(mark) \/ MyMove(mark) PROVE Faithful'
  BY <1>1, OpponentFaithful, PlayerFaithful
<1>2. ASSUME OpponentAsks \/ OpponentAccepts PROVE Faithful'
  BY <1>2, OpponentFaithful
<1>3. CASE Receive
  BY <1>3, ReceiveFaithful
<1>4. ASSUME GateOpens \/ GraceEnds PROVE Faithful'
  BY <1>4, OthersFaithful
<1>5. ASSUME MyRequest \/ MyAnswer \/ Ping PROVE Faithful'
  BY <1>5, PlayerFaithful
<1>6. CASE Deliver
  BY <1>6, DeliverFaithful
<1>7. ASSUME NEW i \in DOMAIN fetches, Serve(i) \/ Fetched(i) PROVE Faithful'
  BY <1>7, ServeFaithful, FetchedFaithful
<1>8. ASSUME Drop \/ Timeout \/ Lose \/ Resume \/ Connect PROVE Faithful'
  BY <1>8, OthersFaithful
<1>9. CASE UNCHANGED vars
  BY <1>9 DEF vars, serverVars, clientVars, linkVars, Faithful, OnCourse, Rest
<1> QED BY <1>1, <1>2, <1>3, <1>4, <1>5, <1>6, <1>7, <1>8, <1>9 DEF Next

\* A quiet client has followed its course to the end.
LEMMA FollowedToTheEnd == Typed /\ Faithful => NothingMissed
<1> SUFFICES ASSUME Typed, Faithful, drops = 0, Quiet PROVE view.board = hist
  BY DEF NothingMissed
<1>1. PICK a : OnCourse(a)
  BY DEF Faithful
<1>2. ~view.syncing /\ Rest = down /\ Rest \in Seq(Heard) /\ hist \in Seq(Marks) /\ view.board \in Seq(Marks)
  BY ViewIs DEF Quiet
<1>3. \A i \in 1..Len(down) : ~IsChange(down[i]) /\ down[i].kind # "rejected"
  BY <1>2, LenProperties DEF Quiet
<1>4. ~Refused(down) /\ \A i \in 1..Len(Rest) : ~IsChange(Rest[i])
  BY <1>2, <1>3 DEF Refused
<1>5. ~Coming(Rest, up)
  <2>1. \A i \in 1..Len(up) : up[i].kind # "move"
    <3>1. up \in Seq(Sent \cup Beats)
      BY DEF Typed, WireTyped
    <3> QED BY <3>1, LenProperties DEF Quiet, MovesIn
  <2> QED BY <1>4, <2>1 DEF Coming
<1>6. Course(Rest, a, hist) /\ Along(Rest, a, hist, view.board)
  BY <1>1, <1>2, <1>4, <1>5 DEF OnCourse, Ahead
<1> QED BY <1>2, <1>4, <1>6, CourseEnds

\* on_remote_move, on_takeback and the resync gate of game.py: while the socket holds, whatever
\* crossed whatever and however long a rebuild took, a client that has nothing left to hear, to
\* fetch or to be answered has the server's board.
THEOREM MissesNothing == Spec => []NothingMissed
<1>1. Spec => [](Typed /\ Journal)
  BY JournalAlways
<1>2. Init => Faithful
  BY FaithfulInit
<1>3. Typed /\ Journal /\ Faithful /\ [Next]_vars => Faithful'
  BY FaithfulStep
<1>4. Typed /\ Journal /\ Faithful => NothingMissed
  BY FollowedToTheEnd
<1> QED BY <1>1, <1>2, <1>3, <1>4, PTL DEF Spec
=============================================================================
