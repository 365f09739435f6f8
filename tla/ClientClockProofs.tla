-------------------------- MODULE ClientClockProofs --------------------------
(***************************************************************************)
(* Proofs about ChessClock and ClientClock, for any time control, gifts,   *)
(* number of plies, length of time and number of frames on their way.      *)
(*                                                                         *)
(* The server's clock first.  A takeback makes an old clock the clock      *)
(* again, so what holds of the clock is shown of every snapshot too, each  *)
(* for the number of plies it was taken at: a clock is Sound for n plies,  *)
(* and IInv says so of the clock and of its snapshots.                     *)
(*                                                                         *)
(* Then the client's.  A step of the composition is a step of the server's *)
(* clock or none, so ChessClock's invariant goes on holding.  What a       *)
(* client shows follows from what the last frame on its way says: that     *)
(* frame is about the clock as it stands, less what has run down since.    *)
(***************************************************************************)
EXTENDS ClientClock, SequenceTheorems, TLAPS

-----------------------------------------------------------------------------
(* The server's clock *)

\* A clock with no side running has no anchor.
Anchored(k) == k.running_for = Nobody <=> k.last_tick_at = Never

\* A clock of a game under way runs for somebody, until a flag has fallen on it.
Ticking(k) == k.running_for # Nobody \/ k.flagged # Nobody

\* What is true of a clock with n plies on the board at some time.
Sound(k, n, at) ==
    /\ k \in Clocks
    /\ Anchored(k)
    /\ Balanced(k)
    /\ RunsFor(k, MoverAt(n), at)
    /\ WithinMeans(k, n)
    /\ FlagSpent(k)

IInv ==
    /\ now \in Nat
    /\ snapshots \in Seq(Clocks)
    /\ over \in BOOLEAN
    /\ thought \in [Colors -> Nat]
    /\ Sound(clock, Len(snapshots), now)
    /\ \A i \in 1..Len(snapshots) : Sound(snapshots[i], i - 1, now) /\ Ticking(snapshots[i])
    /\ ~over => Ticking(clock)

USE ClockAssumption

-----------------------------------------------------------------------------
(* Sides, turns and plies *)

LEMMA Sides ==
    /\ Nobody \notin Colors
    /\ \A c \in Colors : Opponent(c) \in Colors /\ Opponent(c) # c
    /\ Never \notin Nat
BY DEF Colors, Nobody, Opponent, Never

LEMMA Turns ==
    ASSUME NEW n \in Nat
    PROVE  /\ MoverAt(n) \in Colors
           /\ MoverAt(n + 1) = Opponent(MoverAt(n))
<1>1. n % 2 \in {0, 1} /\ (n + 1) % 2 = 1 - (n % 2)
  BY SMT
<1> QED BY <1>1 DEF MoverAt, Opponent, Colors

\* A ply is its mover's, and nobody else's.
LEMMA OnePlyMore ==
    ASSUME NEW n \in Nat, NEW c \in Colors
    PROVE  /\ PliesBy(c, n) \in Nat
           /\ PliesBy(c, n + 1) = PliesBy(c, n) + (IF c = MoverAt(n) THEN 1 ELSE 0)
<1>1. CASE n % 2 = 0
  <2>1. n \div 2 \in Nat /\ (n + 1) \div 2 = n \div 2 /\ (n + 2) \div 2 = n \div 2 + 1
    BY <1>1, SMT
  <2>2. n + 1 + 1 = n + 2
    BY SMT
  <2> QED BY <1>1, <2>1, <2>2 DEF PliesBy, MoverAt, Colors
<1>2. CASE n % 2 # 0
  <2>1. n \div 2 \in Nat /\ (n + 1) \div 2 = n \div 2 + 1 /\ (n + 2) \div 2 = n \div 2 + 1
    BY <1>2, SMT
  <2>2. n + 1 + 1 = n + 2
    BY SMT
  <2> QED BY <1>2, <2>1, <2>2 DEF PliesBy, MoverAt, Colors
<1> QED BY <1>1, <1>2

\* The means of a side with a ply more: an increment for the mover, the same for the other.
LEMMA MeansGrow ==
    ASSUME NEW n \in Nat, NEW c \in Colors
    PROVE  /\ Increment * PliesBy(c, n) \in Nat
           /\ Increment * PliesBy(c, n + 1)
                = Increment * PliesBy(c, n) + (IF c = MoverAt(n) THEN Increment ELSE 0)
<1>1. PliesBy(c, n) \in Nat
  BY OnePlyMore
<1>2. \A p \in Nat : Increment * p \in Nat /\ Increment * (p + 1) = Increment * p + Increment
  BY SMT
<1>3. CASE c = MoverAt(n)
  BY <1>1, <1>2, <1>3, OnePlyMore
<1>4. CASE c # MoverAt(n)
  BY <1>1, <1>2, <1>4, OnePlyMore
<1> QED BY <1>3, <1>4

-----------------------------------------------------------------------------
(* What the clock's own operations do *)

LEMMA ClockFields ==
    ASSUME NEW k \in Clocks
    PROVE  /\ k.remaining \in [Colors -> Nat] /\ k.credited \in [Colors -> Nat]
           /\ k.running_for \in Colors \cup {Nobody} /\ k.flagged \in Colors \cup {Nobody}
           /\ k.last_tick_at \in Nat \cup {Never}
BY DEF Clocks

LEMMA StopSound ==
    ASSUME NEW n \in Nat, NEW k, Sound(k, n, now)
    PROVE  Sound(Stop(k), n, now) /\ Sound(Stop(k), n + 1, now)
<1> DEFINE s == Stop(k)
<1>1. k \in Clocks
  BY DEF Sound
<1>2. /\ s \in Clocks /\ s.running_for = Nobody /\ s.last_tick_at = Never
      /\ s.remaining = k.remaining /\ s.flagged = k.flagged
  BY <1>1 DEF Stop, Clocks
<1>3. Anchored(s) /\ Balanced(s) /\ RunsFor(s, MoverAt(n), now) /\ RunsFor(s, MoverAt(n + 1), now)
  BY <1>2 DEF Anchored, Balanced, RunsFor
<1>4. WithinMeans(s, n) /\ FlagSpent(s)
  BY <1>2 DEF Sound, WithinMeans, FlagSpent
<1>5. WithinMeans(s, n + 1)
  <2> SUFFICES ASSUME NEW c \in Colors
               PROVE  s.remaining[c] <= Initial + Increment * PliesBy(c, n + 1)
    BY DEF WithinMeans
  <2>1. s.remaining[c] \in Nat
    BY <1>2, ClockFields
  <2> QED BY <2>1, <1>4, MeansGrow DEF WithinMeans
<1> HIDE DEF s
<1>6. Sound(s, n, now) /\ Sound(s, n + 1, now)
  BY <1>2, <1>3, <1>4, <1>5 DEF Sound
<1> QED BY <1>6 DEF s

LEMMA TickSound ==
    ASSUME NEW n \in Nat, NEW k, Sound(k, n, now), now \in Nat
    PROVE  /\ Sound(Tick(k), n, now)
           /\ Tick(k).running_for # Nobody =>
                Tick(k).running_for = k.running_for /\ Tick(k).last_tick_at = now
           /\ Ticking(k) => Ticking(Tick(k))
<1> DEFINE side == k.running_for
           left == k.remaining[side] - (now - k.last_tick_at)
           t == Tick(k)
<1>0. k \in Clocks /\ Anchored(k) /\ Balanced(k) /\ RunsFor(k, MoverAt(n), now) /\ WithinMeans(k, n)
      /\ FlagSpent(k)
  BY DEF Sound
<1>1. CASE side = Nobody
  <2>1. t = k
    BY <1>1 DEF Tick
  <2> QED BY <2>1, <1>1
<1>2. CASE side # Nobody
  <2>1. /\ side \in Colors /\ k.last_tick_at \in Nat /\ k.last_tick_at <= now
        /\ side = MoverAt(n)
    BY <1>0, <1>2, ClockFields DEF Anchored, RunsFor
  <2>2. k.remaining \in [Colors -> Nat] /\ k.credited \in [Colors -> Nat] /\ k.flagged = Nobody
    BY <1>0, <1>2, ClockFields DEF FlagSpent
  <2>3. left \in Int /\ left <= k.remaining[side]
    BY <2>1, <2>2
  <2>4. CASE left <= 0
    <3>1. t = [Stop(k) EXCEPT !.remaining[side] = 0, !.flagged = side]
      BY <1>2, <2>4 DEF Tick
    <3>2. /\ t \in Clocks /\ t.running_for = Nobody /\ t.last_tick_at = Never /\ t.flagged = side
          /\ t.remaining = [k.remaining EXCEPT ![side] = 0]
      <4> DEFINE rem == [k.remaining EXCEPT ![side] = 0]
      <4>1. rem \in [Colors -> Nat]
        BY <2>2
      <4>2. t = [remaining |-> rem, running_for |-> Nobody, last_tick_at |-> Never,
                 flagged |-> side, credited |-> k.credited]
        BY <3>1, <1>0 DEF Stop, Clocks
      <4> HIDE DEF rem, t, side
      <4>3. t \in Clocks /\ t.remaining = rem
        BY <4>1, <4>2, <2>1, <2>2 DEF Clocks
      <4> QED BY <4>2, <4>3 DEF rem
    <3>3. Anchored(t) /\ Balanced(t) /\ RunsFor(t, MoverAt(n), now) /\ FlagSpent(t)
      BY <3>2, <2>1, <2>2 DEF Anchored, Balanced, RunsFor, FlagSpent
    <3>4. WithinMeans(t, n)
      <4> SUFFICES ASSUME NEW c \in Colors
                   PROVE  t.remaining[c] <= Initial + Increment * PliesBy(c, n)
        BY DEF WithinMeans
      <4>1. CASE c = side
        BY <4>1, <3>2, <2>2, MeansGrow
      <4>2. CASE c # side
        BY <4>2, <3>2, <2>2, <1>0 DEF WithinMeans
      <4> QED BY <4>1, <4>2
    <3> HIDE DEF t
    <3>5. Sound(t, n, now) /\ t.running_for = Nobody /\ Ticking(t)
      BY <3>2, <3>3, <3>4, <2>1, Sides DEF Sound, Ticking
    <3> QED BY <3>5 DEF t
  <2>5. CASE left > 0
    <3>1. t = [k EXCEPT !.remaining[side] = left, !.last_tick_at = now]
      BY <1>2, <2>3, <2>5 DEF Tick
    <3>2. /\ t \in Clocks /\ t.running_for = side /\ t.last_tick_at = now /\ t.flagged = Nobody
          /\ t.remaining = [k.remaining EXCEPT ![side] = left] /\ t.credited = k.credited
      <4>1. left \in Nat
        BY <2>3, <2>5
      <4> HIDE DEF left
      <4> DEFINE rem == [k.remaining EXCEPT ![side] = left]
      <4>2. rem \in [Colors -> Nat]
        BY <2>2, <4>1
      <4>3. t = [remaining |-> rem, running_for |-> side, last_tick_at |-> now,
                 flagged |-> Nobody, credited |-> k.credited]
        BY <3>1, <1>0, <2>2 DEF Clocks
      <4> HIDE DEF rem, t, side
      <4>4. t \in Clocks /\ t.remaining = rem
        BY <4>2, <4>3, <2>1, <2>2 DEF Clocks
      <4> QED BY <4>3, <4>4 DEF rem
    <3>3. Anchored(t) /\ RunsFor(t, MoverAt(n), now) /\ FlagSpent(t)
      BY <3>2, <2>1, Sides DEF Anchored, RunsFor, FlagSpent
    <3>4. Balanced(t)
      <4>1. k.remaining["white"] + k.remaining["black"] + k.last_tick_at
              = 2 * Initial + k.credited["white"] + k.credited["black"]
        BY <1>0, <1>2 DEF Balanced
      <4>2. CASE side = "white"
        <5>1. t.remaining["white"] = left /\ t.remaining["black"] = k.remaining["black"]
          BY <3>2, <4>2, <2>2 DEF Colors
        <5> QED BY <5>1, <4>1, <4>2, <3>2, <2>1, <2>2 DEF Balanced, Colors
      <4>3. CASE side = "black"
        <5>1. t.remaining["black"] = left /\ t.remaining["white"] = k.remaining["white"]
          BY <3>2, <4>3, <2>2 DEF Colors
        <5> QED BY <5>1, <4>1, <4>3, <3>2, <2>1, <2>2 DEF Balanced, Colors
      <4> QED BY <4>2, <4>3, <2>1 DEF Colors
    <3>5. WithinMeans(t, n)
      <4> SUFFICES ASSUME NEW c \in Colors
                   PROVE  t.remaining[c] <= Initial + Increment * PliesBy(c, n)
        BY DEF WithinMeans
      <4>0. k.remaining[c] <= Initial + Increment * PliesBy(c, n) /\ k.remaining[c] \in Nat
        BY <1>0, <2>2 DEF WithinMeans
      <4>1. CASE c = side
        <5>1. t.remaining[c] = left
          BY <4>1, <3>2, <2>2
        <5> HIDE DEF left
        <5> QED BY <5>1, <4>0, <4>1, <2>3, MeansGrow
      <4>2. CASE c # side
        BY <4>2, <4>0, <3>2, <2>2
      <4> QED BY <4>1, <4>2
    <3> HIDE DEF t
    <3>6. Sound(t, n, now) /\ t.running_for = side /\ t.last_tick_at = now /\ Ticking(t)
      BY <3>2, <3>3, <3>4, <3>5, <1>2 DEF Sound, Ticking
    <3> QED BY <3>6 DEF t
  <2> QED BY <2>3, <2>4, <2>5
<1> QED BY <1>1, <1>2

\* Crediting a side keeps the books balanced.
LEMMA CreditBalances ==
    ASSUME NEW k \in Clocks, NEW c \in Colors, NEW seconds \in Nat
    PROVE  LET g == Credit(k, c, seconds)
           IN  /\ g \in Clocks
               /\ g.running_for = k.running_for /\ g.last_tick_at = k.last_tick_at
               /\ g.flagged = k.flagged
               /\ g.remaining = [k.remaining EXCEPT ![c] = @ + seconds]
               /\ Balanced(k) => Balanced(g)
<1> DEFINE g == Credit(k, c, seconds)
           rem == [k.remaining EXCEPT ![c] = @ + seconds]
           cre == [k.credited EXCEPT ![c] = @ + seconds]
<1>1. rem \in [Colors -> Nat] /\ cre \in [Colors -> Nat]
  BY ClockFields
<1>2. g = [remaining |-> rem, running_for |-> k.running_for, last_tick_at |-> k.last_tick_at,
           flagged |-> k.flagged, credited |-> cre]
  <2>1. g = [k EXCEPT !.remaining = rem, !.credited = cre]
    BY DEF Credit
  <2> HIDE DEF rem, cre, g
  <2> QED BY <2>1 DEF Clocks
<1>3. rem["white"] - cre["white"] = k.remaining["white"] - k.credited["white"]
      /\ rem["black"] - cre["black"] = k.remaining["black"] - k.credited["black"]
  BY ClockFields DEF Colors
<1> HIDE DEF rem, cre, g
<1>4. g \in Clocks
  BY <1>1, <1>2, ClockFields DEF Clocks
<1>5. Balanced(k) => Balanced(g)
  <2> SUFFICES ASSUME Balanced(k), g.running_for # Nobody
               PROVE  Balanced(g)
    BY DEF Balanced
  <2>1. k.last_tick_at \in Int
    BY ClockFields DEF Never
  <2>2. rem["white"] \in Int /\ rem["black"] \in Int /\ cre["white"] \in Int /\ cre["black"] \in Int
        /\ k.remaining["white"] \in Int /\ k.remaining["black"] \in Int
        /\ k.credited["white"] \in Int /\ k.credited["black"] \in Int
    BY <1>1, ClockFields DEF Colors
  <2>3. k.remaining["white"] + k.remaining["black"] + k.last_tick_at
            = 2 * Initial + k.credited["white"] + k.credited["black"]
    BY <1>2 DEF Balanced
  <2>4. rem["white"] + rem["black"] + k.last_tick_at = 2 * Initial + cre["white"] + cre["black"]
    BY <2>1, <2>2, <2>3, <1>3
  <2> QED BY <2>4, <1>2 DEF Balanced
<1> QED BY <1>2, <1>4, <1>5 DEF g, rem

LEMMA MoveMadeSound ==
    ASSUME NEW n \in Nat, NEW k, Sound(k, n, now), Ticking(k), now \in Nat
    PROVE  /\ Sound(OnMoveMade(k, MoverAt(n)), n + 1, now)
           /\ Ticking(OnMoveMade(k, MoverAt(n)))
<1> DEFINE t == Tick(k)
           mover == MoverAt(n)
           g == Credit(t, mover, Increment)
           m == OnMoveMade(k, mover)
<1>1. Sound(t, n, now) /\ Ticking(t)
  BY TickSound
<1>2. t \in Clocks /\ mover \in Colors /\ MoverAt(n + 1) = Opponent(mover)
  BY <1>1, Turns DEF Sound
<1>3. CASE t.flagged # Nobody
  \* a clock with a flag runs for nobody, and one more ply only adds to the means
  <2>1. m = t /\ t.running_for = Nobody
    BY <1>1, <1>3 DEF OnMoveMade, Sound, FlagSpent
  <2>2. WithinMeans(t, n + 1)
    <3> SUFFICES ASSUME NEW c \in Colors
                 PROVE  t.remaining[c] <= Initial + Increment * PliesBy(c, n + 1)
      BY DEF WithinMeans
    <3>1. t.remaining[c] \in Nat
      BY <1>2, ClockFields
    <3> HIDE DEF t
    <3> QED BY <3>1, <1>1, MeansGrow DEF Sound, WithinMeans
  <2> HIDE DEF t
  <2>3. Sound(t, n + 1, now)
    BY <1>1, <2>1, <2>2 DEF Sound, RunsFor
  <2> QED BY <1>1, <2>1, <2>3
<1>4. CASE t.flagged = Nobody
  <2> HIDE DEF t
  <2>1. m = [g EXCEPT !.running_for = Opponent(mover), !.last_tick_at = now]
    BY <1>4 DEF OnMoveMade, t
  <2>2. /\ g \in Clocks /\ g.running_for = t.running_for /\ g.last_tick_at = t.last_tick_at
        /\ g.flagged = Nobody
        /\ g.remaining = [t.remaining EXCEPT ![mover] = @ + Increment]
        /\ Balanced(g)
    BY <1>1, <1>2, <1>4, CreditBalances DEF Sound
  <2> HIDE DEF g, m
  <2>3. /\ m \in Clocks /\ m.running_for = Opponent(mover) /\ m.last_tick_at = now
        /\ m.flagged = Nobody /\ m.remaining = g.remaining /\ m.credited = g.credited
    <3>1. m = [remaining |-> g.remaining, running_for |-> Opponent(mover), last_tick_at |-> now,
               flagged |-> g.flagged, credited |-> g.credited]
      BY <2>1, <2>2 DEF Clocks
    <3>2. Opponent(mover) \in Colors
      BY <1>2, Sides
    <3> QED BY <3>1, <3>2, <2>2, ClockFields DEF Clocks
  <2>4. Anchored(m) /\ RunsFor(m, MoverAt(n + 1), now) /\ FlagSpent(m)
    BY <2>3, <1>2, Sides DEF Anchored, RunsFor, FlagSpent
  <2>5. WithinMeans(m, n + 1)
    <3> SUFFICES ASSUME NEW c \in Colors
                 PROVE  m.remaining[c] <= Initial + Increment * PliesBy(c, n + 1)
      BY DEF WithinMeans
    <3>1. t.remaining \in [Colors -> Nat] /\ t.remaining[c] \in Nat
      BY <1>2, ClockFields
    <3>2. t.remaining[c] <= Initial + Increment * PliesBy(c, n)
      BY <1>1 DEF Sound, WithinMeans
    <3>3. CASE c = mover
      <4>1. m.remaining[c] = t.remaining[c] + Increment
        BY <2>2, <2>3, <3>1, <3>3, <1>2
      <4> QED BY <4>1, <3>1, <3>2, <3>3, MeansGrow
    <3>4. CASE c # mover
      <4>1. m.remaining[c] = t.remaining[c]
        BY <2>2, <2>3, <3>1, <3>4, <1>2
      <4> QED BY <4>1, <3>1, <3>2, <3>4, MeansGrow
    <3> QED BY <3>3, <3>4
  <2>6. Balanced(m)
    \* the charge has moved the anchor to now, where handing the clock over leaves it
    <3>1. t.running_for # Nobody /\ t.last_tick_at = now
      BY <1>1, <1>4, TickSound DEF Ticking, t
    <3> QED BY <2>2, <2>3, <3>1 DEF Balanced
  <2>7. Ticking(m)
    BY <2>3, <1>2, Sides DEF Ticking
  <2>8. Sound(m, n + 1, now)
    BY <2>3, <2>4, <2>5, <2>6 DEF Sound
  <2> QED BY <2>7, <2>8 DEF m
<1> QED BY <1>3, <1>4

LEMMA AddTimeSound ==
    ASSUME NEW n \in Nat, NEW k, Sound(k, n, now), NEW c \in Colors, NEW seconds \in Nat
    PROVE  /\ Sound(AddTime(k, c, seconds), n, now)
           /\ Ticking(k) => Ticking(AddTime(k, c, seconds))
<1> DEFINE h == Headroom(k, c, seconds)
           g == AddTime(k, c, seconds)
<1>1. k \in Clocks /\ k.remaining \in [Colors -> Nat] /\ k.remaining[c] \in Nat
  BY ClockFields DEF Sound
\* a gift stops at the starting time, and a fallen flag refuses it
<1>2. /\ h \in Nat
      /\ h = 0 \/ k.remaining[c] + h <= Initial
      /\ k.flagged # Nobody => h = 0
  BY <1>1 DEF Headroom, Least, Most
<1> HIDE DEF h
<1>3. g = Credit(k, c, h)
  BY DEF AddTime, h
<1>4. /\ g \in Clocks
      /\ g.running_for = k.running_for /\ g.last_tick_at = k.last_tick_at
      /\ g.flagged = k.flagged
      /\ g.remaining = [k.remaining EXCEPT ![c] = @ + h]
      /\ Balanced(g)
  BY <1>1, <1>2, <1>3, CreditBalances DEF Sound
<1> HIDE DEF g
<1>5. Anchored(g) /\ RunsFor(g, MoverAt(n), now) /\ (Ticking(k) => Ticking(g))
  BY <1>4 DEF Sound, Anchored, RunsFor, Ticking
<1>6. WithinMeans(g, n)
  <2> SUFFICES ASSUME NEW d \in Colors
               PROVE  g.remaining[d] <= Initial + Increment * PliesBy(d, n)
    BY DEF WithinMeans
  <2>1. k.remaining[d] \in Nat /\ k.remaining[d] <= Initial + Increment * PliesBy(d, n)
    BY <1>1 DEF Sound, WithinMeans
  <2>2. CASE d = c
    <3>1. g.remaining[d] = k.remaining[c] + h
      BY <1>1, <1>4, <2>2
    <3> QED BY <3>1, <1>1, <1>2, <2>1, <2>2, MeansGrow
  <2>3. CASE d # c
    BY <1>1, <1>4, <2>1, <2>3
  <2> QED BY <2>2, <2>3
<1>7. FlagSpent(g)
  <2> SUFFICES ASSUME g.flagged # Nobody
               PROVE  g.running_for = Nobody /\ g.remaining[g.flagged] = 0
    BY DEF FlagSpent
  <2>1. h = 0 /\ k.running_for = Nobody /\ k.remaining[k.flagged] = 0 /\ k.flagged \in Colors
    BY <1>1, <1>2, <1>4, ClockFields DEF Sound, FlagSpent
  <2>2. g.remaining[g.flagged] = k.remaining[k.flagged]
    BY <2>1, <1>1, <1>4
  <2> QED BY <2>1, <2>2, <1>4
<1> QED BY <1>4, <1>5, <1>6, <1>7 DEF Sound, g

LEMMA TickClockSound ==
    ASSUME IInv
    PROVE  /\ Sound(TickClock, Len(snapshots), now)
           /\ Ticking(clock) => Ticking(TickClock)
<1>1. Len(snapshots) \in Nat
  BY DEF IInv
<1> QED BY <1>1, TickSound DEF IInv, TickClock

\* Time that passes leaves every clock as sound as it was.
LEMMA SoundLater ==
    ASSUME NEW k, NEW n, NEW t \in Nat, NEW u \in Nat, t <= u, Sound(k, n, t)
    PROVE  Sound(k, n, u)
<1>1. k.last_tick_at \in Int
  BY ClockFields DEF Sound, Never
<1>2. RunsFor(k, MoverAt(n), u)
  BY <1>1 DEF Sound, RunsFor
<1> QED BY <1>2 DEF Sound

-----------------------------------------------------------------------------
(* The invariant *)

LEMMA Initially ==
    ASSUME Init
    PROVE  IInv
<1>1. clock \in Clocks
  BY DEF Init, Clocks, Zero, Colors, Nobody
<1>2. Len(snapshots) = 0 /\ snapshots \in Seq(Clocks) /\ MoverAt(0) = "white"
  BY DEF Init, MoverAt
<1>3. Anchored(clock) /\ RunsFor(clock, MoverAt(0), now) /\ FlagSpent(clock) /\ Ticking(clock)
  BY <1>2 DEF Init, Anchored, RunsFor, FlagSpent, Ticking, Nobody, Never
<1>4. Balanced(clock)
  BY DEF Init, Balanced, Zero, Colors
<1>5. WithinMeans(clock, 0)
  BY MeansGrow DEF Init, WithinMeans
<1>6. Sound(clock, 0, now)
  BY <1>1, <1>3, <1>4, <1>5 DEF Sound
<1>7. now \in Nat /\ over \in BOOLEAN /\ thought \in [Colors -> Nat]
  BY DEF Init, Zero
<1> QED BY <1>2, <1>3, <1>6, <1>7 DEF IInv

LEMMA Inductive ==
    ASSUME IInv, [Next]_vars
    PROVE  IInv'
<1> DEFINE n == Len(snapshots)
<1>0. /\ now \in Nat /\ snapshots \in Seq(Clocks) /\ over \in BOOLEAN
      /\ thought \in [Colors -> Nat] /\ n \in Nat
      /\ Sound(clock, n, now) /\ (~over => Ticking(clock))
      /\ \A i \in 1..n : Sound(snapshots[i], i - 1, now) /\ Ticking(snapshots[i])
  BY DEF IInv
\* An action that leaves the time and the snapshots alone has to say what it does to the clock.
<1>1. ASSUME now' = now, snapshots' = snapshots, thought' = thought, over' \in BOOLEAN,
             Sound(clock', n, now), ~over' => Ticking(clock')
      PROVE  IInv'
  <2>1. Sound(clock', n, now') /\ \A i \in 1..n : Sound(snapshots[i], i - 1, now')
    BY <1>0, <1>1, SoundLater
  <2> QED BY <2>1, <1>0, <1>1 DEF IInv, Ticking
<1>2. CASE TimePasses
  <2>1. now' \in Nat /\ now <= now' /\ UNCHANGED <<clock, snapshots, over>>
    BY <1>2, <1>0 DEF TimePasses
  <2>2. thought' \in [Colors -> Nat]
    <3>1. ToMove \in Colors
      BY <1>0, Turns DEF ToMove
    <3> QED BY <1>2, <1>0, <3>1 DEF TimePasses
  <2>3. Sound(clock, n, now') /\ \A i \in 1..n : Sound(snapshots[i], i - 1, now')
    BY <1>0, <2>1, SoundLater
  <2> QED BY <2>1, <2>2, <2>3, <1>0 DEF IInv, Ticking
<1>3. ASSUME NEW mates \in BOOLEAN, Move(mates)
      PROVE  IInv'
  <2>1. /\ snapshots' = Append(snapshots, clock) /\ now' = now /\ thought' = thought
        /\ over' \in BOOLEAN /\ Ticking(clock) /\ clock \in Clocks
    BY <1>3, <1>0 DEF Move, Sound
  <2>2. /\ snapshots' \in Seq(Clocks) /\ Len(snapshots') = n + 1
        /\ \A i \in 1..(n + 1) : snapshots'[i] = IF i = n + 1 THEN clock ELSE snapshots[i]
    BY <2>1, <1>0, AppendProperties
  <2>3. \A i \in 1..(n + 1) : Sound(snapshots'[i], i - 1, now) /\ Ticking(snapshots'[i])
    <3> SUFFICES ASSUME NEW i \in 1..(n + 1)
                 PROVE  Sound(snapshots'[i], i - 1, now) /\ Ticking(snapshots'[i])
      OBVIOUS
    <3>1. CASE i = n + 1
      <4>1. i - 1 = n
        BY <3>1, <1>0
      <4> QED BY <3>1, <4>1, <2>1, <2>2, <1>0
    <3>2. CASE i # n + 1
      <4>1. i \in 1..n
        BY <3>2, <1>0
      <4> QED BY <3>2, <4>1, <2>2, <1>0
    <3> QED BY <3>1, <3>2
  <2>4. Sound(clock', n + 1, now) /\ (~over' => Ticking(clock'))
    <3>1. CASE mates
      BY <1>3, <3>1, <1>0, StopSound DEF Move
    <3>2. CASE ~mates
      BY <1>3, <3>2, <1>0, <2>1, MoveMadeSound DEF Move, ToMove
    <3> QED BY <3>1, <3>2
  <2>5. Sound(clock', n + 1, now') /\ \A i \in 1..(n + 1) : Sound(snapshots'[i], i - 1, now')
    BY <1>0, <2>1, <2>3, <2>4, SoundLater
  <2> QED BY <2>1, <2>2, <2>3, <2>4, <2>5, <1>0 DEF IInv, Ticking
<1>4. CASE Takeback
  <2>1. /\ snapshots # <<>> /\ clock' = snapshots[n] /\ ~over /\ over' = over
        /\ snapshots' = SubSeq(snapshots, 1, n - 1) /\ now' = now /\ thought' = thought
    BY <1>4 DEF Takeback
  <2>2. n \in 1..n /\ n - 1 \in Nat
    BY <2>1, <1>0, EmptySeq
  <2>3. /\ snapshots' \in Seq(Clocks) /\ Len(snapshots') = n - 1
        /\ \A i \in 1..(n - 1) : snapshots'[i] = snapshots[i]
    <3>1. /\ SubSeq(snapshots, 1, n - 1) \in Seq(Clocks)
          /\ Len(SubSeq(snapshots, 1, n - 1)) = n - 1
          /\ \A i \in 1..(n - 1) : SubSeq(snapshots, 1, n - 1)[i] = snapshots[i]
      <4>1. 1 \in Int /\ n - 1 \in Int /\ \A i \in 1..(n - 1) : snapshots[i] \in Clocks
        BY <2>2, <1>0
      <4>2. /\ SubSeq(snapshots, 1, n - 1) \in Seq(Clocks)
            /\ Len(SubSeq(snapshots, 1, n - 1)) = IF 1 <= n - 1 THEN n - 1 - 1 + 1 ELSE 0
            /\ \A i \in 1..(n - 1 - 1 + 1) : SubSeq(snapshots, 1, n - 1)[i] = snapshots[1 + i - 1]
        BY <4>1, SubSeqProperties
      <4>3. n - 1 - 1 + 1 = n - 1 /\ \A i \in Int : 1 + i - 1 = i
        BY <1>0
      <4> QED BY <4>2, <4>3, <2>2
    <3> QED BY <3>1, <2>1
  <2>4. Sound(clock', n - 1, now) /\ Ticking(clock')
    BY <2>1, <2>2, <1>0
  <2>5. ASSUME NEW i \in 1..(n - 1)
        PROVE  Sound(snapshots'[i], i - 1, now) /\ Ticking(snapshots'[i])
    <3>1. i \in 1..n /\ snapshots'[i] = snapshots[i]
      BY <2>2, <2>3
    <3>2. Sound(snapshots[i], i - 1, now) /\ Ticking(snapshots[i])
      BY <3>1, <1>0
    <3> QED BY <3>1, <3>2
  <2>6. Sound(clock', n - 1, now') /\ \A i \in 1..(n - 1) : Sound(snapshots'[i], i - 1, now')
    BY <1>0, <2>1, <2>4, <2>5, SoundLater
  <2> QED BY <2>1, <2>3, <2>4, <2>5, <2>6, <1>0 DEF IInv, Ticking
<1>5. ASSUME NEW giver \in Colors, NEW seconds \in Gifts, GiveTime(giver, seconds)
      PROVE  IInv'
  <2>1. Sound(clock', n, now) /\ Ticking(clock')
    BY <1>5, <1>0, Sides, AddTimeSound DEF GiveTime
  <2> QED BY <2>1, <1>1, <1>5, <1>0 DEF GiveTime
<1>6. CASE Sweep
  BY <1>6, <1>0, <1>1, TickClockSound DEF Sweep
<1>7. CASE Resume
  BY <1>7, <1>0, <1>1, TickClockSound DEF Resume
<1>8. CASE End
  <2>1. UNCHANGED <<now, clock, snapshots, thought>> /\ over' = TRUE
    BY <1>8 DEF End
  <2> QED BY <2>1, <1>0, <1>1
<1>9. CASE UNCHANGED vars
  BY <1>9, <1>0, <1>1 DEF vars
<1> QED BY <1>2, <1>3, <1>4, <1>5, <1>6, <1>7, <1>8, <1>9 DEF Next

LEMMA Always == Spec => []IInv
BY Initially, Inductive, PTL DEF Spec

-----------------------------------------------------------------------------
(* What the runs check *)

\* The clock and every snapshot are clocks, and a stopped clock has no anchor, in every game.
THEOREM TypeCorrect == Spec => []TypeOK
<1>1. IInv => TypeOK
  BY DEF IInv, Sound, Anchored, TypeOK
<1> QED BY <1>1, Always, PTL

\* Every second up to the last charge came off one of the two sides, through any moves, gifts and
\* takebacks.
THEOREM SecondsAreKept == Spec => []SecondsAddUp
<1>1. IInv => SecondsAddUp
  BY DEF IInv, Sound, SecondsAddUp
<1> QED BY <1>1, Always, PTL

\* The clock runs for the side to move, from an anchor in the past.
THEOREM ClockFollowsTurn == Spec => []RunsForMover
<1>1. IInv => RunsForMover
  BY DEF IInv, Sound, RunsForMover, ToMove
<1> QED BY <1>1, Always, PTL

\* No side has more than the starting time and the increments of its plies on the board.
THEOREM GiftsAreCapped == Spec => []NobodyGrowsRich
<1>1. IInv => NobodyGrowsRich
  BY DEF IInv, Sound, NobodyGrowsRich
<1> QED BY <1>1, Always, PTL

\* A fallen flag stands on a spent, stopped clock.
THEOREM FlagIsFinal == Spec => []FlagStandsSpent
<1>1. IInv => FlagStandsSpent
  BY DEF IInv, Sound, FlagStandsSpent
<1> QED BY <1>1, Always, PTL

-----------------------------------------------------------------------------
(* The client's clock *)

\* A clock whose side runs from a moment gone by.
Running(k) ==
    /\ k \in Clocks
    /\ Anchored(k)
    /\ k.running_for # Nobody => k.last_tick_at <= now

\* A clock that counts down for the server's side and shows no less than there is.
Covers(k) ==
    /\ k.running_for = clock.running_for
    /\ \A c \in Colors : Left(k, c) >= Left(clock, c)

\* A frame that says no less than there is.
Says(f) ==
    /\ f.running_for = clock.running_for
    /\ \A c \in Colors : f.remaining[c] >= Left(clock, c)

\* A ply hands the clock to the other side, and a mate ends the game before its news is out.
Consistent(f) ==
    /\ f.kind = "move" => f.running_for \in {Nobody, MoverAt(f.ply)}
    /\ f.mates => over

NoMoveUp == \A i \in 1..Len(up) : up[i].kind # "move"

MirrorTypes ==
    /\ Running(mine)
    /\ plies \in Nat /\ rebuilding \in BOOLEAN
    /\ up \in Seq(Orders) /\ wire \in Seq(Frames)

FramesConsistent == \A i \in 1..Len(wire) : Consistent(wire[i])

LastFrameSays ==
    Live /\ wire # <<>> /\ wire[Len(wire)].kind # "rejected" => Says(wire[Len(wire)])

MirrorCovers ==
    Live /\ wire = <<>> /\ ~rebuilding /\ NoMoveUp /\ mine.flagged = Nobody => Covers(mine)

MirrorInv == IInv /\ MirrorTypes /\ FramesConsistent /\ LastFrameSays /\ MirrorCovers

USE ClockAssumption, ClientClockAssumption

-----------------------------------------------------------------------------
(* What is left of a clock *)

LEMMA LeftOf ==
    ASSUME NEW k, Running(k), now \in Nat, NEW c \in Colors
    PROVE  /\ k.remaining[c] \in Nat
           /\ Left(k, c) \in Int
           /\ Left(k, c) <= k.remaining[c]
           /\ k.running_for # c \/ k.last_tick_at = now => Left(k, c) = k.remaining[c]
<1>1. k.remaining[c] \in Nat
  BY ClockFields DEF Running
<1>2. CASE k.running_for = c
  <2>1. k.last_tick_at \in Nat /\ k.last_tick_at <= now
    BY <1>2, Sides, ClockFields DEF Running, Anchored
  <2> QED BY <1>1, <1>2, <2>1 DEF Left
<1>3. CASE k.running_for # c
  BY <1>1, <1>3 DEF Left
<1> QED BY <1>1, <1>2, <1>3

\* A charge takes nothing off what is left, as long as something is.
LEMMA TickKeepsLeft ==
    ASSUME NEW k, Running(k), now \in Nat
    PROVE  /\ Running(Tick(k))
           /\ Tick(k).flagged = Nobody =>
                /\ Tick(k).running_for = k.running_for
                /\ \A c \in Colors : Left(Tick(k), c) = Left(k, c) /\ Tick(k).remaining[c] = Left(k, c)
<1> DEFINE side == k.running_for
           left == k.remaining[side] - (now - k.last_tick_at)
           t == Tick(k)
<1>0. k \in Clocks /\ k.remaining \in [Colors -> Nat]
  BY ClockFields DEF Running
<1>1. CASE side = Nobody
  <2>1. t = k
    BY <1>1 DEF Tick
  <2>2. \A c \in Colors : Left(k, c) = k.remaining[c]
    BY <1>1, Sides, LeftOf
  <2> QED BY <2>1, <2>2
<1>2. CASE side # Nobody
  <2>1. side \in Colors /\ k.last_tick_at \in Nat /\ k.last_tick_at <= now
    BY <1>0, <1>2, ClockFields DEF Running, Anchored
  <2>2. left \in Int
    BY <1>0, <2>1
  <2>3. CASE left <= 0
    <3>1. t = [Stop(k) EXCEPT !.remaining[side] = 0, !.flagged = side]
      BY <1>2, <2>3 DEF Tick
    <3> DEFINE rem == [k.remaining EXCEPT ![side] = 0]
    <3>2. rem \in [Colors -> Nat]
      BY <1>0
    <3>3. t = [remaining |-> rem, running_for |-> Nobody, last_tick_at |-> Never,
               flagged |-> side, credited |-> k.credited]
      BY <3>1, <1>0 DEF Stop, Clocks
    <3> HIDE DEF rem, t, side
    <3>4. t \in Clocks /\ t.running_for = Nobody /\ t.last_tick_at = Never /\ t.flagged # Nobody
      BY <3>2, <3>3, <2>1, <1>0, <1>2, ClockFields DEF Clocks
    <3>5. Running(t) /\ t.flagged # Nobody
      BY <3>4 DEF Running, Anchored
    <3> QED BY <3>5 DEF t
  <2>4. CASE left > 0
    <3>1. t = [k EXCEPT !.remaining[side] = left, !.last_tick_at = now]
      BY <1>2, <2>2, <2>4 DEF Tick
    <3>2. left \in Nat
      BY <2>2, <2>4
    <3> DEFINE rem == [k.remaining EXCEPT ![side] = left]
    <3>3. rem \in [Colors -> Nat]
      <4> HIDE DEF left
      <4> QED BY <1>0, <3>2
    <3>4. t = [remaining |-> rem, running_for |-> side, last_tick_at |-> now,
               flagged |-> k.flagged, credited |-> k.credited]
      BY <3>1, <1>0 DEF Clocks
    <3>5. \A c \in Colors : rem[c] = Left(k, c)
      BY <1>0, <2>1 DEF Left
    <3> HIDE DEF rem, t
    <3>6. /\ t \in Clocks /\ t.running_for = side /\ t.last_tick_at = now /\ t.remaining = rem
      BY <3>3, <3>4, <2>1, <1>0, ClockFields DEF Clocks
    <3>7. Running(t)
      BY <3>6, <1>2, Sides DEF Running, Anchored
    <3>8. \A c \in Colors : Left(t, c) = t.remaining[c]
      BY <3>6, <3>7, LeftOf
    <3> QED BY <3>5, <3>6, <3>7, <3>8 DEF t
  <2> QED BY <2>2, <2>3, <2>4
<1> QED BY <1>1, <1>2

\* Setting a clock counts the times down from now.
LEMMA RestoreSets ==
    ASSUME NEW k \in Clocks, now \in Nat, NEW f,
           f.remaining \in [Colors -> Nat], f.running_for \in Colors \cup {Nobody}
    PROVE  LET r == RestoreFromServer(k, f)
           IN  /\ Running(r)
               /\ r.running_for = f.running_for /\ r.flagged = k.flagged
               /\ \A c \in Colors : Left(r, c) = f.remaining[c]
<1> DEFINE r == RestoreFromServer(k, f)
           anchor == IF f.running_for = Nobody THEN Never ELSE now
<1>1. r = [remaining |-> f.remaining, running_for |-> f.running_for, last_tick_at |-> anchor,
           flagged |-> k.flagged, credited |-> k.credited]
  <2>1. r = [k EXCEPT !.remaining = f.remaining, !.running_for = f.running_for,
                      !.last_tick_at = anchor]
    BY DEF RestoreFromServer
  <2> HIDE DEF r, anchor
  <2> QED BY <2>1 DEF Clocks
<1> HIDE DEF r
<1>2. r \in Clocks
  BY <1>1, ClockFields DEF Clocks
<1>3. Running(r)
  BY <1>1, <1>2, Sides DEF Running, Anchored
<1>4. \A c \in Colors : Left(r, c) = f.remaining[c]
  BY <1>1, <1>3, Sides, LeftOf
<1> QED BY <1>1, <1>3, <1>4 DEF r

LEMMA UncountedSame ==
    ASSUME NEW k, Running(k)
    PROVE  LET u == Uncounted(k)
           IN  /\ Running(u)
               /\ u.running_for = k.running_for /\ u.flagged = k.flagged
               /\ u.remaining = k.remaining /\ u.last_tick_at = k.last_tick_at
<1> DEFINE u == Uncounted(k)
<1>1. u = [remaining |-> k.remaining, running_for |-> k.running_for,
           last_tick_at |-> k.last_tick_at, flagged |-> k.flagged, credited |-> Zero]
  BY DEF Uncounted, Running, Clocks
<1> HIDE DEF u
<1>2. u \in Clocks
  BY <1>1, ClockFields DEF Running, Clocks, Zero
<1> QED BY <1>1, <1>2 DEF u, Running, Anchored

\* A ply that lands hands the clock over and takes nothing off it.
LEMMA SettledRuns ==
    ASSUME NEW k, Running(k), now \in Nat, NEW mover \in Colors, NEW mates \in BOOLEAN
    PROVE  LET s == Settled(k, mover, mates)
           IN  /\ Running(s)
               /\ ~mates /\ s.flagged = Nobody =>
                    /\ s.running_for = Opponent(mover)
                    /\ \A c \in Colors : Left(s, c) >= Left(k, c)
<1> DEFINE s == Settled(k, mover, mates)
           t == Tick(k)
           g == Credit(t, mover, Increment)
           h == [g EXCEPT !.running_for = Opponent(mover), !.last_tick_at = now]
<1>1. CASE mates
  <2>1. s = [remaining |-> k.remaining, running_for |-> Nobody, last_tick_at |-> Never,
             flagged |-> k.flagged, credited |-> k.credited]
    BY <1>1 DEF Settled, Stop, Running, Clocks
  <2> HIDE DEF s
  <2>2. s \in Clocks
    BY <2>1, ClockFields DEF Running, Clocks
  <2>3. Running(s)
    BY <2>1, <2>2 DEF Running, Anchored
  <2> QED BY <1>1, <2>3 DEF s
<1>2. CASE ~mates
  <2>1. Running(t) /\ t \in Clocks
    BY TickKeepsLeft DEF Running
  <2>2. CASE t.flagged # Nobody
    <3>1. s = Uncounted(t)
      BY <1>2, <2>2 DEF Settled, OnMoveMade
    <3> HIDE DEF t
    <3> QED BY <2>1, <2>2, <3>1, UncountedSame
  <2>3. CASE t.flagged = Nobody
    <3>1. s = Uncounted(h)
      BY <1>2, <2>3 DEF Settled, OnMoveMade
    <3>2. \A c \in Colors : t.remaining[c] = Left(k, c)
      BY <2>3, TickKeepsLeft
    <3> HIDE DEF t
    <3>3. /\ g \in Clocks /\ g.flagged = Nobody
          /\ g.remaining = [t.remaining EXCEPT ![mover] = @ + Increment]
      BY <2>1, <2>3, CreditBalances
    <3> HIDE DEF g
    <3>4. h = [remaining |-> g.remaining, running_for |-> Opponent(mover), last_tick_at |-> now,
               flagged |-> g.flagged, credited |-> g.credited]
      <4>1. h = [g EXCEPT !.running_for = Opponent(mover), !.last_tick_at = now]
        OBVIOUS
      <4> HIDE DEF h
      <4> QED BY <4>1, <3>3 DEF Clocks
    <3> HIDE DEF h
    <3>5. h \in Clocks
      BY <3>3, <3>4, Sides, ClockFields DEF Clocks
    <3>6. Running(h)
      BY <3>4, <3>5, Sides DEF Running, Anchored
    <3>7. Running(s) /\ s.running_for = Opponent(mover) /\ s.remaining = g.remaining
          /\ s.last_tick_at = now
      BY <3>1, <3>4, <3>6, UncountedSame
    <3> HIDE DEF s
    <3>8. ASSUME NEW c \in Colors PROVE Left(s, c) >= Left(k, c)
      <4>1. t.remaining \in [Colors -> Nat] /\ t.remaining[c] \in Nat
        BY <2>1, ClockFields
      <4>2. g.remaining[c] >= t.remaining[c]
        BY <3>3, <4>1
      <4>3. Left(s, c) = g.remaining[c]
        BY <3>7, LeftOf
      <4> QED BY <3>2, <4>2, <4>3
    <3> QED BY <3>7, <3>8 DEF s
  <2> QED BY <2>2, <2>3
<1> QED BY <1>1, <1>2

\* A gift takes nothing off a clock either.
LEMMA GivenRuns ==
    ASSUME NEW k, Running(k), now \in Nat, NEW d \in Colors, NEW seconds \in Nat
    PROVE  LET g == Given(k, d, seconds)
           IN  /\ Running(g)
               /\ g.running_for = k.running_for /\ g.flagged = k.flagged
               /\ \A c \in Colors : Left(g, c) >= Left(k, c)
<1> DEFINE h == Headroom(k, d, seconds)
           a == AddTime(k, d, seconds)
           g == Given(k, d, seconds)
<1>1. k \in Clocks /\ k.remaining \in [Colors -> Nat] /\ k.remaining[d] \in Nat
  BY ClockFields DEF Running
<1>2. h \in Nat
  BY <1>1 DEF Headroom, Least, Most
<1>3. a = Credit(k, d, h)
  BY DEF AddTime
<1> HIDE DEF h
<1>4. /\ a \in Clocks
      /\ a.running_for = k.running_for /\ a.last_tick_at = k.last_tick_at
      /\ a.flagged = k.flagged
      /\ a.remaining = [k.remaining EXCEPT ![d] = @ + h]
  BY <1>1, <1>2, <1>3, CreditBalances
<1>5. g = Uncounted(a)
  BY DEF Given
<1> HIDE DEF a
<1>6. Running(a)
  BY <1>4 DEF Running, Anchored
<1>7. /\ Running(g)
      /\ g.running_for = k.running_for /\ g.flagged = k.flagged
      /\ g.remaining = a.remaining /\ g.last_tick_at = k.last_tick_at
  BY <1>4, <1>5, <1>6, UncountedSame
<1> HIDE DEF g
<1>8. ASSUME NEW c \in Colors PROVE Left(g, c) >= Left(k, c)
  <2>1. g.remaining[c] \in Nat /\ k.remaining[c] \in Nat /\ g.remaining[c] >= k.remaining[c]
    BY <1>1, <1>2, <1>4, <1>7, LeftOf
  <2>2. CASE k.running_for # c
    BY <2>1, <2>2, <1>7 DEF Left
  <2>3. CASE k.running_for = c
    <3>1. k.last_tick_at \in Nat
      BY <2>3, Sides, ClockFields DEF Running, Anchored
    <3> QED BY <2>1, <2>3, <3>1, <1>7 DEF Left
  <2> QED BY <2>2, <2>3
<1> QED BY <1>7, <1>8 DEF g

-----------------------------------------------------------------------------
(* The server's steps *)

LEMMA OrderTypes ==
    ASSUME up \in Seq(Orders), up # <<>>
    PROVE  /\ Tail(up) \in Seq(Orders)
           /\ Head(up).kind = "move" => Head(up).mates \in BOOLEAN
           /\ Head(up).kind = "gift" => Head(up).seconds \in Gifts
<1>1. Head(up) \in Orders /\ Tail(up) \in Seq(Orders)
  BY HeadTailProperties
<1> QED BY <1>1 DEF Orders

\* Every step of the composition is one of the server's clock, or leaves it alone.
LEMMA ServerSteps ==
    ASSUME up \in Seq(Orders), [MirrorNext]_mirrorVars
    PROVE  [Next]_vars
<1>1. ASSUME NEW mates \in BOOLEAN, OpponentMoves(mates) PROVE [Next]_vars
  BY <1>1 DEF OpponentMoves, Next
<1>2. ASSUME NEW mates \in BOOLEAN, MyMove(mates) PROVE [Next]_vars
  BY <1>2 DEF MyMove, serverVars, vars
<1>3. CASE TakesBack
  BY <1>3 DEF TakesBack, Next
<1>4. CASE Receive
  <2>1. CASE Head(up).kind = "move" /\ TakeMove(Head(up).mates)
    <3>1. Head(up).mates \in BOOLEAN
      BY <1>4, <2>1, OrderTypes DEF Receive
    <3>2. Move(Head(up).mates) \/ UNCHANGED serverVars
      BY <2>1 DEF TakeMove
    <3> QED BY <3>1, <3>2 DEF Next, serverVars, vars
  <2>2. CASE Head(up).kind = "gift" /\ GiveTime(Me, Head(up).seconds)
    <3>1. Head(up).seconds \in Gifts
      BY <1>4, <2>2, OrderTypes DEF Receive
    <3> QED BY <2>2, <3>1 DEF Next
  <2> QED BY <1>4, <2>1, <2>2 DEF Receive
<1>5. CASE Silently
  BY <1>5 DEF Silently, Next
<1>6. ASSUME NEW seconds \in Gifts, OpponentGives(seconds) PROVE [Next]_vars
  BY <1>6, Sides DEF OpponentGives, Next
<1>7. ASSUME NEW seconds \in Gifts, MyGift(seconds) PROVE [Next]_vars
  BY <1>7 DEF MyGift, serverVars, vars
<1>8. CASE Deliver
  BY <1>8 DEF Deliver, serverVars, vars
<1>9. CASE Rebuilt
  BY <1>9 DEF Rebuilt, Next
<1>10. CASE ClientTicks
  BY <1>10 DEF ClientTicks, serverVars, vars
<1>11. CASE UNCHANGED mirrorVars
  BY <1>11 DEF mirrorVars, serverVars, vars
<1> QED
  BY <1>1, <1>2, <1>3, <1>4, <1>5, <1>6, <1>7, <1>8, <1>9, <1>10, <1>11 DEF MirrorNext

\* What a frame says is what the clock says, the seconds since its last charge not yet taken off.
LEMMA FrameSays ==
    ASSUME IInv', NEW kind, NEW mates
    PROVE  LET f == Frame(kind, mates)
           IN  /\ f.kind = kind /\ f.mates = mates
               /\ f.ply = Len(snapshots') /\ f.ply \in Nat
               /\ f.running_for = clock'.running_for
               /\ f.running_for \in Colors \cup {Nobody}
               /\ f.running_for \in {Nobody, MoverAt(f.ply)}
               /\ f.remaining \in [Colors -> Nat]
               /\ \A c \in Colors : f.remaining[c] >= Left(clock, c)'
<1> DEFINE f == Frame(kind, mates)
<1>1. f = [kind |-> kind, ply |-> Len(snapshots'), mates |-> mates,
           remaining |-> clock'.remaining, running_for |-> clock'.running_for]
  BY DEF Frame
<1> HIDE DEF f
<1>2. /\ snapshots' \in Seq(Clocks) /\ now' \in Nat
      /\ clock' \in Clocks /\ Anchored(clock)'
      /\ RunsFor(clock', MoverAt(Len(snapshots')), now')
  BY DEF IInv, Sound
<1>3. clock'.remaining \in [Colors -> Nat] /\ clock'.running_for \in Colors \cup {Nobody}
      /\ clock'.last_tick_at \in Nat \cup {Never}
  BY <1>2, ClockFields
<1>4. ASSUME NEW c \in Colors PROVE clock'.remaining[c] >= Left(clock, c)'
  <2>1. CASE clock'.running_for = c
    <3>1. clock'.last_tick_at \in Nat /\ clock'.last_tick_at <= now'
      BY <1>2, <1>3, <2>1, Sides DEF Anchored, RunsFor
    <3> QED BY <1>2, <1>3, <3>1, <2>1 DEF Left
  <2>2. CASE clock'.running_for # c
    BY <1>3, <2>2 DEF Left
  <2> QED BY <2>1, <2>2
<1>5. clock'.running_for \in {Nobody, MoverAt(Len(snapshots'))} /\ Len(snapshots') \in Nat
  BY <1>2 DEF RunsFor
<1> QED BY <1>1, <1>3, <1>4, <1>5 DEF f

\* A step that tells the client of itself.
LEMMA Telling ==
    ASSUME MirrorInv, IInv', NEW kind \in {"move", "back", "gift", "rejected"},
           NEW mates \in BOOLEAN, Tells(kind, mates), UNCHANGED <<mine, plies, rebuilding>>,
           now' = now, up' \in Seq(Orders), over \/ mates => over'
    PROVE  MirrorInv'
<1> DEFINE f == Frame(kind, mates)
           n == Len(wire)
<1>1. /\ f.kind = kind /\ f.mates = mates /\ f.ply \in Nat
      /\ f.running_for = clock'.running_for
      /\ f.running_for \in Colors \cup {Nobody}
      /\ f.running_for \in {Nobody, MoverAt(f.ply)}
      /\ f.remaining \in [Colors -> Nat]
      /\ \A c \in Colors : f.remaining[c] >= Left(clock, c)'
  BY FrameSays
<1>2. f \in Frames
  <2>1. f = [kind |-> f.kind, ply |-> f.ply, mates |-> f.mates,
             remaining |-> f.remaining, running_for |-> f.running_for]
    BY DEF Frame
  <2> HIDE DEF f
  <2> QED BY <1>1, <2>1 DEF Frames
<1>3. wire' = Append(wire, f) /\ wire \in Seq(Frames) /\ n \in Nat
  BY DEF Tells, MirrorInv, MirrorTypes
<1> HIDE DEF f
<1>4. /\ wire' \in Seq(Frames) /\ Len(wire') = n + 1
      /\ \A i \in 1..(n + 1) : wire'[i] = IF i = n + 1 THEN f ELSE wire[i]
  BY <1>2, <1>3, AppendProperties
<1>5. wire' # <<>> /\ wire'[Len(wire')] = f
  BY <1>3, <1>4
<1>6. MirrorTypes'
  BY <1>4 DEF MirrorInv, MirrorTypes, Running, Anchored
<1>7. FramesConsistent'
  <2> SUFFICES ASSUME NEW i \in 1..(n + 1)
               PROVE  /\ wire'[i].kind = "move" =>
                            wire'[i].running_for \in {Nobody, MoverAt(wire'[i].ply)}
                      /\ wire'[i].mates => over'
    BY <1>4 DEF FramesConsistent, Consistent
  <2>1. CASE i = n + 1
    BY <2>1, <1>1, <1>4
  <2>2. CASE i # n + 1
    <3>1. i \in 1..n /\ wire'[i] = wire[i]
      BY <1>3, <1>4, <2>2
    <3> QED BY <3>1 DEF MirrorInv, FramesConsistent, Consistent
  <2> QED BY <2>1, <2>2
<1>8. LastFrameSays'
  BY <1>1, <1>5 DEF LastFrameSays, Says
<1>9. MirrorCovers'
  BY <1>5 DEF MirrorCovers
<1> QED BY <1>6, <1>7, <1>8, <1>9 DEF MirrorInv

LEMMA ReceiveStep ==
    ASSUME MirrorInv, IInv', Receive
    PROVE  MirrorInv'
<1>1. /\ up # <<>> /\ up' = Tail(up) /\ UNCHANGED <<mine, plies, rebuilding>>
      /\ up \in Seq(Orders) /\ up' \in Seq(Orders)
  BY OrderTypes DEF Receive, MirrorInv, MirrorTypes
<1>2. CASE Head(up).kind = "move" /\ TakeMove(Head(up).mates)
  <2> DEFINE mates == Head(up).mates
  <2>1. mates \in BOOLEAN
    BY <1>1, <1>2, OrderTypes
  <2>2. CASE Move(mates) /\ Tells("move", mates)
    <3>1. now' = now /\ (over \/ mates => over')
      BY <2>2 DEF Move
    <3> HIDE DEF mates
    <3> QED BY <1>1, <2>1, <2>2, <3>1, Telling
  <2>3. CASE UNCHANGED serverVars /\ Tells("rejected", FALSE)
    BY <1>1, <2>3, Telling DEF serverVars
  <2> QED BY <1>2, <2>2, <2>3 DEF TakeMove
<1>3. CASE GiveTime(Me, Head(up).seconds) /\ Tells("gift", FALSE)
  BY <1>1, <1>3, Telling DEF GiveTime
<1> QED BY <1>2, <1>3 DEF Receive

\* A charge of the server's, or none: as much is left as before.
LEMMA ChargedLeft ==
    ASSUME IInv, now' = now, clock' \in {clock, TickClock}, clock'.flagged = Nobody
    PROVE  /\ clock.flagged = Nobody
           /\ clock'.running_for = clock.running_for
           /\ \A c \in Colors : Left(clock, c)' = Left(clock, c)
<1>1. Running(clock) /\ now \in Nat
  BY DEF IInv, Sound, Running, RunsFor
<1>2. clock.flagged = Nobody
  <2>1. CASE clock' = TickClock /\ clock.flagged # Nobody
    BY <2>1 DEF TickClock
  <2> QED BY <2>1
<1>3. CASE clock' = clock
  BY <1>2, <1>3 DEF Left
<1>4. CASE clock' = TickClock
  <2>1. clock' = Tick(clock)
    BY <1>2, <1>4 DEF TickClock
  <2>2. /\ clock'.running_for = clock.running_for
        /\ \A c \in Colors : Left(clock', c) = Left(clock, c)
    BY <1>1, <2>1, TickKeepsLeft
  <2>3. \A c \in Colors : Left(clock, c)' = Left(clock', c)
    BY DEF Left
  <2> QED BY <1>2, <2>2, <2>3
<1> QED BY <1>3, <1>4

LEMMA SilentStep ==
    ASSUME MirrorInv, IInv', Silently
    PROVE  MirrorInv'
<1>0. /\ UNCHANGED clientVars /\ now \in Nat /\ now' \in Nat /\ now <= now'
      /\ over => over'
  BY DEF Silently, clientVars, MirrorInv, IInv, TimePasses, Sweep, End
<1>1. /\ mine' = mine /\ plies' = plies /\ rebuilding' = rebuilding /\ up' = up /\ wire' = wire
  BY <1>0 DEF clientVars
<1>2. MirrorTypes'
  <2>1. Running(mine)'
    <3>1. Running(mine) /\ mine.last_tick_at \in Int
      BY ClockFields DEF MirrorInv, MirrorTypes, Running, Never
    <3> QED BY <3>1, <1>0, <1>1 DEF Running, Anchored
  <2> QED BY <1>1, <2>1 DEF MirrorInv, MirrorTypes
<1>3. FramesConsistent'
  BY <1>0, <1>1 DEF MirrorInv, FramesConsistent, Consistent
<1>4. ASSUME Live'
      PROVE  /\ Live /\ clock'.running_for = clock.running_for
             /\ \A c \in Colors : Left(clock, c)' <= Left(clock, c) /\ Left(clock, c) \in Int
             /\ Covers(mine) => Covers(mine)'
  <2>0. Running(clock) /\ Running(mine)
    BY DEF MirrorInv, MirrorTypes, IInv, Sound, Running, RunsFor
  <2>1. \A c \in Colors : Left(clock, c) \in Int /\ Left(mine, c) \in Int
    BY <1>0, <2>0, LeftOf
  <2>2. CASE TimePasses
    <3>1. clock' = clock /\ over' = over /\ now' = now + 1
      BY <2>2 DEF TimePasses
    <3>2. ASSUME NEW k, Running(k), NEW c \in Colors
          PROVE  k.remaining[c] - (IF k.running_for = c THEN now' - k.last_tick_at ELSE 0)
                   = Left(k, c) - (IF k.running_for = c THEN 1 ELSE 0)
      <4>1. k.remaining[c] \in Nat /\ k.last_tick_at \in Int
        BY <3>2, <1>0, LeftOf, ClockFields DEF Running, Never
      <4> QED BY <4>1, <3>1, <1>0 DEF Left
    <3>3. /\ \A c \in Colors : Left(clock, c)' = Left(clock, c)
                                   - (IF clock.running_for = c THEN 1 ELSE 0)
          /\ \A c \in Colors : Left(mine, c)' = Left(mine, c)
                                   - (IF mine.running_for = c THEN 1 ELSE 0)
      BY <2>0, <3>1, <3>2, <1>1 DEF Left
    <3>4. Covers(mine) => Covers(mine)'
      BY <3>1, <3>3, <2>1, <1>1 DEF Covers
    <3> QED BY <1>4, <2>1, <3>1, <3>3, <3>4 DEF Live
  <2>3. CASE Sweep
    <3>1. clock' = TickClock /\ now' = now /\ ~over /\ clock'.flagged = Nobody
      BY <2>3, <1>4 DEF Sweep, Live
    <3>2. /\ clock.flagged = Nobody /\ clock'.running_for = clock.running_for
          /\ \A c \in Colors : Left(clock, c)' = Left(clock, c)
      BY <3>1, ChargedLeft DEF MirrorInv
    <3>3. \A c \in Colors : Left(mine, c)' = Left(mine, c)
      BY <3>1, <1>1 DEF Left
    <3>4. Covers(mine) => Covers(mine)'
      BY <3>2, <3>3, <1>1 DEF Covers
    <3> QED BY <2>1, <3>1, <3>2, <3>4 DEF Live
  <2>4. CASE End
    BY <2>4, <1>4 DEF End, Live
  <2> QED BY <2>2, <2>3, <2>4 DEF Silently
<1>5. LastFrameSays'
  <2> SUFFICES ASSUME Live', wire # <<>>, wire[Len(wire)].kind # "rejected"
               PROVE  /\ wire[Len(wire)].running_for = clock'.running_for
                      /\ \A c \in Colors : wire[Len(wire)].remaining[c] >= Left(clock, c)'
    BY <1>1 DEF LastFrameSays, Says
  <2> DEFINE f == wire[Len(wire)]
  <2>1. f \in Frames
    <3>1. Len(wire) \in 1..Len(wire)
      BY EmptySeq DEF MirrorInv, MirrorTypes
    <3> QED BY <3>1 DEF MirrorInv, MirrorTypes
  <2>2. Says(f)
    BY <1>4 DEF MirrorInv, LastFrameSays
  <2> HIDE DEF f
  <2>3. ASSUME NEW c \in Colors PROVE f.remaining[c] >= Left(clock, c)'
    <3>1. f.remaining[c] \in Nat /\ f.remaining[c] >= Left(clock, c)
      BY <2>1, <2>2 DEF Frames, Says
    <3>2. Left(clock, c)' <= Left(clock, c) /\ Left(clock, c) \in Int /\ Left(clock, c)' \in Int
      <4>1. clock'.remaining[c] \in Nat /\ clock'.last_tick_at \in Int
        BY ClockFields DEF IInv, Sound, Never
      <4>2. Left(clock, c)' \in Int
        BY <4>1, <1>0 DEF Left
      <4> QED BY <1>4, <4>2
    <3> QED BY <3>1, <3>2
  <2> QED BY <1>4, <2>2, <2>3 DEF Says, f
<1>6. MirrorCovers'
  BY <1>1, <1>4 DEF MirrorInv, MirrorCovers, NoMoveUp
<1> QED BY <1>2, <1>3, <1>5, <1>6 DEF MirrorInv

-----------------------------------------------------------------------------
(* The client's steps *)

\* While the server does nothing, what there is to say stays the same.
LEMMA ServerStill ==
    ASSUME MirrorInv, UNCHANGED serverVars
    PROVE  /\ \A c \in Colors : Left(clock, c)' = Left(clock, c)
           /\ Live' = Live
           /\ UNCHANGED wire => FramesConsistent' /\ LastFrameSays'
<1>1. now' = now /\ clock' = clock /\ over' = over
  BY DEF serverVars
<1>2. \A c \in Colors : Left(clock, c)' = Left(clock, c)
  BY <1>1 DEF Left
<1>3. Live' = Live
  BY <1>1 DEF Live
<1>4. ASSUME UNCHANGED wire PROVE FramesConsistent' /\ LastFrameSays'
  BY <1>1, <1>2, <1>3, <1>4
     DEF MirrorInv, FramesConsistent, Consistent, LastFrameSays, Says
<1> QED BY <1>2, <1>3, <1>4

\* What a clock of the client's comes to, the server's standing still.
LEMMA MineCovers ==
    ASSUME MirrorInv, UNCHANGED serverVars, mine'.running_for = clock.running_for,
           \A c \in Colors : Left(mine', c) >= Left(clock, c)
    PROVE  Covers(mine)'
<1>1. now' = now /\ clock' = clock
  BY DEF serverVars
<1>2. \A c \in Colors : Left(mine, c)' = Left(mine', c) /\ Left(clock, c)' = Left(clock, c)
  BY <1>1 DEF Left
<1> QED BY <1>1, <1>2 DEF Covers

LEMMA MineRuns ==
    ASSUME UNCHANGED serverVars, Running(mine')
    PROVE  Running(mine)'
BY DEF serverVars, Running, Anchored

LEMMA ClientTicksStep ==
    ASSUME MirrorInv, IInv', ClientTicks
    PROVE  MirrorInv'
<1>1. /\ UNCHANGED serverVars /\ mine.flagged = Nobody /\ mine' = Tick(mine)
      /\ plies' = plies /\ rebuilding' = rebuilding /\ up' = up /\ wire' = wire
      /\ Running(mine) /\ now \in Nat
  BY DEF ClientTicks, MirrorInv, MirrorTypes, IInv
<1>2. /\ Running(mine')
      /\ mine'.flagged = Nobody =>
           /\ mine'.running_for = mine.running_for
           /\ \A c \in Colors : Left(mine', c) = Left(mine, c)
  BY <1>1, TickKeepsLeft
<1>3. MirrorTypes'
  BY <1>1, <1>2, MineRuns DEF MirrorInv, MirrorTypes
<1>4. MirrorCovers'
  <2> SUFFICES ASSUME Live', wire = <<>>, ~rebuilding, NoMoveUp, mine'.flagged = Nobody
               PROVE  Covers(mine)'
    BY <1>1 DEF MirrorCovers, NoMoveUp
  <2>1. Covers(mine)
    BY <1>1, ServerStill DEF MirrorInv, MirrorCovers
  <2> QED BY <1>1, <1>2, <2>1, MineCovers DEF Covers
<1> QED BY <1>1, <1>3, <1>4, ServerStill DEF MirrorInv

LEMMA MyMoveStep ==
    ASSUME MirrorInv, IInv', NEW mates \in BOOLEAN, MyMove(mates)
    PROVE  MirrorInv'
<1> DEFINE order == [kind |-> "move", mates |-> mates]
<1>1. /\ UNCHANGED serverVars /\ mine' = Settled(mine, Me, mates) /\ plies' = plies + 1
      /\ up' = Append(up, order) /\ rebuilding' = rebuilding /\ wire' = wire
      /\ Running(mine) /\ now \in Nat /\ plies \in Nat /\ up \in Seq(Orders)
  BY DEF MyMove, MirrorInv, MirrorTypes, IInv
<1>2. order \in Orders
  BY DEF Orders
<1>3. /\ up' \in Seq(Orders) /\ Len(up) + 1 \in 1..Len(up')
      /\ up'[Len(up) + 1].kind = "move"
  <2> HIDE DEF order
  <2>1. up' \in Seq(Orders) /\ Len(up') = Len(up) + 1 /\ up'[Len(up) + 1] = order
    BY <1>1, <1>2, AppendProperties
  <2> QED BY <2>1, <1>1 DEF order
<1>4. Running(mine')
  BY <1>1, SettledRuns
<1>5. MirrorTypes'
  BY <1>1, <1>3, <1>4, MineRuns DEF MirrorInv, MirrorTypes
<1>6. MirrorCovers'
  BY <1>3 DEF MirrorCovers, NoMoveUp
<1> QED BY <1>1, <1>5, <1>6, ServerStill DEF MirrorInv

LEMMA MyGiftStep ==
    ASSUME MirrorInv, IInv', NEW seconds \in Gifts, MyGift(seconds)
    PROVE  MirrorInv'
<1> DEFINE order == [kind |-> "gift", seconds |-> seconds]
<1>1. /\ UNCHANGED serverVars /\ mine' = Given(mine, Opponent(Me), seconds)
      /\ plies' = plies /\ up' \in {up, Append(up, order)}
      /\ rebuilding' = rebuilding /\ wire' = wire
      /\ Running(mine) /\ now \in Nat /\ up \in Seq(Orders)
  BY DEF MyGift, MirrorInv, MirrorTypes, IInv
<1>2. order \in Orders
  BY DEF Orders
<1> HIDE DEF order
<1>3. up' \in Seq(Orders) /\ (NoMoveUp' => NoMoveUp)
  <2>1. CASE up' = Append(up, order)
    <3>1. /\ up' \in Seq(Orders) /\ Len(up') = Len(up) + 1
          /\ \A i \in 1..Len(up) : up'[i] = up[i]
      BY <1>1, <1>2, <2>1, AppendProperties
    <3>2. \A i \in 1..Len(up) : i \in 1..Len(up')
      BY <3>1, <1>1
    <3> QED BY <3>1, <3>2 DEF NoMoveUp
  <2>2. CASE up' = up
    BY <1>1, <2>2 DEF NoMoveUp
  <2> QED BY <1>1, <2>1, <2>2
<1>4. Opponent(Me) \in Colors /\ seconds \in Nat
  BY Sides
<1>5. /\ Running(mine')
      /\ mine'.running_for = mine.running_for /\ mine'.flagged = mine.flagged
      /\ \A c \in Colors : Left(mine', c) >= Left(mine, c)
  BY <1>1, <1>4, GivenRuns
<1>6. MirrorTypes'
  BY <1>1, <1>3, <1>5, MineRuns DEF MirrorInv, MirrorTypes
<1>7. MirrorCovers'
  <2> SUFFICES ASSUME Live', wire = <<>>, ~rebuilding, NoMoveUp', mine'.flagged = Nobody
               PROVE  Covers(mine)'
    BY <1>1 DEF MirrorCovers
  <2>1. Covers(mine)
    BY <1>1, <1>3, <1>5, ServerStill DEF MirrorInv, MirrorCovers
  <2>2. ASSUME NEW c \in Colors PROVE Left(mine', c) >= Left(clock, c)
    <3>1. Left(mine', c) \in Int /\ Left(mine, c) \in Int /\ Left(clock, c) \in Int
      <4>1. Running(clock)
        BY DEF MirrorInv, IInv, Sound, Running, RunsFor
      <4> QED BY <4>1, <1>1, <1>5, LeftOf
    <3> QED BY <3>1, <2>1, <1>5 DEF Covers
  <2> QED BY <1>1, <1>5, <2>1, <2>2, MineCovers DEF Covers
<1> QED BY <1>1, <1>6, <1>7, ServerStill DEF MirrorInv

\* A frame taken in leaves a clock that covers the server's, if the frame says what there is.
LEMMA TakenIn ==
    ASSUME MirrorInv, UNCHANGED serverVars, NEW f \in Frames, Consistent(f),
           \/ f.kind = "move" /\ OnMove(f)
           \/ OnTakeback(f) \/ OnGiveTime(f) \/ Rebuild
    PROVE  /\ Running(mine') /\ plies' \in Nat /\ rebuilding' \in BOOLEAN
           /\ Live /\ Says(f) /\ ~rebuilding' /\ mine'.flagged = Nobody => Covers(mine)'
<1>0. /\ Running(mine) /\ mine \in Clocks /\ now \in Nat
      /\ plies \in Nat /\ rebuilding \in BOOLEAN
      /\ f.remaining \in [Colors -> Nat] /\ f.running_for \in Colors \cup {Nobody}
      /\ f.mates \in BOOLEAN /\ f.ply \in Nat
  BY DEF MirrorInv, MirrorTypes, IInv, Running, Frames
<1> DEFINE set == RestoreFromServer(mine, f)
<1>1. /\ Running(set) /\ set.running_for = f.running_for
      /\ \A c \in Colors : Left(set, c) = f.remaining[c]
  BY <1>0, RestoreSets
<1>2. ASSUME NEW r, Running(r), r.running_for = f.running_for,
             \A c \in Colors : Left(r, c) = f.remaining[c], mine' = r, Says(f)
      PROVE  Covers(mine)'
  BY <1>2, MineCovers DEF Says
<1>3. CASE mine' = set /\ plies' = f.ply /\ rebuilding' = rebuilding
  BY <1>0, <1>1, <1>2, <1>3
<1>4. CASE mine' = set /\ plies' = plies /\ rebuilding' \in {rebuilding, TRUE}
  BY <1>0, <1>1, <1>2, <1>4
<1>5. CASE Rebuild
  BY <1>0, <1>5 DEF Rebuild
<1>6. CASE /\ f.ply = plies + 1 /\ f.kind = "move"
           /\ mine' = Settled(set, MoverAt(plies), f.mates)
           /\ plies' = f.ply /\ rebuilding' = rebuilding
  <2> DEFINE mover == MoverAt(plies)
  <2>1. mover \in Colors /\ MoverAt(f.ply) = Opponent(mover)
    BY <1>0, <1>6, Turns
  <2> HIDE DEF mover, set
  <2>2. /\ Running(mine')
        /\ ~f.mates /\ mine'.flagged = Nobody =>
             /\ mine'.running_for = Opponent(mover)
             /\ \A c \in Colors : Left(mine', c) >= Left(set, c)
    BY <1>0, <1>1, <1>6, <2>1, SettledRuns DEF mover
  <2>3. ASSUME Live, Says(f), mine'.flagged = Nobody
        PROVE  Covers(mine)'
    <3>1. ~f.mates
      BY <2>3 DEF Live, Consistent
    <3>2. clock.running_for # Nobody
      BY <2>3 DEF Live, MirrorInv, IInv, Ticking
    <3>3. f.running_for = clock.running_for /\ f.running_for = MoverAt(f.ply)
      BY <1>6, <2>3, <3>2 DEF Says, Consistent
    <3>4. ASSUME NEW c \in Colors PROVE Left(mine', c) >= Left(clock, c)
      <4>1. Left(mine', c) \in Int /\ Left(set, c) \in Int /\ Left(clock, c) \in Int
        <5>1. Running(clock)
          BY DEF MirrorInv, IInv, Sound, Running, RunsFor
        <5> QED BY <5>1, <1>0, <1>1, <2>2, LeftOf
      <4>2. Left(mine', c) >= Left(set, c) /\ Left(set, c) = f.remaining[c]
        BY <1>1, <2>2, <2>3, <3>1
      <4>3. f.remaining[c] >= Left(clock, c)
        BY <2>3 DEF Says
      <4> QED BY <4>1, <4>2, <4>3
    <3> QED BY <2>1, <2>2, <2>3, <3>1, <3>3, <3>4, MineCovers
  <2> QED BY <1>0, <1>6, <2>2, <2>3
<1>7. CASE f.kind = "move" /\ OnMove(f)
  BY <1>3, <1>4, <1>5, <1>6, <1>7 DEF OnMove
<1>8. CASE OnGiveTime(f)
  BY <1>4, <1>8 DEF OnGiveTime
<1>9. ASSUME NEW flag \in {Nobody, mine.flagged},
             mine' = RestoreFromServer([mine EXCEPT !.flagged = flag], f),
             plies' = f.ply, rebuilding' = rebuilding
      PROVE  /\ Running(mine') /\ plies' \in Nat /\ rebuilding' \in BOOLEAN
             /\ Live /\ Says(f) /\ ~rebuilding' /\ mine'.flagged = Nobody => Covers(mine)'
  <2> DEFINE k == [mine EXCEPT !.flagged = flag]
             r == RestoreFromServer(k, f)
  <2>1. k \in Clocks
    BY <1>0 DEF Clocks
  <2> HIDE DEF k
  <2>2. /\ Running(r) /\ r.running_for = f.running_for
        /\ \A c \in Colors : Left(r, c) = f.remaining[c]
    BY <1>0, <2>1, RestoreSets
  <2>3. mine' = r
    BY <1>9 DEF k
  <2> HIDE DEF r
  <2> QED BY <1>0, <1>2, <1>9, <2>2, <2>3
<1>10. CASE OnTakeback(f)
  BY <1>5, <1>9, <1>10 DEF OnTakeback
<1> QED BY <1>5, <1>7, <1>8, <1>10

LEMMA DeliverStep ==
    ASSUME MirrorInv, IInv', Deliver
    PROVE  MirrorInv'
<1> DEFINE f == Head(wire)
           n == Len(wire)
<1>1. /\ UNCHANGED serverVars /\ up' = up /\ wire # <<>> /\ ~rebuilding
      /\ wire' = Tail(wire) /\ wire \in Seq(Frames) /\ n \in Nat
  BY DEF Deliver, MirrorInv, MirrorTypes
<1>2. /\ n # 0 /\ f = wire[1] /\ f \in Frames
      /\ wire' \in Seq(Frames) /\ Len(wire') = n - 1
      /\ \A i \in 1..(n - 1) : wire'[i] = wire[i + 1]
  BY <1>1, EmptySeq, HeadTailProperties, ElementOfSeq
<1>3. Consistent(f)
  BY <1>1, <1>2 DEF MirrorInv, FramesConsistent
<1> HIDE DEF f
<1>4. \/ f.kind = "move" /\ OnMove(f)
      \/ OnTakeback(f) \/ OnGiveTime(f) \/ Rebuild
  BY DEF Deliver, f
<1>5. f.kind = "rejected" => rebuilding'
  BY DEF Deliver, Rebuild, f
<1>6. /\ Running(mine') /\ plies' \in Nat /\ rebuilding' \in BOOLEAN
      /\ Live /\ Says(f) /\ ~rebuilding' /\ mine'.flagged = Nobody => Covers(mine)'
  BY <1>1, <1>2, <1>3, <1>4, TakenIn
<1>7. MirrorTypes'
  BY <1>1, <1>2, <1>6, MineRuns DEF MirrorInv, MirrorTypes
<1>8. FramesConsistent'
  <2> SUFFICES ASSUME NEW i \in 1..(n - 1)
               PROVE  /\ wire'[i].kind = "move" =>
                            wire'[i].running_for \in {Nobody, MoverAt(wire'[i].ply)}
                      /\ wire'[i].mates => over'
    BY <1>2 DEF FramesConsistent, Consistent
  <2>1. i + 1 \in 1..n /\ wire'[i] = wire[i + 1] /\ over' = over
    BY <1>1, <1>2 DEF serverVars
  <2> QED BY <2>1 DEF MirrorInv, FramesConsistent, Consistent
<1>9. LastFrameSays'
  <2> SUFFICES ASSUME Live', wire' # <<>>, wire'[Len(wire')].kind # "rejected"
               PROVE  /\ wire'[Len(wire')].running_for = clock'.running_for
                      /\ \A c \in Colors : wire'[Len(wire')].remaining[c] >= Left(clock, c)'
    BY DEF LastFrameSays, Says
  <2>1. Len(wire') = n - 1 /\ n - 1 # 0
    BY <1>2, EmptySeq
  <2>2. n - 1 \in 1..(n - 1) /\ n - 1 + 1 = n
    BY <2>1, <1>1, <1>2
  <2>3. wire'[Len(wire')] = wire[n]
    BY <1>2, <2>1, <2>2
  <2>4. Says(wire[n])
    BY <1>1, <2>3, ServerStill DEF MirrorInv, LastFrameSays
  <2> QED BY <1>1, <2>3, <2>4, ServerStill DEF Says, serverVars
<1>10. MirrorCovers'
  <2> SUFFICES ASSUME Live', wire' = <<>>, ~rebuilding', NoMoveUp', mine'.flagged = Nobody
               PROVE  Covers(mine)'
    BY DEF MirrorCovers
  <2>1. n = 1
    BY <1>1, <1>2
  <2>2. Says(f)
    BY <1>1, <1>2, <1>5, <2>1, ServerStill DEF MirrorInv, LastFrameSays
  <2> QED BY <1>1, <1>6, <2>2, ServerStill
<1> QED BY <1>7, <1>8, <1>9, <1>10 DEF MirrorInv

LEMMA RebuiltStep ==
    ASSUME MirrorInv, IInv', Rebuilt
    PROVE  MirrorInv'
<1> DEFINE f == Frame("resumed", FALSE)
<1>1. /\ mine' = RestoreFromServer(Fresh, f) /\ plies' = Len(snapshots)
      /\ rebuilding' = FALSE /\ wire' = <<>> /\ up' = up
      /\ now' = now /\ now \in Nat /\ Len(snapshots) \in Nat
  BY DEF Rebuilt, Resume, MirrorInv, IInv
<1>2. /\ f.running_for = clock'.running_for
      /\ f.running_for \in Colors \cup {Nobody}
      /\ f.remaining \in [Colors -> Nat]
      /\ \A c \in Colors : f.remaining[c] >= Left(clock, c)'
  BY FrameSays
<1> HIDE DEF f
<1>3. Fresh \in Clocks
  BY <1>1 DEF Fresh, Clocks, Zero, Colors
<1>4. /\ Running(mine') /\ mine'.running_for = clock'.running_for
      /\ \A c \in Colors : Left(mine', c) = f.remaining[c]
  BY <1>1, <1>2, <1>3, RestoreSets
<1>5. MirrorTypes'
  <2>1. Running(mine)'
    BY <1>1, <1>4 DEF Running, Anchored
  <2>2. wire' \in Seq(Frames) /\ plies' \in Nat /\ up' \in Seq(Orders)
    BY <1>1 DEF MirrorInv, MirrorTypes
  <2> QED BY <1>1, <2>1, <2>2 DEF MirrorTypes
<1>6. FramesConsistent' /\ LastFrameSays'
  <2>1. Len(wire') = 0
    BY <1>1
  <2> QED BY <1>1, <2>1 DEF FramesConsistent, LastFrameSays
<1>7. MirrorCovers'
  <2>1. \A c \in Colors : Left(mine, c)' = Left(mine', c)
    BY <1>1 DEF Left
  <2>2. Covers(mine)'
    BY <1>2, <1>4, <2>1 DEF Covers
  <2> QED BY <2>2 DEF MirrorCovers
<1> QED BY <1>5, <1>6, <1>7 DEF MirrorInv

-----------------------------------------------------------------------------
(* The invariant *)

LEMMA MirrorInitially ==
    ASSUME MirrorInit
    PROVE  MirrorInv
<1>1. IInv
  BY Initially DEF MirrorInit
<1>2. /\ mine = clock /\ plies = 0 /\ rebuilding = FALSE
      /\ up = <<>> /\ wire = <<>>
  BY DEF MirrorInit
<1>3. Running(clock)
  BY <1>1 DEF IInv, Sound, Running, RunsFor
<1>4. MirrorTypes
  <2>1. Running(mine)
    BY <1>2, <1>3
  <2>2. up \in Seq(Orders) /\ wire \in Seq(Frames)
    BY <1>2
  <2> QED BY <1>2, <2>1, <2>2 DEF MirrorTypes
<1>5. FramesConsistent /\ LastFrameSays
  BY <1>2 DEF FramesConsistent, LastFrameSays
<1>6. MirrorCovers
  <2>1. \A c \in Colors : Left(clock, c) \in Int
    BY <1>1, <1>3, LeftOf DEF IInv
  <2> QED BY <1>2, <2>1 DEF MirrorCovers, Covers
<1> QED BY <1>1, <1>4, <1>5, <1>6 DEF MirrorInv

LEMMA MirrorInductive ==
    ASSUME MirrorInv, [MirrorNext]_mirrorVars
    PROVE  MirrorInv'
<1>1. [Next]_vars
  BY ServerSteps DEF MirrorInv, MirrorTypes
<1>2. IInv'
  BY <1>1, Inductive DEF MirrorInv
<1>3. ASSUME NEW mates \in BOOLEAN, OpponentMoves(mates) PROVE MirrorInv'
  BY <1>2, <1>3, Telling DEF OpponentMoves, Move, MirrorInv, MirrorTypes
<1>4. ASSUME NEW mates \in BOOLEAN, MyMove(mates) PROVE MirrorInv'
  BY <1>2, <1>4, MyMoveStep
<1>5. CASE TakesBack
  BY <1>2, <1>5, Telling DEF TakesBack, Takeback, MirrorInv, MirrorTypes
<1>6. CASE Receive
  BY <1>2, <1>6, ReceiveStep
<1>7. CASE Silently
  BY <1>2, <1>7, SilentStep
<1>8. ASSUME NEW seconds \in Gifts, OpponentGives(seconds) PROVE MirrorInv'
  BY <1>2, <1>8, Telling DEF OpponentGives, GiveTime, MirrorInv, MirrorTypes
<1>9. ASSUME NEW seconds \in Gifts, MyGift(seconds) PROVE MirrorInv'
  BY <1>2, <1>9, MyGiftStep
<1>10. CASE Deliver
  BY <1>2, <1>10, DeliverStep
<1>11. CASE Rebuilt
  BY <1>2, <1>11, RebuiltStep
<1>12. CASE ClientTicks
  BY <1>2, <1>12, ClientTicksStep
<1>13. CASE UNCHANGED mirrorVars
  BY <1>2, <1>13
     DEF mirrorVars, serverVars, clientVars, MirrorInv, MirrorTypes, Running, Anchored,
         FramesConsistent, Consistent, LastFrameSays, Says, MirrorCovers, Covers, NoMoveUp,
         Live, Left
<1> QED
  BY <1>3, <1>4, <1>5, <1>6, <1>7, <1>8, <1>9, <1>10, <1>11, <1>12, <1>13 DEF MirrorNext

LEMMA MirrorAlways == MirrorSpec => []MirrorInv
BY MirrorInitially, MirrorInductive, PTL DEF MirrorSpec

-----------------------------------------------------------------------------
(* What the run checks *)

\* A client that has heard everything counts down for the same side as the server and never
\* shows less time than there is, whatever frames crossed on the way.
THEOREM ClientShowsNoLess == MirrorSpec => []ShowsNoLess
<1>1. MirrorInv => ShowsNoLess
  <2> SUFFICES ASSUME MirrorInv, Quiet, Live, mine.flagged = Nobody
               PROVE  Covers(mine)
    BY DEF ShowsNoLess, Covers
  <2>1. NoMoveUp
    BY DEF Quiet, NoMoveUp
  <2> QED BY <2>1 DEF MirrorInv, MirrorCovers, Quiet
<1> QED BY <1>1, MirrorAlways, PTL

\* With a client at its other end, frames of its on their way and rebuilds in between, the
\* server's clock is still the clock of ChessClock, and keeps what is proved of it.
THEOREM MirrorKeepsClock == MirrorSpec => Spec
<1>1. MirrorInit => Init
  BY DEF MirrorInit
<1>2. MirrorInv /\ [MirrorNext]_mirrorVars => [Next]_vars
  BY ServerSteps DEF MirrorInv, MirrorTypes
<1> QED BY <1>1, <1>2, MirrorAlways, PTL DEF MirrorSpec, Spec
=============================================================================
