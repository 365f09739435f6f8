---------------------------- MODULE ClientProofs ----------------------------
(***************************************************************************)
(* What holds of Client for any number of sessions, tokens and drops.      *)
(*                                                                         *)
(* A token is only ever in one place: with one session, or on its way from *)
(* the probe over the menu's offer and the fetch to an answer.  So a seat  *)
(* has one holder, and while a start has been told it is that holder who   *)
(* has heard it.  An answer nobody waits for any more is there only in the *)
(* frame that began something else, whose session has nothing to end it.   *)
(*                                                                         *)
(* The events of a frame are folded over the screen; what the fold returns *)
(* is found by induction, from the well-foundedness of the naturals.       *)
(***************************************************************************)
EXTENDS Client, SequenceTheorems, WellFoundedInduction, TLAPS

USE ClientAssumption DEF ClientAssumption

-----------------------------------------------------------------------------
(* The inductive invariant *)

Events == {"start", "result", "running", "closed", "timeout",
           "refused", "failed", "lost", "crashed"}
Endings == {"closed", "timeout"}
Screens == {"menu", "waiting", "board", "result", "dialog"}
Entries == [room : 0..MaxTokens, token : 0..MaxTokens]

Records == [pc : Threads, room : 0..MaxTokens, token : 0..MaxTokens,
            stop : BOOLEAN, cancelling : BOOLEAN, queued : BOOLEAN,
            active : BOOLEAN, post : BOOLEAN,
            wire : {"none", "up", "down"}, inbound : Seq(Events)]

Typed ==
    /\ seat \in Seats /\ issued \in 0..MaxTokens /\ drops \in 0..MaxDrops
    /\ run \in [Sessions -> Records]
    /\ used \in 0..MaxSessions /\ client \in 0..used
    /\ \A s \in Sessions : run[s].pc = "none" <=> s > used
    /\ screen \in Screens /\ button \in BOOLEAN /\ frame \in {"input", "update", "refresh"}
    /\ pending \in Entries
    /\ probe \in [alive : BOOLEAN, sent : BOOLEAN, stale : BOOLEAN, entry : Entries]
    /\ fetch \in [alive : BOOLEAN, stale : BOOLEAN, at : 0..MaxSessions, entry : Entries]
    /\ answer \in [given : BOOLEAN, ok : BOOLEAN, at : 0..MaxSessions, entry : Entries]

\* The places an entry is kept in on its way from the probe to a session.
Kept == <<probe.entry, pending, fetch.entry, answer.entry>>

\* Every token has been issued, and is in one place only.
Tokens ==
    /\ seat.kind # "none" => seat.token \in 1..issued /\ seat.room \in 1..issued
    /\ \A s \in Sessions : run[s].token <= issued /\ run[s].room <= issued
    /\ \A i \in 1..4 : Kept[i].token <= issued /\ Kept[i].room <= issued
    /\ \A s, u \in Sessions : s # u /\ run[s].token # 0 => run[s].token # run[u].token
    /\ \A s \in Sessions, i \in 1..4 : Kept[i].token # 0 => run[s].token # Kept[i].token
    /\ \A i, j \in 1..4 : i # j /\ Kept[i].token # 0 => Kept[i].token # Kept[j].token

\* Who is in the room holds the seat, and whoever holds it has heard what was told.
Presence ==
    /\ \A s \in Sessions : Up(s) => run[s].pc = "open"
    /\ \A s \in Sessions : InRoom(s) /\ seat.kind # "none" => Holds(s)
    /\ seat.kind = "playing" /\ ~seat.told => ~Present
    /\ seat.kind = "playing" /\ seat.told =>
         \A s \in Sessions : Holds(s) => run[s].active /\ ~run[s].post
    /\ seat.kind = "finished" =>
         \A s \in Sessions : InRoom(s) => run[s].post /\ ~run[s].active

\* A fetch whose answer will be looked at.
Awaited == fetch.alive /\ ~fetch.stale
NoProbeAwaited == ~probe.alive \/ probe.stale

\* Nothing is begun while an answer is awaited, and no second one asked for before the
\* first is looked at; if something was begun, it was in this very frame.
Answers ==
    /\ Awaited => /\ fetch.at = used /\ pending = NoEntry /\ ~button
                  /\ ~answer.given /\ NoProbeAwaited
    /\ answer.given => /\ ~button
                       /\ frame = "refresh" => pending = NoEntry /\ NoProbeAwaited
    /\ answer.given /\ used # answer.at =>
         /\ frame = "update" /\ client # Nothing
         /\ run[client].inbound \in Seq(Events \ Endings)

IInv == Typed /\ Tokens /\ Presence /\ Answers

-----------------------------------------------------------------------------
(* Folding the events of a frame *)

LEMMA LeastNatural ==
    ASSUME NEW T \in SUBSET Nat, T # {}
    PROVE  \E n \in T : \A m \in T : ~(m < n)
<1>1. IsWellFoundedOn(OpToRel(<, Nat), Nat)
  BY NatLessThanWellFounded
<1>2. \E x \in T : \A y \in T : ~(<<y, x>> \in OpToRel(<, Nat))
  BY <1>1, WFMin, Zenon
<1> QED BY <1>2 DEF OpToRel

LEMMA AllNaturals ==
    ASSUME NEW P \in SUBSET Nat, 0 \in P, \A n \in P : n + 1 \in P
    PROVE  P = Nat
<1> SUFFICES ASSUME Nat \ P # {} PROVE FALSE
  OBVIOUS
<1>1. PICK n \in Nat \ P : \A m \in Nat \ P : ~(m < n)
  BY LeastNatural
<1>2. n - 1 \in Nat /\ n - 1 < n
  BY <1>1
<1> QED BY <1>1, <1>2

LEMMA Largest ==
    ASSUME NEW t, NEW m \in t, t \subseteq Int, \A x \in t : x <= m
    PROVE  Max(t) = m
<1>1. \E x \in t : \A y \in t : x >= y
  OBVIOUS
<1>2. Max(t) \in t /\ \A y \in t : Max(t) >= y
  BY <1>1 DEF Max
<1>3. Max(t) \in Int /\ m \in Int /\ Max(t) <= m /\ Max(t) >= m
  BY <1>2
<1> HIDE DEF Max
<1> QED BY <1>3

HandledFrom(ui, events) == FoldLeft(Handle, ui, events)

\* The screens an update goes through, one event after the other.
InTurn(c, ui, events) ==
    /\ c[0] = ui
    /\ \A k \in 0..(Len(events) - 1) : c[k + 1] = Handle(c[k], events[k + 1])
    /\ HandledFrom(ui, events) = c[Len(events)]

\* The fold goes through the events one by one.
LEMMA HandledInTurn ==
    ASSUME NEW b, NEW E, NEW s \in Seq(E)
    PROVE  \E c : InTurn(c, b, s)
<1> DEFINE Iter(f, n) == f = [t \in SUBSET (1..n) |->
                                IF t = {} THEN b ELSE Handle(f[t \ {Max(t)}], s[Max(t)])]
<1>1. \A n \in Nat : \E f : Iter(f, n)
  <2> DEFINE P == {n \in Nat : \E f : Iter(f, n)}
  <2>1. 0 \in P
    <3> SUFFICES Iter([t \in SUBSET (1..0) |-> b], 0)
      OBVIOUS
    <3>1. \A t \in SUBSET (1..0) : t = {}
      OBVIOUS
    <3> QED BY <3>1
  <2>2. ASSUME NEW n \in P PROVE n + 1 \in P
    <3>1. PICK f : Iter(f, n)
      OBVIOUS
    <3> DEFINE g == [t \in SUBSET (1..(n + 1)) |->
                       IF n + 1 \in t THEN Handle(f[t \ {n + 1}], s[n + 1]) ELSE f[t]]
    <3>2. ASSUME NEW t \in SUBSET (1..(n + 1))
          PROVE  g[t] = IF t = {} THEN b ELSE Handle(g[t \ {Max(t)}], s[Max(t)])
      <4>1. CASE n + 1 \in t
        <5>1. Max(t) = n + 1
          <6>1. t \subseteq Int /\ \A x \in t : x <= n + 1
            OBVIOUS
          <6> QED BY <4>1, <6>1, Largest
        <5>2. g[t \ {n + 1}] = f[t \ {n + 1}]
          OBVIOUS
        <5> QED BY <4>1, <5>1, <5>2
      <4>2. CASE n + 1 \notin t
        <5>1. t \in SUBSET (1..n) /\ g[t] = f[t] 
          BY <4>2
        <5>2. t \ {Max(t)} \in SUBSET (1..(n + 1)) /\ n + 1 \notin t \ {Max(t)}
          BY <4>2
        <5>3. g[t \ {Max(t)}] = f[t \ {Max(t)}]
          BY <5>2
        <5> QED BY <3>1, <5>1, <5>3
      <4> QED BY <4>1, <4>2
    <3>3. Iter(g, n + 1)
      <4> HIDE <3>1
      <4>1. g = [t \in SUBSET (1..(n + 1)) |-> g[t]]
        OBVIOUS
      <4> HIDE DEF g
      <4> QED BY <4>1, <3>2
    <3> HIDE DEF g, Iter
    <3> QED BY <3>3
  <2> HIDE DEF P
  <2>3. P = Nat
    BY <2>1, <2>2, AllNaturals DEF P
  <2> QED BY <2>3 DEF P
<1> DEFINE n == Len(s)
           iter == CHOOSE f : Iter(f, n)
           c == [k \in 0..n |-> iter[1..k]]
<1>2. n \in Nat /\ DOMAIN s = 1..n
  BY LenProperties
<1>3. HandledFrom(b, s) = iter[1..n]
  BY <1>2 DEF HandledFrom, FoldLeft, MapThenFoldSet
<1>4. Iter(iter, n)
  <2>1. \E f : Iter(f, n)
    BY <1>1, <1>2
  <2> HIDE DEF Iter
  <2> QED BY <2>1, Zenon
<1>5. c[0] = b
  <2>1. 1..0 = {}
    OBVIOUS
  <2>2. c[0] = iter[1..0] /\ {} \in SUBSET (1..n)
    BY <1>2
  <2> HIDE DEF iter
  <2> QED BY <1>4, <2>1, <2>2
<1>6. ASSUME NEW k \in 0..(n - 1) PROVE c[k + 1] = Handle(c[k], s[k + 1])
  <2>1. Max(1..(k + 1)) = k + 1 /\ 1..(k + 1) # {}
    <3>1. k + 1 \in 1..(k + 1) /\ 1..(k + 1) \subseteq Int /\ \A x \in 1..(k + 1) : x <= k + 1
      BY <1>2
    <3> QED BY <3>1, Largest
  <2>2. (1..(k + 1)) \ {k + 1} = 1..k
    OBVIOUS
  <2>3. 1..(k + 1) \in SUBSET (1..n)
    BY <1>2
  <2>4. iter[1..(k + 1)] = Handle(iter[1..k], s[k + 1])
    <3> HIDE DEF iter
    <3> QED BY <1>4, <2>1, <2>2, <2>3
  <2> QED BY <1>2, <2>4
<1>7. HandledFrom(b, s) = c[n]
  BY <1>2, <1>3
<1>8. InTurn(c, b, s)
  <2> HIDE DEF c
  <2> QED BY <1>5, <1>6, <1>7 DEF InTurn
<1> QED BY <1>8

\* What no event leads out of, no number of them does.
LEMMA HandledStays ==
    ASSUME NEW U, NEW E, \A u \in U, e \in E : Handle(u, e) \in U,
           NEW b \in U, NEW s \in Seq(E)
    PROVE  HandledFrom(b, s) \in U
<1>1. PICK c : InTurn(c, b, s)
  BY HandledInTurn
<1> DEFINE P == {k \in Nat : k <= Len(s) => c[k] \in U}
<1>2. Len(s) \in Nat /\ \A k \in 1..Len(s) : s[k] \in E
  BY LenProperties, ElementOfSeq
<1>3. 0 \in P
  BY <1>1 DEF InTurn
<1>4. ASSUME NEW k \in P PROVE k + 1 \in P
  <2> SUFFICES ASSUME k + 1 <= Len(s) PROVE c[k + 1] \in U
    OBVIOUS
  <2>1. k \in 0..(Len(s) - 1) /\ k + 1 \in 1..Len(s) /\ c[k] \in U
    BY <1>2
  <2>2. c[k + 1] = Handle(c[k], s[k + 1]) /\ s[k + 1] \in E
    BY <1>1, <1>2, <2>1 DEF InTurn
  <2> QED BY <2>1, <2>2
<1> HIDE DEF P
<1>5. P = Nat
  BY <1>3, <1>4, AllNaturals DEF P
<1> QED BY <1>1, <1>2, <1>5 DEF P, InTurn

Outcomes == [screen : Screens, ends : {"no", "disconnect", "cancel"}]
Unended == [screen : Screens, ends : {"no"}]

LEMMA HandledType == ASSUME Typed PROVE Handled \in Outcomes
<1>1. ASSUME NEW u \in Outcomes, NEW e \in Events PROVE Handle(u, e) \in Outcomes
  <2> USE DEF Outcomes, Screens, Handle
  <2>1. CASE e \in {"start", "result", "running"}
    BY <2>1
  <2>2. CASE e \in {"closed", "timeout"}
    BY <2>2
  <2>3. CASE e \in {"lost", "failed", "refused", "crashed"}
    BY <2>3
  <2> QED BY <2>1, <2>2, <2>3 DEF Events
<1>2. [screen |-> screen, ends |-> "no"] \in Outcomes
  BY DEF Typed, Outcomes
<1>3. (IF client = Nothing THEN <<>> ELSE run[client].inbound) \in Seq(Events)
  <2>1. CASE client = Nothing
    BY <2>1, EmptySeq
  <2>2. CASE client # Nothing
    <3>1. client \in Sessions
      BY <2>2 DEF Typed, Nothing, Sessions
    <3> QED BY <2>2, <3>1 DEF Typed, Records
  <2> QED BY <2>1, <2>2
<1>4. Handled = HandledFrom([screen |-> screen, ends |-> "no"],
                            IF client = Nothing THEN <<>> ELSE run[client].inbound)
  BY Zenon DEF Handled, HandledFrom
<1> QED BY <1>1, <1>2, <1>3, <1>4, HandledStays

\* Only an event that ends a session does.
LEMMA HandledUnended ==
    ASSUME Typed, client # Nothing, run[client].inbound \in Seq(Events \ Endings)
    PROVE  Handled.ends = "no"
<1>1. ASSUME NEW u \in Unended, NEW e \in Events \ Endings PROVE Handle(u, e) \in Unended
  <2> USE DEF Unended, Screens, Handle
  <2>1. CASE e \in {"start", "result", "running"}
    BY <2>1
  <2>2. CASE e \in {"lost", "failed", "refused", "crashed"}
    BY <2>2
  <2> QED BY <2>1, <2>2 DEF Events, Endings
<1>2. [screen |-> screen, ends |-> "no"] \in Unended
  BY DEF Typed, Unended
<1>3. HandledFrom([screen |-> screen, ends |-> "no"], run[client].inbound) \in Unended
  BY <1>1, <1>2, HandledStays
<1>4. Handled = HandledFrom([screen |-> screen, ends |-> "no"], run[client].inbound)
  BY Zenon DEF Handled, HandledFrom
<1> QED BY <1>3, <1>4 DEF Unended
-----------------------------------------------------------------------------
(* What the operations do to a session *)

Calm(r) == r.inbound \in Seq(Events \ Endings)
SameSeat(r, q) == r.room = q.room /\ r.token = q.token /\ r.wire = q.wire /\ r.pc = q.pc
SameFlags(r, q) == r.active = q.active /\ r.post = q.post

LEMMA IdleType == Idle \in Records /\ Calm(Idle)
<1>1. <<>> \in Seq(Events) /\ <<>> \in Seq(Events \ Endings)
  BY EmptySeq
<1> QED BY <1>1 DEF Idle, Records, Threads, Calm

LEMMA Appended ==
    ASSUME NEW r \in Records, NEW e \in Events
    PROVE  LET q == [r EXCEPT !.inbound = Append(@, e)]
           IN  /\ q \in Records
               /\ SameSeat(q, r) /\ SameFlags(q, r)
               /\ Calm(r) /\ e \notin Endings => Calm(q)
<1> DEFINE q == [r EXCEPT !.inbound = Append(@, e)]
<1>1. Append(r.inbound, e) \in Seq(Events)
  BY AppendProperties DEF Records
<1>2. q.inbound = Append(r.inbound, e) /\ q \in Records /\ SameSeat(q, r) /\ SameFlags(q, r)
  BY <1>1 DEF Records, SameSeat, SameFlags
<1>3. Calm(r) /\ e \notin Endings => Append(r.inbound, e) \in Seq(Events \ Endings)
  BY AppendProperties DEF Calm
<1> QED BY <1>2, <1>3 DEF Calm

LEMMA Posted ==
    ASSUME NEW s, NEW r \in Records, NEW e \in Events
    PROVE  /\ Post(s, r, e) \in Records
           /\ SameSeat(Post(s, r, e), r) /\ SameFlags(Post(s, r, e), r)
           /\ Calm(r) /\ e \notin Endings => Calm(Post(s, r, e))
<1>1. CASE s = client
  <2>1. Post(s, r, e) = [r EXCEPT !.inbound = Append(@, e)]
    BY <1>1 DEF Post
  <2> QED BY <2>1, Appended
<1>2. CASE s # client
  BY <1>2 DEF Post, SameSeat, SameFlags
<1> QED BY <1>1, <1>2

\* A start, a result, or another frame to the player's socket.
LEMMA Heard ==
    ASSUME NEW s, NEW r \in Records, NEW e \in Events
    PROVE  /\ Hear(s, r, e) \in Records
           /\ SameSeat(Hear(s, r, e), r)
           /\ e = "start" => Hear(s, r, e).active /\ ~Hear(s, r, e).post
           /\ e = "result" => Hear(s, r, e).post /\ ~Hear(s, r, e).active
           /\ e \notin {"start", "result"} => SameFlags(Hear(s, r, e), r)
           /\ Calm(r) /\ e \notin Endings => Calm(Hear(s, r, e))
<1> DEFINE q == CASE e = "start" -> [r EXCEPT !.queued = FALSE, !.active = TRUE, !.post = FALSE]
                  [] e = "result" -> [r EXCEPT !.active = FALSE, !.post = TRUE]
                  [] OTHER -> r
<1>1. Hear(s, r, e) = Post(s, q, e)
  BY DEF Hear
<1>2. /\ q \in Records /\ SameSeat(q, r)
      /\ e = "start" => q.active /\ ~q.post
      /\ e = "result" => q.post /\ ~q.active
      /\ e \notin {"start", "result"} => SameFlags(q, r)
      /\ Calm(r) => Calm(q)
  <2>1. CASE e = "start"
    BY <2>1 DEF Records, SameSeat, SameFlags, Calm
  <2>2. CASE e = "result"
    BY <2>2 DEF Records, SameSeat, SameFlags, Calm
  <2>3. CASE e \notin {"start", "result"}
    BY <2>3 DEF SameSeat, SameFlags
  <2> QED BY <2>1, <2>2, <2>3
<1> HIDE DEF q
<1>3. /\ Post(s, q, e) \in Records
      /\ SameSeat(Post(s, q, e), q) /\ SameFlags(Post(s, q, e), q)
      /\ Calm(q) /\ e \notin Endings => Calm(Post(s, q, e))
  BY <1>2, Posted
<1> QED BY <1>1, <1>2, <1>3 DEF SameSeat, SameFlags

LEMMA Told ==
    ASSUME Typed, NEW e \in Events
    PROVE  /\ Tell(e) \in [Sessions -> Records]
           /\ \A s \in Sessions :
                /\ SameSeat(Tell(e)[s], run[s])
                /\ InRoom(s) /\ e = "start" => Tell(e)[s].active /\ ~Tell(e)[s].post
                /\ InRoom(s) /\ e = "result" => Tell(e)[s].post /\ ~Tell(e)[s].active
                /\ ~InRoom(s) => Tell(e)[s] = run[s]
                /\ Calm(run[s]) /\ e \notin Endings => Calm(Tell(e)[s])
<1>1. \A s \in Sessions : run[s] \in Records
  BY DEF Typed
<1>2. Tell(e) = [s \in Sessions |-> IF InRoom(s) THEN Hear(s, run[s], e) ELSE run[s]]
  BY DEF Tell
<1>3. \A s \in Sessions : /\ InRoom(s) => Tell(e)[s] = Hear(s, run[s], e)
                          /\ ~InRoom(s) => Tell(e)[s] = run[s]
  BY <1>2
<1>4. ASSUME NEW s \in Sessions
      PROVE  /\ Tell(e)[s] \in Records
             /\ SameSeat(Tell(e)[s], run[s])
             /\ InRoom(s) /\ e = "start" => Tell(e)[s].active /\ ~Tell(e)[s].post
             /\ InRoom(s) /\ e = "result" => Tell(e)[s].post /\ ~Tell(e)[s].active
             /\ Calm(run[s]) /\ e \notin Endings => Calm(Tell(e)[s])
  <2>1. CASE InRoom(s)
    BY <1>1, <1>3, <2>1, Heard
  <2>2. CASE ~InRoom(s)
    BY <1>1, <1>3, <2>2 DEF SameSeat
  <2> QED BY <2>1, <2>2
<1>5. Tell(e) = [s \in Sessions |-> Tell(e)[s]]
  BY <1>2
<1>6. Tell(e) \in [Sessions -> Records]
  BY <1>4, <1>5
<1> QED BY <1>3, <1>4, <1>6

LEMMA EndedType ==
    ASSUME Typed, NEW s \in Sessions
    PROVE  /\ Ended(s) \in Records /\ Ended(s).pc = "ended" /\ Ended(s).wire = "none"
           /\ Ended(s).room = 0 /\ Ended(s).token = 0
           /\ Calm(run[s]) => Calm(Ended(s))
<1>1. run[s].inbound \in Seq(Events)
  BY DEF Typed, Records
<1>2. Ended(s) = [Idle EXCEPT !.pc = "ended", !.inbound = run[s].inbound]
  BY DEF Ended
<1> QED BY <1>1, <1>2, IdleType DEF Records, Threads, Calm, Idle

LEMMA EndsType ==
    ASSUME Typed, NEW s \in Sessions, NEW e \in Events
    PROVE  /\ EndsWith(s, e) \in Records
           /\ EndsWith(s, e).pc = "ended" /\ EndsWith(s, e).wire = "none"
           /\ EndsWith(s, e).room = 0 /\ EndsWith(s, e).token = 0
           /\ Calm(run[s]) /\ e \notin Endings => Calm(EndsWith(s, e))
BY EndedType, Posted DEF EndsWith, SameSeat

LEMMA UnpluggedType ==
    ASSUME Typed, NEW S
    PROVE  /\ Unplugged(S) \in [Sessions -> Records]
           /\ \A s \in Sessions :
                /\ Unplugged(S)[s].wire = IF s \in S THEN "down" ELSE run[s].wire
                /\ Unplugged(S)[s].pc = run[s].pc /\ SameFlags(Unplugged(S)[s], run[s])
                /\ Unplugged(S)[s].room = run[s].room /\ Unplugged(S)[s].token = run[s].token
                /\ Unplugged(S)[s].inbound = run[s].inbound
<1> SUFFICES ASSUME NEW s \in Sessions
             PROVE  LET q == IF s \in S THEN [run[s] EXCEPT !.wire = "down"] ELSE run[s]
                    IN  /\ q \in Records
                        /\ q.wire = IF s \in S THEN "down" ELSE run[s].wire
                        /\ q.pc = run[s].pc /\ SameFlags(q, run[s])
                        /\ q.room = run[s].room /\ q.token = run[s].token
                        /\ q.inbound = run[s].inbound
  BY DEF Unplugged
<1>1. run[s] \in Records
  BY DEF Typed
<1> QED BY <1>1 DEF Records, SameFlags

Ways == {"no", "disconnect", "cancel"}

LEMMA StoppedType ==
    ASSUME NEW r \in Records, NEW how \in Ways
    PROVE  /\ Stopped(r, how) \in Records
           /\ SameSeat(Stopped(r, how), r) /\ SameFlags(Stopped(r, how), r)
BY DEF Stopped, Ways, Disconnect, CancelQueue, Records, SameSeat, SameFlags

LEMMA LetGoType ==
    ASSUME Typed, NEW how \in Ways
    PROVE  /\ LetGo(how) \in [Sessions -> Records]
           /\ \A s \in Sessions :
                SameSeat(LetGo(how)[s], run[s]) /\ SameFlags(LetGo(how)[s], run[s])
<1>1. CASE client = Nothing
  BY <1>1 DEF Typed, LetGo, SameSeat, SameFlags
<1>2. CASE client # Nothing
  <2>1. client \in Sessions /\ run[client] \in Records
    BY <1>2 DEF Typed, Nothing, Sessions
  <2> DEFINE q == Stopped(run[client], how)
  <2>2. q \in Records /\ SameSeat(q, run[client]) /\ SameFlags(q, run[client])
    BY <2>1, StoppedType
  <2> HIDE DEF q
  <2> DEFINE w == [q EXCEPT !.inbound = <<>>]
  <2>3. w \in Records
    BY <2>2, EmptySeq DEF Records
  <2>4. SameSeat(w, run[client]) /\ SameFlags(w, run[client])
    BY <2>2 DEF SameSeat, SameFlags, Records
  <2>5. LetGo(how) = [run EXCEPT ![client] = w]
    BY <1>2 DEF LetGo, q
  <2> HIDE DEF w
  <2>6. run \in [Sessions -> Records]
    BY DEF Typed
  <2>7. LetGo(how) \in [Sessions -> Records]
    BY <2>1, <2>3, <2>5, <2>6
  <2>8. ASSUME NEW s \in Sessions
        PROVE  SameSeat(LetGo(how)[s], run[s]) /\ SameFlags(LetGo(how)[s], run[s])
    <3>1. CASE s = client
      BY <2>1, <2>4, <2>5, <2>6, <3>1
    <3>2. CASE s # client
      <4>1. LetGo(how)[s] = run[s]
        BY <2>5, <2>6, <3>2
      <4> QED BY <4>1 DEF SameSeat, SameFlags
    <3> QED BY <3>1, <3>2
  <2> QED BY <2>7, <2>8
<1> QED BY <1>1, <1>2
-----------------------------------------------------------------------------
(* The state of every part keeps its form *)

\* A step that leaves the frame and the workers alone, and gives every session a record
\* that says as much as before whether the session has been opened.
LEMMA ServerStepType ==
    ASSUME Typed, seat' \in Seats, issued' \in 0..MaxTokens, drops' \in 0..MaxDrops,
           run' \in [Sessions -> Records],
           \A s \in Sessions : run'[s].pc = "none" <=> run[s].pc = "none",
           UNCHANGED <<used, frameVars>>,
           pending' \in Entries,
           probe' \in [alive : BOOLEAN, sent : BOOLEAN, stale : BOOLEAN, entry : Entries],
           fetch' = fetch \/ fetch' = NoFetch,
           answer' \in [given : BOOLEAN, ok : BOOLEAN, at : 0..MaxSessions, entry : Entries]
    PROVE  Typed'
<1>1. NoFetch \in [alive : BOOLEAN, stale : BOOLEAN, at : 0..MaxSessions, entry : Entries]
  BY DEF NoFetch, NoEntry, Entries
<1> QED BY <1>1 DEF Typed, frameVars

LEMMA ThreadStepType ==
    ASSUME Typed, NEW s \in Sessions, NEW r \in Records, r.pc # "none", run[s].pc # "none",
           Step(s, r), seat' \in Seats, issued' \in 0..MaxTokens
    PROVE  Typed'
<1>1. run' = [run EXCEPT ![s] = r] /\ UNCHANGED <<drops, used, frameVars, probeVars>>
  BY DEF Step
<1>2. /\ run' \in [Sessions -> Records]
      /\ \A u \in Sessions : run'[u].pc = "none" <=> run[u].pc = "none"
  BY <1>1 DEF Typed
<1> QED BY <1>1, <1>2, ServerStepType DEF Typed, probeVars

LEMMA ServerType ==
    ASSUME Typed,
           \/ Pair \/ GameStarts \/ GameEnds \/ RematchStarts \/ RoomGoes
           \/ ServerRestarts \/ SocketDrops \/ ProbeReclaims
    PROVE  Typed'
<1> USE DEF Typed, probeVars, serverVars
<1>1. CASE Pair
  BY <1>1, ServerStepType DEF Pair, Seats, sessionVars
<1>2. CASE GameStarts
  <2>1. seat' \in Seats /\ run' = Tell("start")
    BY <1>2 DEF GameStarts, Seats
  <2> QED BY <1>2, <2>1, Told, ServerStepType DEF GameStarts, Events, SameSeat
<1>3. CASE GameEnds
  <2>1. seat' \in Seats /\ run' = Tell("result")
    BY <1>3 DEF GameEnds, Seats
  <2> QED BY <1>3, <2>1, Told, ServerStepType DEF GameEnds, Events, SameSeat
<1>4. CASE RematchStarts
  <2>1. run' = Tell("start") /\ drops' \in 0..MaxDrops
    BY <1>4 DEF RematchStarts
  <2>2. PICK here \in BOOLEAN : seat' = [seat EXCEPT !.kind = "playing", !.told = here]
    BY <1>4 DEF RematchStarts, Present
  <2>3. seat' \in Seats
    BY <2>2 DEF Seats
  <2> QED BY <1>4, <2>1, <2>3, Told, ServerStepType DEF RematchStarts, Events, SameSeat
<1>5. CASE RoomGoes
  <2>1. PICK e \in Events : run' = Tell(e)
    BY <1>5 DEF RoomGoes, Events
  <2>2. seat' \in Seats
    BY <1>5 DEF RoomGoes, Seats, NoSeat
  <2> QED BY <1>5, <2>1, <2>2, Told, ServerStepType DEF RoomGoes, SameSeat
<1>6. CASE ServerRestarts
  <2>1. seat' \in Seats /\ run' = Unplugged(Wired) /\ drops' \in 0..MaxDrops
    BY <1>6 DEF ServerRestarts, Seats, NoSeat
  <2> QED BY <1>6, <2>1, UnpluggedType, ServerStepType DEF ServerRestarts
<1>7. CASE SocketDrops
  <2>1. drops' \in 0..MaxDrops
    BY <1>7 DEF SocketDrops
  <2>2. PICK s : run' = Unplugged({s})
    BY <1>7 DEF SocketDrops
  <2> QED BY <1>7, <2>1, <2>2, UnpluggedType, ServerStepType DEF SocketDrops
<1>8. CASE ProbeReclaims
  <2>1. issued' \in 0..MaxTokens /\ seat' \in Seats /\ run' = Unplugged(Displaced)
    BY <1>8 DEF ProbeReclaims, Seats
  <2>2. probe' \in [alive : BOOLEAN, sent : BOOLEAN, stale : BOOLEAN, entry : Entries]
    <3>1. PICK e \in Entries : probe' = [probe EXCEPT !.sent = TRUE, !.entry = e]
      <4>1. NoEntry \in Entries /\ [room |-> seat.room, token |-> issued'] \in Entries
        BY <2>1 DEF Entries, NoEntry, Seats
      <4> QED BY <1>8, <4>1 DEF ProbeReclaims
    <3> QED BY <3>1
  <2> QED BY <1>8, <2>1, <2>2, UnpluggedType, ServerStepType DEF ProbeReclaims
<1> QED BY <1>1, <1>2, <1>3, <1>4, <1>5, <1>6, <1>7, <1>8

LEMMA ThreadType ==
    ASSUME Typed, NEW s \in Sessions, Thread(s)
    PROVE  Typed'
<1> USE DEF Typed
<1>0. run[s] \in Records
  OBVIOUS
<1>1. CASE Begin(s)
  <2>1. [run[s] EXCEPT !.pc = IF run[s].active THEN "dialing" ELSE "asking"] \in Records
    BY <1>0 DEF Records, Threads
  <2> QED BY <1>0, <1>1, <2>1, ThreadStepType DEF Begin, Records
<1>2. CASE Ask(s)
  <2>1. issued' \in 0..MaxTokens /\ seat' \in Seats
    BY <1>2 DEF Ask, Seats
  <2> DEFINE q == IF seat.kind = "playing" THEN Tell("result") ELSE run
  <2>2. q \in [Sessions -> Records] /\ \A u \in Sessions : q[u].pc = run[u].pc
    BY Told DEF Events, SameSeat
  <2>3. run' = [q EXCEPT ![s] = [q[s] EXCEPT !.pc = "asked", !.room = issued', !.token = issued']]
    BY <1>2, <2>2 DEF Ask
  <2> HIDE DEF q
  <2> DEFINE r == [q[s] EXCEPT !.pc = "asked", !.room = issued', !.token = issued']
  <2>4. r \in Records /\ r.pc = "asked"
    <3>1. q[s] \in Records
      BY <2>2
    <3> HIDE DEF Typed
    <3> QED BY <2>1, <3>1 DEF Records, Threads
  <2> HIDE DEF r
  <2>5. /\ run' \in [Sessions -> Records]
        /\ \A u \in Sessions : run'[u].pc = "none" <=> run[u].pc = "none"
    <3>1. run' = [q EXCEPT ![s] = r]
      BY <2>3 DEF r
    <3>2. run[s].pc # "none"
      BY <1>2 DEF Ask
    <3> HIDE DEF Typed
    <3> QED BY <2>2, <2>4, <3>1, <3>2
  <2> QED BY <1>2, <2>1, <2>5, ServerStepType DEF Ask, probeVars
<1>3. CASE Refused(s)
  BY <1>3, EndsType, ThreadStepType DEF Refused, Events
<1>4. CASE Answered(s)
  <2>1. [run[s] EXCEPT !.pc = "dialing", !.queued = TRUE] \in Records
    BY <1>0 DEF Records, Threads
  <2> QED BY <1>0, <1>4, <2>1, ThreadStepType DEF Answered, Records
<1>5. CASE AskFails(s)
  <2>1. CASE Step(s, EndsWith(s, "failed"))
    BY <1>5, <2>1, EndsType, ThreadStepType DEF AskFails, Events
  <2>2. CASE Step(s, [run[s] EXCEPT !.pc = "asking"])
    <3>1. [run[s] EXCEPT !.pc = "asking"] \in Records
      BY <1>0 DEF Records, Threads
    <3> QED BY <1>0, <1>5, <2>2, <3>1, ThreadStepType DEF AskFails, Records
  <2> QED BY <1>5, <2>1, <2>2 DEF AskFails
<1>6. CASE Dial(s)
  <2>1. CASE Holds(s)
    <3> DEFINE r == [run[s] EXCEPT !.pc = "open", !.wire = "up"]
               q == IF Greeting = "none" THEN r ELSE Hear(s, r, Greeting)
    <3>1. r \in Records /\ r.pc = "open"
      BY <1>0 DEF Records, Threads
    <3>2. Greeting \in {"none", "start", "result"}
      BY DEF Greeting
    <3>3. q \in Records /\ q.pc = "open"
      <4> HIDE DEF r
      <4> QED BY <3>1, <3>2, Heard DEF Events, SameSeat
    <3>4. run' = [Unplugged(Displaced) EXCEPT ![s] = q]
      BY <1>6, <2>1 DEF Dial
    <3>5. seat' \in Seats
      <4>1. seat \in Seats /\ seat' = [seat EXCEPT !.told = @ \/ Greeting = "start"]
        BY <1>6, <2>1 DEF Typed, Dial
      <4> QED BY <4>1 DEF Seats
    <3> HIDE DEF q
    <3>6. /\ run' \in [Sessions -> Records]
          /\ \A u \in Sessions : run'[u].pc = "none" <=> run[u].pc = "none"
      BY <1>6, <3>3, <3>4, UnpluggedType DEF Dial
    <3> QED BY <1>6, <3>5, <3>6, ServerStepType DEF Dial, probeVars
  <2>2. CASE ~Holds(s)
    <3>1. run' = [run EXCEPT ![s] = [run[s] EXCEPT !.pc = "open", !.wire = "down"]] /\ seat' = seat
      BY <1>0, <1>6, <2>2 DEF Dial
    <3>2. [run[s] EXCEPT !.pc = "open", !.wire = "down"] \in Records
      BY <1>0 DEF Records, Threads
    <3>3. /\ run' \in [Sessions -> Records]
          /\ \A u \in Sessions : run'[u].pc = "none" <=> run[u].pc = "none"
      BY <1>0, <1>6, <3>1, <3>2 DEF Dial, Records
    <3> QED BY <1>6, <3>1, <3>3, ServerStepType DEF Dial, probeVars
  <2> QED BY <2>1, <2>2
<1>7. CASE DialFails(s)
  <2>1. EndsWith(s, "crashed") \in Records /\ EndsWith(s, "crashed").pc = "ended"
    BY EndsType DEF Events
  <2>2. drops' \in 0..MaxDrops /\ run' = [run EXCEPT ![s] = EndsWith(s, "crashed")]
    BY <1>7 DEF DialFails
  <2>3. \A u \in Sessions : run'[u].pc = "none" <=> run[u].pc = "none"
    BY <1>7, <2>1, <2>2 DEF DialFails
  <2> QED BY <1>7, <2>1, <2>2, <2>3, ServerStepType DEF DialFails, probeVars
<1>8. CASE Notice(s)
  <2>1. [run[s] EXCEPT !.pc = "resuming", !.wire = "none"] \in Records
    BY <1>0 DEF Records, Threads
  <2>2. PICK r \in Records : r.pc # "none" /\ Step(s, r)
    <3>1. \/ Step(s, [run[s] EXCEPT !.pc = "resuming", !.wire = "none"])
          \/ Step(s, Ended(s))
      BY <1>8 DEF Notice
    <3> QED BY <1>0, <2>1, <3>1, EndedType DEF Records
  <2> QED BY <1>8, <2>2, ThreadStepType DEF Notice
<1>9. CASE Resumed(s)
  <2> DEFINE r == [run[s] EXCEPT !.pc = "dialing"]
  <2>1. r \in Records /\ r.pc = "dialing"
    BY <1>0 DEF Records, Threads
  <2>2. Step(s, IF seat.kind = "finished" THEN r ELSE Post(s, r, "running"))
    BY <1>9 DEF Resumed
  <2> HIDE DEF r
  <2>3. PICK q \in Records : q.pc # "none" /\ Step(s, q)
    BY <2>1, <2>2, Posted DEF Events, SameSeat
  <2> QED BY <1>9, <2>3, ThreadStepType DEF Resumed
<1>10. CASE ResumeFatal(s)
  BY <1>10, EndsType, ThreadStepType DEF ResumeFatal, Events
<1>11. CASE GiveUp(s)
  BY <1>11, EndsType, ThreadStepType DEF GiveUp, Events
<1>12. CASE CancelRuns(s)
  <2>1. [run[s] EXCEPT !.cancelling = FALSE, !.queued = FALSE, !.stop = TRUE] \in Records
    BY <1>0 DEF Records
  <2>2. seat' \in Seats
    <3>1. NoSeat \in Seats
      BY DEF NoSeat, Seats
    <3>2. seat' = seat \/ seat' = NoSeat
      BY <1>12 DEF CancelRuns
    <3> QED BY <3>1, <3>2
  <2> QED BY <1>0, <1>12, <2>1, <2>2, ThreadStepType DEF CancelRuns, Records, Live
<1> QED BY <1>1, <1>2, <1>3, <1>4, <1>5, <1>6, <1>7, <1>8, <1>9, <1>10, <1>11, <1>12
      DEF Thread

Probes == [alive : BOOLEAN, sent : BOOLEAN, stale : BOOLEAN, entry : Entries]
Fetches == [alive : BOOLEAN, stale : BOOLEAN, at : 0..MaxSessions, entry : Entries]

LEMMA WorkerTypes ==
    /\ NoEntry \in Entries
    /\ NoProbe \in Probes /\ NoFetch \in Fetches
    /\ NoAnswer \in [given : BOOLEAN, ok : BOOLEAN, at : 0..MaxSessions, entry : Entries]
    /\ \A w \in Probes : Retire(w) \in Probes
    /\ \A w \in Fetches : Retire(w) \in Fetches
<1>1. NoEntry \in Entries
  BY DEF NoEntry, Entries
<1>2. \A w \in Probes : Retire(w) \in Probes
  BY <1>1 DEF Retire, Probes
<1>3. \A w \in Fetches : Retire(w) \in Fetches
  BY <1>1 DEF Retire, Fetches
<1> QED BY <1>1, <1>2, <1>3 DEF NoProbe, NoFetch, NoAnswer, Probes, Fetches

\* One session more, on the frame's hands.
LEMMA Opened ==
    ASSUME Typed, NEW sessions \in [Sessions -> Records], NEW r \in Records, r.pc # "none",
           \A s \in Sessions : sessions[s].pc = run[s].pc, Open(sessions, r)
    PROVE  /\ used' \in 1..MaxSessions /\ used' = used + 1 /\ client' = used'
           /\ run' \in [Sessions -> Records]
           /\ run'[used'] = r
           /\ \A s \in Sessions : s # used' => run'[s] = sessions[s]
           /\ \A s \in Sessions : run'[s].pc = "none" <=> s > used'
<1>1. used' \in 1..MaxSessions /\ used' = used + 1 /\ client' = used' /\ used' \in Sessions
  BY DEF Open, Typed, Sessions
<1>2. run' = [sessions EXCEPT ![used'] = r]
  BY DEF Open
<1>3. /\ run' \in [Sessions -> Records] /\ run'[used'] = r
      /\ \A s \in Sessions : s # used' => run'[s] = sessions[s]
  BY <1>1, <1>2
<1>4. ASSUME NEW s \in Sessions PROVE run'[s].pc = "none" <=> s > used'
  <2>1. run[s].pc = "none" <=> s > used
    BY DEF Typed
  <2> QED BY <1>1, <1>3, <2>1 DEF Sessions, Typed
<1> QED BY <1>1, <1>3, <1>4

LEMMA FrameType ==
    ASSUME Typed,
           \/ Search \/ OnOnlineCancel \/ Leave \/ RetainForRematch
           \/ OnReconnectActiveGame \/ OnServerTargetChanged \/ Refresh
    PROVE  Typed'
<1> USE WorkerTypes DEF Acts, serverVars, sessionVars, probeVars
<1>0. probe \in Probes /\ fetch \in Fetches
  BY DEF Typed, Probes, Fetches
<1>1. CASE Search
  <2>1. /\ frame' = "update" /\ screen' = "waiting"
        /\ Open(LetGo("disconnect"), [Idle EXCEPT !.pc = "starting"])
        /\ probe' = Retire(probe) /\ fetch' = Retire(fetch)
        /\ UNCHANGED <<serverVars, button, pending, answer>>
    BY <1>1 DEF Search, OnServerAddrConnect
  <2>2. [Idle EXCEPT !.pc = "starting"] \in Records /\ [Idle EXCEPT !.pc = "starting"].pc # "none"
    BY IdleType DEF Records, Threads, Idle
  <2>3. /\ LetGo("disconnect") \in [Sessions -> Records]
        /\ \A s \in Sessions : LetGo("disconnect")[s].pc = run[s].pc
    BY LetGoType DEF Ways, SameSeat
  <2>4. /\ used' \in 1..MaxSessions /\ client' = used' /\ run' \in [Sessions -> Records]
        /\ \A s \in Sessions : run'[s].pc = "none" <=> s > used'
    BY <2>1, <2>2, <2>3, Opened
  <2>5. probe' \in Probes /\ fetch' \in Fetches
    BY <1>0, <2>1
  <2> QED BY <2>1, <2>4, <2>5 DEF Typed, Screens, Probes, Fetches
<1>2. CASE OnOnlineCancel \/ Leave
  <2>1. PICK how \in Ways : GoToMenu(how) /\ frame' = "update"
    BY <1>2 DEF OnOnlineCancel, Leave, Ways
  <2>2. /\ LetGo(how) \in [Sessions -> Records]
        /\ \A s \in Sessions : LetGo(how)[s].pc = run[s].pc
    BY LetGoType DEF SameSeat
  <2> QED BY <2>1, <2>2 DEF GoToMenu, Typed, Nothing, Screens
<1>3. CASE RetainForRematch
  BY <1>3 DEF RetainForRematch, Typed, Screens
<1>4. CASE OnReconnectActiveGame
  <2>1. /\ frame' = "update" /\ pending' = NoEntry /\ button' = FALSE
        /\ probe' = Retire(probe)
        /\ fetch' = [alive |-> TRUE, stale |-> FALSE, at |-> used, entry |-> pending]
        /\ UNCHANGED <<serverVars, sessionVars, client, screen, answer>>
    BY <1>4 DEF OnReconnectActiveGame
  <2>2. fetch' \in Fetches /\ probe' \in Probes
    BY <1>0, <2>1 DEF Typed, Fetches
  <2> QED BY <2>1, <2>2 DEF Typed, Fetches, Probes
<1>5. CASE OnServerTargetChanged
  <2>1. fetch' \in Fetches /\ probe' \in Probes
    BY <1>0, <1>5 DEF OnServerTargetChanged
  <2>2. /\ drops' \in 0..MaxDrops /\ pending' = NoEntry /\ button' = FALSE
        /\ frame' = "update" /\ UNCHANGED <<seat, issued, sessionVars, client, screen, answer>>
    BY <1>5 DEF OnServerTargetChanged, Typed
  <2> QED BY <2>1, <2>2 DEF Typed, Fetches, Probes
<1>6. CASE Refresh
  <2>1. fetch' \in Fetches /\ probe' \in Probes
    <3>1. [alive |-> TRUE, sent |-> FALSE, stale |-> FALSE, entry |-> NoEntry] \in Probes
      BY DEF Probes
    <3> QED BY <1>0, <1>6, <3>1 DEF Refresh
  <2> QED BY <1>6, <2>1 DEF Refresh, Typed, Fetches, Probes
<1> QED BY <1>1, <1>2, <1>3, <1>4, <1>5, <1>6

\* An update takes up an answer, or goes on without it.
Adopts ==
    /\ answer.given /\ answer.ok /\ used < MaxSessions
    /\ (IF Handled.ends = "no" THEN client ELSE Nothing) = Nothing

Adopted == [Idle EXCEPT !.pc = "starting", !.active = TRUE,
                        !.room = answer.entry.room, !.token = answer.entry.token]

LEMMA Updated ==
    ASSUME Typed, Update
    PROVE  /\ frame # "refresh" /\ frame' = "refresh" /\ answer' = NoAnswer
           /\ UNCHANGED <<serverVars, button, probe, fetch>>
           /\ Adopts => /\ Open(LetGo(Handled.ends), Adopted)
                        /\ screen' = "board" /\ UNCHANGED pending
           /\ ~Adopts => /\ run' = LetGo(Handled.ends) /\ UNCHANGED used
                         /\ client' = IF Handled.ends = "no" THEN client ELSE Nothing
                         /\ screen' = Handled.screen
                         /\ pending' \in {pending, answer.entry}
                         /\ ~answer.given => pending' = pending
BY DEF Update, Adopts, Adopted

LEMMA AdoptedType ==
    ASSUME Typed
    PROVE  /\ Adopted \in Records /\ Adopted.pc = "starting" /\ Adopted.wire = "none"
           /\ Adopted.active /\ ~Adopted.post
           /\ Adopted.room = answer.entry.room /\ Adopted.token = answer.entry.token
<1>1. answer.entry.room \in 0..MaxTokens /\ answer.entry.token \in 0..MaxTokens
  BY DEF Typed, Entries
<1> QED BY <1>1, IdleType DEF Adopted, Records, Threads, Idle

LEMMA UpdateType == ASSUME Typed, Update PROVE Typed'
<1>1. Handled.ends \in Ways /\ Handled.screen \in Screens
  BY HandledType DEF Outcomes, Ways
<1>2. /\ LetGo(Handled.ends) \in [Sessions -> Records]
      /\ \A s \in Sessions : LetGo(Handled.ends)[s].pc = run[s].pc
  BY <1>1, LetGoType DEF SameSeat
<1>3. answer' \in [given : BOOLEAN, ok : BOOLEAN, at : 0..MaxSessions, entry : Entries]
  BY Updated, WorkerTypes
<1>4. CASE Adopts
  <2>1. /\ used' \in 1..MaxSessions /\ client' = used' /\ run' \in [Sessions -> Records]
        /\ \A s \in Sessions : run'[s].pc = "none" <=> s > used'
    BY <1>2, <1>4, AdoptedType, Updated, Opened
  <2> QED BY <1>3, <1>4, <2>1, Updated DEF Typed, Screens, serverVars
<1>5. CASE ~Adopts
  <2>1. run' \in [Sessions -> Records] /\ \A s \in Sessions : run'[s].pc = run[s].pc
    BY <1>2, <1>5, Updated
  <2>2. client' \in 0..used /\ screen' \in Screens /\ pending' \in Entries /\ used' = used
    BY <1>1, <1>5, Updated DEF Typed, Nothing
  <2> QED BY <1>3, <2>1, <2>2, Updated DEF Typed, serverVars
<1> QED BY <1>4, <1>5

LEMMA WorkerType == ASSUME Typed, ProbeEnds \/ FetchEnds PROVE Typed'
<1>1. CASE ProbeEnds
  <2>1. probe' \in Probes /\ pending' \in Entries
    BY <1>1, WorkerTypes DEF ProbeEnds, Typed
  <2> QED BY <1>1, <2>1
        DEF ProbeEnds, Typed, Probes, serverVars, sessionVars, frameVars
<1>2. CASE FetchEnds
  <2>1. fetch' \in Fetches
    BY <1>2, WorkerTypes DEF FetchEnds
  <2>2. answer' \in [given : BOOLEAN, ok : BOOLEAN, at : 0..MaxSessions, entry : Entries]
    <3>1. CASE fetch.stale
      BY <1>2, <3>1 DEF FetchEnds, Typed
    <3>2. CASE ~fetch.stale
      <4>1. PICK ok \in {FALSE, Fetchable(fetch.entry)} :
              answer' = [given |-> TRUE, ok |-> ok, at |-> fetch.at, entry |-> fetch.entry]
        BY <1>2, <3>2 DEF FetchEnds
      <4>2. ok \in BOOLEAN
        BY DEF Fetchable
      <4> QED BY <4>1, <4>2 DEF Typed
    <3> QED BY <3>1, <3>2
  <2> QED BY <1>2, <2>1, <2>2
        DEF FetchEnds, Typed, Fetches, serverVars, sessionVars, frameVars
<1> QED BY <1>1, <1>2

LEMMA TypedInit == Init => Typed
<1> SUFFICES ASSUME Init PROVE Typed
  OBVIOUS
<1>1. run \in [Sessions -> Records] /\ \A s \in Sessions : run[s].pc = "none"
  BY IdleType DEF Init, Idle
<1>2. seat \in Seats /\ issued \in 0..MaxTokens
  BY DEF Init, Seats
<1>3. \A s \in Sessions : run[s].pc = "none" <=> s > used
  BY <1>1 DEF Init, Sessions
<1>4. /\ pending \in Entries /\ probe \in Probes /\ fetch \in Fetches
      /\ answer \in [given : BOOLEAN, ok : BOOLEAN, at : 0..MaxSessions, entry : Entries]
  BY WorkerTypes DEF Init
<1>5. /\ drops \in 0..MaxDrops /\ used \in 0..MaxSessions /\ client \in 0..used
      /\ screen \in Screens /\ button \in BOOLEAN /\ frame \in {"input", "update", "refresh"}
  <2>1. drops = 0 /\ used = 0 /\ client = 0 /\ screen = "menu" /\ button = FALSE /\ frame = "input"
    BY Zenon DEF Init, Nothing
  <2>2. drops \in 0..MaxDrops
    BY <2>1
  <2>3. used \in 0..MaxSessions
    BY <2>1
  <2>4. client \in 0..used
    BY <2>1
  <2> QED BY <2>1, <2>2, <2>3, <2>4 DEF Screens
<1> QED BY <1>1, <1>2, <1>3, <1>4, <1>5 DEF Typed, Probes, Fetches

LEMMA TypedStep == ASSUME Typed, [Next]_vars PROVE Typed'
<1>1. CASE \E s \in Sessions : Thread(s)
  BY <1>1, ThreadType
<1>2. CASE UNCHANGED vars
  BY <1>2 DEF Typed, vars, serverVars, sessionVars, frameVars, probeVars
<1> QED BY <1>1, <1>2, ServerType, FrameType, UpdateType, WorkerType DEF Next

LEMMA TypedImplies == Typed => TypeOK
<1> SUFFICES ASSUME Typed PROVE TypeOK
  OBVIOUS
<1>1. ASSUME NEW s \in Sessions
      PROVE  /\ run[s].pc \in Threads /\ (run[s].pc = "none" <=> s > used)
             /\ run[s].room \in 0..MaxTokens /\ run[s].token \in 0..MaxTokens
             /\ run[s].wire \in {"none", "up", "down"}
             /\ {run[s].stop, run[s].cancelling, run[s].queued,
                 run[s].active, run[s].post} \subseteq BOOLEAN
  BY DEF Typed, Records
<1>2. {pending, probe.entry, fetch.entry, answer.entry}
        \subseteq [room : 0..MaxTokens, token : 0..MaxTokens]
  BY DEF Typed, Entries
<1> QED BY <1>1, <1>2 DEF Typed, TypeOK, Screens

\* The seat, the sessions, the frame loop and the workers of the client keep their form.
THEOREM ClientTypeOK == Spec => []TypeOK
<1>1. Typed /\ [Next]_vars => Typed'
  BY TypedStep
<1> QED BY <1>1, TypedInit, TypedImplies, PTL DEF Spec
-----------------------------------------------------------------------------
(* A token is in one place *)

LEMMA KeptAre ==
    /\ Kept[1] = probe.entry /\ Kept[2] = pending
    /\ Kept[3] = fetch.entry /\ Kept[4] = answer.entry
    /\ Kept'[1] = probe'.entry /\ Kept'[2] = pending'
    /\ Kept'[3] = fetch'.entry /\ Kept'[4] = answer'.entry
BY DEF Kept

LEMMA TokenTypes ==
    ASSUME Typed
    PROVE  /\ issued \in Nat
           /\ \A s \in Sessions : run[s].token \in Nat /\ run[s].room \in Nat
           /\ \A i \in 1..4 : Kept[i].token \in Nat /\ Kept[i].room \in Nat
<1>1. \A e \in Entries : e.token \in Nat /\ e.room \in Nat
  BY DEF Entries
<1>2. \A i \in 1..4 : Kept[i] \in Entries
  <2>1. /\ probe.entry \in Entries /\ pending \in Entries
        /\ fetch.entry \in Entries /\ answer.entry \in Entries
    BY DEF Typed
  <2>2. Kept[1] \in Entries /\ Kept[2] \in Entries /\ Kept[3] \in Entries /\ Kept[4] \in Entries
    BY <2>1, KeptAre
  <2> QED BY <2>2
<1>3. ASSUME NEW s \in Sessions PROVE run[s].token \in Nat /\ run[s].room \in Nat
  <2>1. run[s] \in Records
    BY DEF Typed
  <2> QED BY <2>1 DEF Records
<1>4. issued \in Nat
  BY DEF Typed
<1> QED BY <1>1, <1>2, <1>3, <1>4

\* The seat goes by a token that has been issued.
Seated == seat.kind # "none" => seat.token \in 1..issued /\ seat.room \in 1..issued

\* Nobody gets a token: an entry, or what a session goes by, is kept or dropped.
LEMMA TokensKept ==
    ASSUME Typed, Typed', Tokens, issued' = issued, Seated',
           \A s \in Sessions : /\ run'[s].token \in {0, run[s].token}
                               /\ run'[s].room \in {0, run[s].room},
           \A i \in 1..4 : Kept'[i] \in {NoEntry, Kept[i]}
    PROVE  Tokens'
<1>1. \A i \in 1..4 : Kept'[i].token \in {0, Kept[i].token} /\ Kept'[i].room \in {0, Kept[i].room}
  BY DEF NoEntry
<1>2. /\ \A s \in Sessions : run'[s].token <= issued' /\ run'[s].room <= issued'
      /\ \A k \in 1..4 : Kept'[k].token <= issued' /\ Kept'[k].room <= issued'
  BY <1>1, TokenTypes DEF Tokens
<1>3. \A s, u \in Sessions : s # u /\ run'[s].token # 0 => run'[s].token # run'[u].token
  BY DEF Tokens
<1>4. \A s \in Sessions, k \in 1..4 : Kept'[k].token # 0 => run'[s].token # Kept'[k].token
  BY <1>1 DEF Tokens
<1>5. \A k, l \in 1..4 : k # l /\ Kept'[k].token # 0 => Kept'[k].token # Kept'[l].token
  BY <1>1 DEF Tokens
<1> QED BY <1>2, <1>3, <1>4, <1>5 DEF Tokens, Seated

\* An entry goes on from one place to another.
LEMMA TokensPass ==
    ASSUME Typed, Typed', Tokens, issued' = issued, Seated',
           \A s \in Sessions : /\ run'[s].token \in {0, run[s].token}
                               /\ run'[s].room \in {0, run[s].room},
           NEW i \in 1..4, NEW j \in 1..4, i # j, Kept'[i] = NoEntry, Kept'[j] = Kept[i],
           \A k \in 1..4 \ {i, j} : Kept'[k] \in {NoEntry, Kept[k]}
    PROVE  Tokens'
<1>1. /\ Kept'[i].token = 0 /\ Kept'[i].room = 0
      /\ Kept'[j].token = Kept[i].token /\ Kept'[j].room = Kept[i].room
      /\ \A k \in 1..4 \ {i, j} :
           Kept'[k].token \in {0, Kept[k].token} /\ Kept'[k].room \in {0, Kept[k].room}
  BY DEF NoEntry
<1>2. /\ \A s \in Sessions : run'[s].token <= issued' /\ run'[s].room <= issued'
      /\ \A k \in 1..4 : Kept'[k].token <= issued' /\ Kept'[k].room <= issued'
  BY <1>1, TokenTypes DEF Tokens
<1>3. \A s, u \in Sessions : s # u /\ run'[s].token # 0 => run'[s].token # run'[u].token
  BY DEF Tokens
<1>4. \A s \in Sessions, k \in 1..4 : Kept'[k].token # 0 => run'[s].token # Kept'[k].token
  BY <1>1 DEF Tokens
<1>5. \A k, l \in 1..4 : k # l /\ Kept'[k].token # 0 => Kept'[k].token # Kept'[l].token
  BY <1>1 DEF Tokens
<1> QED BY <1>2, <1>3, <1>4, <1>5 DEF Tokens, Seated

\* A new token goes to a session that searched.
LEMMA TokensAsk ==
    ASSUME Typed, Typed', Tokens, issued' = issued + 1, Seated',
           NEW s \in Sessions, run'[s].token = issued', run'[s].room <= issued',
           \A u \in Sessions \ {s} : run'[u].token = run[u].token /\ run'[u].room = run[u].room,
           Kept' = Kept
    PROVE  Tokens'
BY TokenTypes DEF Tokens, Seated

\* A new token goes to the probe, or is lost on it.
LEMMA TokensReclaim ==
    ASSUME Typed, Typed', Tokens, issued' = issued + 1, Seated',
           \A s \in Sessions : run'[s].token = run[s].token /\ run'[s].room = run[s].room,
           Kept'[1].token \in {0, issued'}, Kept'[1].room <= issued',
           \A i \in 2..4 : Kept'[i] = Kept[i]
    PROVE  Tokens'
<1>1. /\ \A u \in Sessions : run'[u].token <= issued' /\ run'[u].room <= issued'
      /\ \A k \in 1..4 : Kept'[k].token <= issued' /\ Kept'[k].room <= issued'
  BY TokenTypes DEF Tokens
<1>2. \A u \in Sessions, k \in 1..4 : Kept'[k].token # 0 => run'[u].token # Kept'[k].token
  BY TokenTypes DEF Tokens
<1>3. \A k, l \in 1..4 : k # l /\ Kept'[k].token # 0 => Kept'[k].token # Kept'[l].token
  BY TokenTypes DEF Tokens
<1> QED BY <1>1, <1>2, <1>3 DEF Tokens, Seated

\* The entry of an answer goes to the session that takes it up.
LEMMA TokensAdopt ==
    ASSUME Typed, Typed', Tokens, issued' = issued, Seated',
           NEW s \in Sessions, run'[s].token = Kept[4].token, run'[s].room = Kept[4].room,
           \A u \in Sessions \ {s} : run'[u].token = run[u].token /\ run'[u].room = run[u].room,
           Kept'[4] = NoEntry, \A i \in 1..3 : Kept'[i] = Kept[i]
    PROVE  Tokens'
<1>1. Kept'[4].token = 0 /\ Kept'[4].room = 0
  BY DEF NoEntry
<1>2. /\ \A u \in Sessions : run'[u].token <= issued' /\ run'[u].room <= issued'
      /\ \A k \in 1..4 : Kept'[k].token <= issued' /\ Kept'[k].room <= issued'
  BY <1>1, TokenTypes DEF Tokens
<1>3. \A u, v \in Sessions : u # v /\ run'[u].token # 0 => run'[u].token # run'[v].token
  BY DEF Tokens
<1>4. \A u \in Sessions, k \in 1..4 : Kept'[k].token # 0 => run'[u].token # Kept'[k].token
  BY <1>1 DEF Tokens
<1>5. \A k, l \in 1..4 : k # l /\ Kept'[k].token # 0 => Kept'[k].token # Kept'[l].token
  BY <1>1 DEF Tokens
<1> QED BY <1>2, <1>3, <1>4, <1>5 DEF Tokens, Seated

LEMMA KeptSame ==
    ASSUME UNCHANGED <<pending, probe, fetch, answer>>
    PROVE  Kept' = Kept /\ \A i \in 1..4 : Kept'[i] \in {NoEntry, Kept[i]}
BY DEF Kept

\* Sessions that stay as they are but for what they have heard and been told to do.
LEMMA ServerTokens ==
    ASSUME Typed, Typed', Tokens,
           \/ Pair \/ GameStarts \/ GameEnds \/ RematchStarts \/ RoomGoes
           \/ ServerRestarts \/ SocketDrops
    PROVE  Tokens'
<1> DEFINE Same == seat'.token = seat.token /\ seat'.room = seat.room
<1>0. seat \in Seats
  BY DEF Typed
<1>1. /\ issued' = issued /\ UNCHANGED <<pending, probe, fetch, answer>>
      /\ \/ seat' = NoSeat
         \/ seat.kind # "none" /\ Same
         \/ seat' = seat
  <2>1. CASE Pair
    BY <1>0, <2>1 DEF Pair, probeVars, Seats
  <2>2. CASE GameStarts
    BY <1>0, <2>2 DEF GameStarts, probeVars, Seats
  <2>3. CASE GameEnds
    BY <1>0, <2>3 DEF GameEnds, probeVars, Seats
  <2>4. CASE RematchStarts
    BY <1>0, <2>4 DEF RematchStarts, probeVars, Seats
  <2>5. CASE RoomGoes \/ ServerRestarts \/ SocketDrops
    BY <2>5 DEF RoomGoes, ServerRestarts, SocketDrops, probeVars
  <2> QED BY <2>1, <2>2, <2>3, <2>4, <2>5
<1>2. \/ run' = run
      \/ \E e \in Events : run' = Tell(e)
      \/ \E S : run' = Unplugged(S)
  BY DEF Pair, GameStarts, GameEnds, RematchStarts, RoomGoes, ServerRestarts, SocketDrops,
         Events, sessionVars
<1>3. \A s \in Sessions : run'[s].token = run[s].token /\ run'[s].room = run[s].room
  <2>1. CASE run' = run
    BY <2>1
  <2>2. CASE \E e \in Events : run' = Tell(e)
    BY <2>2, Told DEF SameSeat
  <2>3. CASE \E S : run' = Unplugged(S)
    BY <2>3, UnpluggedType
  <2> QED BY <1>2, <2>1, <2>2, <2>3
<1>4. Seated'
  BY <1>1 DEF Tokens, Seated, NoSeat
<1> QED BY <1>1, <1>3, <1>4, KeptSame, TokensKept

\* A step of one thread, its session's token kept or given up.
LEMMA StepTokens ==
    ASSUME Typed, Typed', Tokens, NEW s \in Sessions, NEW r \in Records, Step(s, r),
           r.token \in {0, run[s].token}, r.room \in {0, run[s].room},
           issued' = issued, seat' = seat \/ seat' = NoSeat
    PROVE  Tokens'
<1>1. run' = [run EXCEPT ![s] = r] /\ UNCHANGED <<pending, probe, fetch, answer>>
  BY DEF Step, probeVars
<1>2. \A u \in Sessions : /\ run'[u].token \in {0, run[u].token}
                          /\ run'[u].room \in {0, run[u].room}
  BY <1>1 DEF Typed
<1>3. Seated'
  BY DEF Tokens, Seated, NoSeat
<1> QED BY <1>1, <1>2, <1>3, KeptSame, TokensKept

LEMMA ThreadTokens ==
    ASSUME Typed, Typed', Tokens, NEW s \in Sessions, Thread(s)
    PROVE  Tokens'
<1>0. run[s] \in Records /\ run \in [Sessions -> Records]
  BY DEF Typed
<1>1. CASE \/ Begin(s) \/ Refused(s) \/ Answered(s) \/ AskFails(s) \/ Notice(s)
           \/ Resumed(s) \/ ResumeFatal(s) \/ GiveUp(s) \/ CancelRuns(s)
  <2>1. issued' = issued /\ (seat' = seat \/ seat' = NoSeat)
    BY <1>1 DEF Begin, Refused, Answered, AskFails, Notice, Resumed, ResumeFatal, GiveUp, CancelRuns
  <2> DEFINE Fine(r) == /\ r \in Records /\ Step(s, r)
                        /\ r.token \in {0, run[s].token} /\ r.room \in {0, run[s].room}
  <2>2. CASE Begin(s)
    <3>1. PICK q \in {"dialing", "asking"} : Step(s, [run[s] EXCEPT !.pc = q])
      BY <2>2 DEF Begin
    <3>2. Fine([run[s] EXCEPT !.pc = q])
      BY <1>0, <3>1 DEF Records, Threads
    <3> QED BY <2>1, <3>2, StepTokens
  <2>3. CASE Refused(s) \/ ResumeFatal(s) \/ GiveUp(s) \/ Step(s, EndsWith(s, "failed"))
    <3>1. PICK e \in Events : Step(s, EndsWith(s, e))
      BY <2>3 DEF Refused, ResumeFatal, GiveUp, Events
    <3> QED BY <2>1, <3>1, EndsType, StepTokens
  <2>4. CASE Answered(s)
    <3>1. Fine([run[s] EXCEPT !.pc = "dialing", !.queued = TRUE])
      BY <1>0, <2>4 DEF Answered, Records, Threads
    <3> QED BY <2>1, <3>1, StepTokens
  <2>5. CASE Step(s, [run[s] EXCEPT !.pc = "asking"])
    <3>1. Fine([run[s] EXCEPT !.pc = "asking"])
      BY <1>0, <2>5 DEF Records, Threads
    <3> QED BY <2>1, <3>1, StepTokens
  <2>6. CASE Notice(s)
    <3>1. \/ Step(s, [run[s] EXCEPT !.pc = "resuming", !.wire = "none"])
          \/ Step(s, Ended(s))
      BY <2>6 DEF Notice
    <3>2. CASE Step(s, Ended(s))
      BY <2>1, <3>2, EndedType, StepTokens
    <3>3. CASE Step(s, [run[s] EXCEPT !.pc = "resuming", !.wire = "none"])
      <4>1. Fine([run[s] EXCEPT !.pc = "resuming", !.wire = "none"])
        BY <1>0, <3>3 DEF Records, Threads
      <4> QED BY <2>1, <4>1, StepTokens
    <3> QED BY <3>1, <3>2, <3>3
  <2>7. CASE Resumed(s)
    <3> DEFINE r == [run[s] EXCEPT !.pc = "dialing"]
    <3>1. r \in Records /\ r.token = run[s].token /\ r.room = run[s].room
      BY <1>0 DEF Records, Threads
    <3>2. Step(s, IF seat.kind = "finished" THEN r ELSE Post(s, r, "running"))
      BY <2>7 DEF Resumed
    <3> HIDE DEF r
    <3>3. PICK q : Fine(q)
      BY <3>1, <3>2, Posted DEF Events, SameSeat
    <3> QED BY <2>1, <3>3, StepTokens
  <2>8. CASE CancelRuns(s)
    <3>1. Fine([run[s] EXCEPT !.cancelling = FALSE, !.queued = FALSE, !.stop = TRUE])
      BY <1>0, <2>8 DEF CancelRuns, Records
    <3> QED BY <2>1, <3>1, StepTokens
  <2>9. AskFails(s) => \/ Step(s, EndsWith(s, "failed"))
                       \/ Step(s, [run[s] EXCEPT !.pc = "asking"])
    BY DEF AskFails
  <2> HIDE DEF Fine
  <2> QED BY <1>1, <2>2, <2>3, <2>4, <2>5, <2>6, <2>7, <2>8, <2>9
<1>2. CASE Ask(s)
  <2> DEFINE q == IF seat.kind = "playing" THEN Tell("result") ELSE run
  <2>1. /\ q \in [Sessions -> Records]
        /\ \A u \in Sessions : q[u].token = run[u].token /\ q[u].room = run[u].room
    BY <1>0, Told DEF Events, SameSeat
  <2>2. run' = [q EXCEPT ![s] = [q[s] EXCEPT !.pc = "asked", !.room = issued', !.token = issued']]
    BY <1>2, <2>1 DEF Ask
  <2>3. q[s] \in Records
    BY <2>1
  <2> HIDE DEF q
  <2>4. /\ run'[s].token = issued' /\ run'[s].room = issued'
        /\ \A u \in Sessions \ {s} : run'[u].token = run[u].token /\ run'[u].room = run[u].room
    BY <2>1, <2>2, <2>3 DEF Records
  <2>5. /\ issued' = issued + 1 /\ issued \in Nat /\ UNCHANGED <<pending, probe, fetch, answer>>
        /\ seat' = [kind |-> "queued", room |-> issued', token |-> issued', told |-> FALSE]
    <3>1. issued \in Nat
      BY DEF Typed
    <3> QED BY <1>2, <3>1 DEF Ask, probeVars
  <2>6. Seated' /\ issued' <= issued'
    BY <2>5 DEF Seated
  <2> QED BY <2>4, <2>5, <2>6, KeptSame, TokensAsk
<1>3. CASE Dial(s)
  <2>1. /\ issued' = issued /\ UNCHANGED <<pending, probe, fetch, answer>>
        /\ seat'.token = seat.token /\ seat'.room = seat.room /\ seat'.kind = seat.kind
    BY <1>3 DEF Dial, probeVars, Typed, Seats
  <2>2. Seated'
    BY <2>1 DEF Seated, Tokens
  <2>3. \A u \in Sessions : run'[u].token = run[u].token /\ run'[u].room = run[u].room
    <3>1. CASE ~Holds(s)
      <4>1. run' = [run EXCEPT ![s] = [run[s] EXCEPT !.pc = "open", !.wire = "down"]]
        BY <1>0, <1>3, <3>1 DEF Dial
      <4> QED BY <1>0, <4>1 DEF Records
    <3>2. CASE Holds(s)
      <4> DEFINE r == [run[s] EXCEPT !.pc = "open", !.wire = "up"]
                 q == IF Greeting = "none" THEN r ELSE Hear(s, r, Greeting)
      <4>1. r \in Records /\ r.token = run[s].token /\ r.room = run[s].room
        BY <1>0 DEF Records, Threads
      <4>2. Greeting \in {"none", "start", "result"}
        BY DEF Greeting
      <4>3. q.token = run[s].token /\ q.room = run[s].room
        <5> HIDE DEF r
        <5> QED BY <4>1, <4>2, Heard DEF Events, SameSeat
      <4>4. run' = [Unplugged(Displaced) EXCEPT ![s] = q]
        BY <1>3, <3>2 DEF Dial
      <4> HIDE DEF q
      <4> QED BY <4>3, <4>4, UnpluggedType
    <3> QED BY <3>1, <3>2
  <2> QED BY <2>1, <2>2, <2>3, KeptSame, TokensKept
<1>4. CASE DialFails(s)
  <2>1. /\ issued' = issued /\ seat' = seat /\ UNCHANGED <<pending, probe, fetch, answer>>
        /\ run' = [run EXCEPT ![s] = EndsWith(s, "crashed")]
    BY <1>4 DEF DialFails, probeVars
  <2>2. \A u \in Sessions : /\ run'[u].token \in {0, run[u].token}
                            /\ run'[u].room \in {0, run[u].room}
    BY <1>0, <2>1, EndsType DEF Events
  <2>3. Seated'
    BY <2>1 DEF Seated, Tokens
  <2> QED BY <2>1, <2>2, <2>3, KeptSame, TokensKept
<1> QED BY <1>1, <1>2, <1>3, <1>4 DEF Thread

LEMMA RetiredEntry ==
    ASSUME NEW w \in Probes \cup Fetches
    PROVE  Retire(w).entry \in {NoEntry, w.entry}
BY DEF Retire, Probes, Fetches

LEMMA FrameTokens ==
    ASSUME Typed, Typed', Tokens,
           \/ Search \/ OnOnlineCancel \/ Leave \/ RetainForRematch
           \/ OnReconnectActiveGame \/ OnServerTargetChanged \/ Refresh
    PROVE  Tokens'
<1> USE KeptAre DEF Acts, serverVars, sessionVars, probeVars
<1>0. probe \in Probes /\ fetch \in Fetches
  BY DEF Typed, Probes, Fetches
<1>1. Seated' /\ issued' = issued
  <2>1. seat' = seat /\ issued' = issued
    BY DEF Search, OnServerAddrConnect, OnOnlineCancel, Leave, GoToMenu, RetainForRematch,
           OnReconnectActiveGame, OnServerTargetChanged, Refresh
  <2> QED BY <2>1 DEF Seated, Tokens
<1>2. CASE Search
  <2>1. /\ Open(LetGo("disconnect"), [Idle EXCEPT !.pc = "starting"])
        /\ probe' = Retire(probe) /\ fetch' = Retire(fetch)
        /\ UNCHANGED <<pending, answer>>
    BY <1>2 DEF Search, OnServerAddrConnect
  <2>2. [Idle EXCEPT !.pc = "starting"] \in Records /\ [Idle EXCEPT !.pc = "starting"].pc # "none"
    BY IdleType DEF Records, Threads, Idle
  <2>3. [Idle EXCEPT !.pc = "starting"].token = 0 /\ [Idle EXCEPT !.pc = "starting"].room = 0
    BY DEF Idle
  <2>4. /\ LetGo("disconnect") \in [Sessions -> Records]
        /\ \A s \in Sessions : SameSeat(LetGo("disconnect")[s], run[s])
    BY LetGoType DEF Ways
  <2>5. /\ run'[used'] = [Idle EXCEPT !.pc = "starting"]
        /\ \A s \in Sessions : s # used' => run'[s] = LetGo("disconnect")[s]
    <3>1. \A s \in Sessions : LetGo("disconnect")[s].pc = run[s].pc
      BY <2>4 DEF SameSeat
    <3> QED BY <2>1, <2>2, <2>4, <3>1, Opened
  <2>6. \A s \in Sessions : /\ run'[s].token \in {0, run[s].token}
                            /\ run'[s].room \in {0, run[s].room}
    BY <2>3, <2>4, <2>5 DEF SameSeat
  <2>7. \A i \in 1..4 : Kept'[i] \in {NoEntry, Kept[i]}
    BY <1>0, <2>1, RetiredEntry
  <2> QED BY <1>1, <2>6, <2>7, TokensKept
<1>3. CASE OnOnlineCancel \/ Leave
  <2>1. PICK how \in Ways : GoToMenu(how)
    BY <1>3 DEF OnOnlineCancel, Leave, Ways
  <2>2. \A s \in Sessions : run'[s].token = run[s].token /\ run'[s].room = run[s].room
    BY <2>1, LetGoType DEF SameSeat, GoToMenu
  <2>3. UNCHANGED <<pending, probe, fetch, answer>>
    BY <2>1 DEF GoToMenu
  <2> QED BY <1>1, <2>2, <2>3, KeptSame, TokensKept
<1>4. CASE RetainForRematch
  BY <1>1, <1>4, KeptSame, TokensKept DEF RetainForRematch
<1>5. CASE OnReconnectActiveGame
  <2>1. /\ Kept'[2] = NoEntry /\ Kept'[3] = Kept[2] /\ run' = run
        /\ Kept'[1] \in {NoEntry, Kept[1]} /\ Kept'[4] = Kept[4]
    BY <1>0, <1>5, RetiredEntry DEF OnReconnectActiveGame
  <2> QED BY <1>1, <2>1, TokensPass
<1>6. CASE OnServerTargetChanged
  <2>1. \A i \in 1..4 : Kept'[i] \in {NoEntry, Kept[i]}
    BY <1>0, <1>6, RetiredEntry DEF OnServerTargetChanged
  <2> QED BY <1>1, <1>6, <2>1, TokensKept DEF OnServerTargetChanged
<1>7. CASE Refresh
  <2>1. \A i \in 1..4 : Kept'[i] \in {NoEntry, Kept[i]}
    BY <1>0, <1>7, RetiredEntry DEF Refresh
  <2> QED BY <1>1, <1>7, <2>1, TokensKept DEF Refresh
<1> QED BY <1>2, <1>3, <1>4, <1>5, <1>6, <1>7

LEMMA UpdateTokens == ASSUME Typed, Typed', Tokens, Update PROVE Tokens'
<1>1. Seated' /\ issued' = issued /\ probe' = probe /\ fetch' = fetch /\ answer' = NoAnswer
  BY Updated DEF Seated, Tokens, serverVars
<1>2. /\ LetGo(Handled.ends) \in [Sessions -> Records]
      /\ \A s \in Sessions : SameSeat(LetGo(Handled.ends)[s], run[s])
  BY HandledType, LetGoType DEF Outcomes, Ways
<1>3. Kept'[1] = Kept[1] /\ Kept'[3] = Kept[3] /\ Kept'[4] = NoEntry
  BY <1>1, KeptAre DEF NoAnswer
<1>4. CASE Adopts
  <2>1. Open(LetGo(Handled.ends), Adopted) /\ pending' = pending
    BY <1>4, Updated
  <2>2. /\ used' \in Sessions /\ run'[used'] = Adopted
        /\ \A s \in Sessions : s # used' => run'[s] = LetGo(Handled.ends)[s]
    BY <1>2, <2>1, AdoptedType, Opened DEF SameSeat, Sessions
  <2>3. run'[used'].token = Kept[4].token /\ run'[used'].room = Kept[4].room
    BY <2>2, AdoptedType, KeptAre
  <2>4. \A u \in Sessions \ {used'} : run'[u].token = run[u].token /\ run'[u].room = run[u].room
    BY <1>2, <2>2 DEF SameSeat
  <2>5. \A i \in 1..3 : Kept'[i] = Kept[i]
    BY <1>3, <2>1, KeptAre
  <2> QED BY <1>1, <1>3, <2>2, <2>3, <2>4, <2>5, TokensAdopt
<1>5. CASE ~Adopts
  <2>1. run' = LetGo(Handled.ends) /\ Kept'[2] \in {Kept[2], Kept[4]}
    BY <1>5, Updated, KeptAre
  <2>2. \A s \in Sessions : run'[s].token = run[s].token /\ run'[s].room = run[s].room
    BY <1>2, <2>1 DEF SameSeat
  <2>3. CASE Kept'[2] = Kept[2]
    BY <1>1, <1>3, <2>2, <2>3, TokensKept
  <2>4. CASE Kept'[2] = Kept[4]
    BY <1>1, <1>3, <2>2, <2>4, TokensPass
  <2> QED BY <2>1, <2>3, <2>4
<1> QED BY <1>4, <1>5

LEMMA WorkerTokens ==
    ASSUME Typed, Typed', Tokens, ProbeReclaims \/ ProbeEnds \/ FetchEnds
    PROVE  Tokens'
<1> USE KeptAre DEF serverVars, sessionVars
<1>1. CASE ProbeReclaims
  <2>1. /\ issued' = issued + 1 /\ issued \in Nat /\ run' = Unplugged(Displaced)
        /\ UNCHANGED <<pending, fetch, answer>>
        /\ seat'.token = issued' /\ seat'.room = seat.room /\ seat.kind # "none"
    BY <1>1 DEF ProbeReclaims, Typed, Active, Seats
  <2>2. Seated'
    BY <2>1 DEF Seated, Tokens, Typed, Seats
  <2>3. probe'.entry \in {NoEntry, [room |-> seat.room, token |-> issued']}
    BY <1>1 DEF ProbeReclaims, Typed
  <2>4. Kept'[1].token \in {0, issued'} /\ Kept'[1].room <= issued'
    BY <2>1, <2>3 DEF NoEntry, Tokens
  <2>5. \A i \in 2..4 : Kept'[i] = Kept[i]
    BY <2>1
  <2>6. \A s \in Sessions : run'[s].token = run[s].token /\ run'[s].room = run[s].room
    BY <2>1, UnpluggedType
  <2> QED BY <2>1, <2>2, <2>4, <2>5, <2>6, TokensReclaim
<1>2. CASE ProbeEnds
  <2>1. /\ Seated' /\ issued' = issued /\ run' = run
        /\ Kept'[1] = NoEntry /\ Kept'[3] = Kept[3] /\ Kept'[4] = Kept[4]
        /\ Kept'[2] \in {NoEntry, Kept[1], Kept[2]}
    BY <1>2 DEF ProbeEnds, NoProbe, Seated, Tokens
  <2>2. CASE Kept'[2] = Kept[1]
    BY <2>1, <2>2, TokensPass
  <2>3. CASE Kept'[2] # Kept[1]
    BY <2>1, <2>3, TokensKept
  <2> QED BY <2>2, <2>3
<1>3. CASE FetchEnds
  <2>1. /\ Seated' /\ issued' = issued /\ run' = run
        /\ Kept'[3] = NoEntry /\ Kept'[1] = Kept[1] /\ Kept'[2] = Kept[2]
        /\ Kept'[4] \in {Kept[3], Kept[4]}
    BY <1>3 DEF FetchEnds, NoFetch, Seated, Tokens
  <2>2. CASE Kept'[4] = Kept[3]
    BY <2>1, <2>2, TokensPass
  <2>3. CASE Kept'[4] # Kept[3]
    BY <2>1, <2>3, TokensKept
  <2> QED BY <2>2, <2>3
<1> QED BY <1>1, <1>2, <1>3

LEMMA TokensInit == Init => Tokens
<1> SUFFICES ASSUME Init PROVE Tokens
  OBVIOUS
<1>1. /\ \A s \in Sessions : run[s].token = 0 /\ run[s].room = 0
      /\ issued = 1 /\ seat.token = 1 /\ seat.room = 1
  BY DEF Init, Idle
<1>2. \A i \in 1..4 : Kept[i] = NoEntry
  BY KeptAre DEF Init, NoProbe, NoFetch, NoAnswer
<1> QED BY <1>1, <1>2 DEF Tokens, NoEntry

LEMMA TokensStep == ASSUME Typed, Tokens, [Next]_vars PROVE Tokens'
<1>1. Typed'
  BY TypedStep
<1>2. CASE \E s \in Sessions : Thread(s)
  BY <1>1, <1>2, ThreadTokens
<1>3. CASE UNCHANGED vars
  BY <1>3 DEF Tokens, Kept, vars, serverVars, sessionVars, frameVars, probeVars
<1> QED BY <1>1, <1>2, <1>3, ServerTokens, FrameTokens, UpdateTokens, WorkerTokens DEF Next
-----------------------------------------------------------------------------
(* Whoever holds the seat has heard what was told *)

\* A session that is gone, or that goes by what it went by and knows what it knew, and is
\* up only if it was.
Steady(s) ==
    \/ run'[s].token = 0 /\ run'[s].wire # "up"
    \/ /\ run'[s].room = run[s].room /\ run'[s].token = run[s].token
       /\ SameFlags(run'[s], run[s])
       /\ run'[s].wire = "up" => run[s].wire = "up" /\ run'[s].pc = "open"

LEMMA PresenceKept ==
    ASSUME Typed, Tokens, Presence, \A s \in Sessions : Steady(s),
           \/ seat' = seat \/ seat' = NoSeat
           \/ seat.kind = "queued" /\ seat' = [seat EXCEPT !.kind = "paired"]
    PROVE  Presence'
<1>1. \A s \in Sessions : Up(s)' => Up(s) /\ run'[s].pc = "open"
                                   /\ run'[s].room = run[s].room /\ run'[s].token = run[s].token
                                   /\ SameFlags(run'[s], run[s])
  BY DEF Steady, Up
<1>2. seat'.kind # "none" => /\ seat.kind # "none" /\ seat'.room = seat.room
                             /\ seat'.token = seat.token /\ seat.token # 0
                             /\ seat'.kind \in {"playing", "finished"} => seat' = seat
  BY DEF NoSeat, Typed, Seats, Tokens
<1>3. \A s \in Sessions : InRoom(s)' /\ seat'.kind # "none" => InRoom(s)
  BY <1>1, <1>2 DEF InRoom
<1>4. \A s \in Sessions : Holds(s)' => Holds(s) /\ SameFlags(run'[s], run[s])
  BY <1>2 DEF Holds, Steady
<1>5. /\ \A s \in Sessions : Up(s)' => run'[s].pc = "open"
      /\ \A s \in Sessions : InRoom(s)' /\ seat'.kind # "none" => Holds(s)'
  BY <1>1, <1>2, <1>3 DEF Presence, Holds, InRoom
<1>6. seat'.kind = "playing" /\ ~seat'.told => ~Present'
  BY <1>2, <1>3 DEF Presence, Present
<1>7. seat'.kind = "playing" /\ seat'.told =>
        \A s \in Sessions : Holds(s)' => run'[s].active /\ ~run'[s].post
  BY <1>2, <1>4 DEF Presence, SameFlags
<1>8. seat'.kind = "finished" =>
        \A s \in Sessions : InRoom(s)' => run'[s].post /\ ~run'[s].active
  BY <1>1, <1>2, <1>3 DEF Presence, SameFlags, InRoom
<1> QED BY <1>5, <1>6, <1>7, <1>8 DEF Presence

\* A seat has one holder at most.
LEMMA OneHolder ==
    ASSUME Typed, Tokens, NEW s \in Sessions, NEW u \in Sessions, Holds(s), Holds(u)
    PROVE  s = u
BY DEF Holds, Tokens

\* A game starts, for whoever is in the room; nobody else holds the seat if anybody is.
LEMMA PresenceStart ==
    ASSUME Typed, Tokens, Presence, run' = Tell("start"), seat.kind # "none",
           NEW here \in BOOLEAN, here <=> Present,
           seat' = [seat EXCEPT !.kind = "playing", !.told = here]
    PROVE  Presence'
<1>1. /\ seat'.kind = "playing" /\ seat'.told = here
      /\ seat'.room = seat.room /\ seat'.token = seat.token
  BY DEF Typed, Seats
<1>2. \A s \in Sessions : /\ SameSeat(run'[s], run[s])
                          /\ InRoom(s) => run'[s].active /\ ~run'[s].post
  BY Told DEF Events
<1>3. \A s \in Sessions : /\ Up(s)' <=> Up(s)
                          /\ InRoom(s)' <=> InRoom(s)
                          /\ Holds(s)' <=> Holds(s)
  BY <1>1, <1>2 DEF SameSeat, Up, InRoom, Holds
<1>4. \A s \in Sessions : Present /\ Holds(s) => InRoom(s)
  BY OneHolder DEF Presence, Present
<1>5. Present' <=> Present
  BY <1>3 DEF Present
<1>6. \A s \in Sessions : Up(s)' => run'[s].pc = "open"
  BY <1>2, <1>3 DEF Presence, SameSeat
<1>7. \A s \in Sessions : InRoom(s)' /\ seat'.kind # "none" => Holds(s)'
  BY <1>3 DEF Presence
<1>8. seat'.told => \A s \in Sessions : Holds(s)' => run'[s].active /\ ~run'[s].post
  BY <1>1, <1>2, <1>3, <1>4
<1> QED BY <1>1, <1>5, <1>6, <1>7, <1>8 DEF Presence

LEMMA ServerPresence ==
    ASSUME Typed, Tokens, Presence,
           \/ Pair \/ GameStarts \/ GameEnds \/ RematchStarts \/ RoomGoes
           \/ ServerRestarts \/ SocketDrops
    PROVE  Presence'
<1>1. CASE Pair
  <2>1. run' = run /\ seat.kind = "queued" /\ seat' = [seat EXCEPT !.kind = "paired"]
    BY <1>1 DEF Pair, sessionVars
  <2>2. \A s \in Sessions : Steady(s)
    BY <2>1 DEF Steady, SameFlags, Presence, Up
  <2> QED BY <2>1, <2>2, PresenceKept
<1>2. CASE GameStarts
  <2>1. /\ run' = Tell("start") /\ seat.kind # "none" /\ Present
        /\ seat' = [seat EXCEPT !.kind = "playing", !.told = TRUE]
    BY <1>2 DEF GameStarts
  <2> QED BY <2>1, PresenceStart
<1>3. CASE RematchStarts
  <2>1. PICK here \in BOOLEAN : /\ here <=> Present
                               /\ seat' = [seat EXCEPT !.kind = "playing", !.told = here]
    BY <1>3 DEF RematchStarts, Present
  <2>2. run' = Tell("start") /\ seat.kind # "none"
    BY <1>3 DEF RematchStarts
  <2> QED BY <2>1, <2>2, PresenceStart
<1>4. CASE GameEnds
  <2>1. /\ run' = Tell("result") /\ seat.kind = "playing"
        /\ seat'.kind = "finished" /\ seat'.room = seat.room /\ seat'.token = seat.token
    BY <1>4 DEF GameEnds, Typed, Seats
  <2>2. \A s \in Sessions : /\ SameSeat(run'[s], run[s])
                            /\ InRoom(s) => run'[s].post /\ ~run'[s].active
    BY <2>1, Told DEF Events
  <2>3. \A s \in Sessions : /\ Up(s)' <=> Up(s)
                            /\ InRoom(s)' <=> InRoom(s)
                            /\ Holds(s)' <=> Holds(s)
    BY <2>1, <2>2 DEF SameSeat, Up, InRoom, Holds
  <2> QED BY <2>1, <2>2, <2>3 DEF Presence, SameSeat
<1>5. CASE RoomGoes
  <2>1. PICK e \in Events : run' = Tell(e) /\ e \notin {"start", "result"}
    BY <1>5 DEF RoomGoes, Events
  <2>2. ASSUME NEW s \in Sessions PROVE Up(s)' => run'[s].pc = "open"
    BY <2>1, Told DEF SameSeat, Up, Presence
  <2>3. seat'.kind = "none"
    BY <1>5 DEF RoomGoes, NoSeat
  <2> QED BY <2>2, <2>3 DEF Presence
<1>6. CASE ServerRestarts \/ SocketDrops
  <2>1. PICK S : run' = Unplugged(S) /\ (seat' = seat \/ seat' = NoSeat)
    BY <1>6 DEF ServerRestarts, SocketDrops
  <2>2. \A s \in Sessions : Steady(s)
    BY <2>1, UnpluggedType DEF Steady, Presence, Up
  <2> QED BY <2>1, <2>2, PresenceKept
<1> QED BY <1>1, <1>2, <1>3, <1>4, <1>5, <1>6

\* A step of one thread that leaves its session steady.
LEMMA StepPresence ==
    ASSUME Typed, Tokens, Presence, NEW s \in Sessions, NEW r \in Records,
           run' = [run EXCEPT ![s] = r], seat' = seat \/ seat' = NoSeat,
           \/ r.token = 0 /\ r.wire # "up"
           \/ /\ r.room = run[s].room /\ r.token = run[s].token /\ SameFlags(r, run[s])
              /\ r.wire = "up" => run[s].wire = "up" /\ r.pc = "open"
    PROVE  Presence'
<1>1. \A u \in Sessions : Steady(u)
  BY DEF Steady, SameFlags, Presence, Up, Typed
<1> QED BY <1>1, PresenceKept

LEMMA ThreadPresence ==
    ASSUME Typed, Tokens, Presence, NEW s \in Sessions, Thread(s)
    PROVE  Presence'
<1>0. /\ run[s] \in Records /\ run \in [Sessions -> Records]
      /\ run[s].wire = "up" => run[s].pc = "open"
  BY DEF Typed, Presence, Up
<1> DEFINE Fine(r) == /\ r \in Records /\ run' = [run EXCEPT ![s] = r]
                      /\ r.room = run[s].room /\ r.token = run[s].token
                      /\ SameFlags(r, run[s])
                      /\ r.wire = "up" => run[s].wire = "up" /\ r.pc = "open"
<1>1. CASE Begin(s)
  <2>1. PICK q \in {"dialing", "asking"} : run' = [run EXCEPT ![s] = [run[s] EXCEPT !.pc = q]]
    BY <1>1 DEF Begin, Step
  <2>2. run[s].pc = "starting" /\ seat' = seat
    BY <1>1 DEF Begin
  <2>3. Fine([run[s] EXCEPT !.pc = q])
    BY <1>0, <2>1, <2>2 DEF Records, Threads, SameFlags
  <2> QED BY <2>2, <2>3, StepPresence
<1>2. CASE Refused(s) \/ ResumeFatal(s) \/ GiveUp(s) \/ DialFails(s)
  <2>1. PICK e \in Events : run' = [run EXCEPT ![s] = EndsWith(s, e)]
    BY <1>2 DEF Refused, ResumeFatal, GiveUp, DialFails, Step, Events
  <2>2. seat' = seat
    BY <1>2 DEF Refused, ResumeFatal, GiveUp, DialFails
  <2> QED BY <2>1, <2>2, EndsType, StepPresence
<1>3. CASE Answered(s)
  <2>1. /\ run' = [run EXCEPT ![s] = [run[s] EXCEPT !.pc = "dialing", !.queued = TRUE]]
        /\ run[s].pc = "asked" /\ seat' = seat
    BY <1>3 DEF Answered, Step
  <2>2. Fine([run[s] EXCEPT !.pc = "dialing", !.queued = TRUE])
    BY <1>0, <2>1 DEF Records, Threads, SameFlags
  <2> QED BY <2>1, <2>2, StepPresence
<1>4. CASE AskFails(s)
  <2>1. seat' = seat /\ run[s].pc \in {"asking", "asked"}
    BY <1>4 DEF AskFails
  <2>2. CASE Step(s, EndsWith(s, "failed"))
    BY <2>1, <2>2, EndsType, StepPresence DEF Step, Events
  <2>3. CASE Step(s, [run[s] EXCEPT !.pc = "asking"])
    <3>1. Fine([run[s] EXCEPT !.pc = "asking"])
      BY <1>0, <2>1, <2>3 DEF Records, Threads, SameFlags, Step
    <3> QED BY <2>1, <3>1, StepPresence
  <2> QED BY <1>4, <2>2, <2>3 DEF AskFails
<1>5. CASE Notice(s)
  <2>1. seat' = seat
    BY <1>5 DEF Notice
  <2>2. CASE Step(s, Ended(s))
    BY <2>1, <2>2, EndedType, StepPresence DEF Step
  <2>3. CASE Step(s, [run[s] EXCEPT !.pc = "resuming", !.wire = "none"])
    <3>1. Fine([run[s] EXCEPT !.pc = "resuming", !.wire = "none"])
      BY <1>0, <2>3 DEF Records, Threads, SameFlags, Step
    <3> QED BY <2>1, <3>1, StepPresence
  <2> QED BY <1>5, <2>2, <2>3 DEF Notice
<1>6. CASE Resumed(s)
  <2> DEFINE r == [run[s] EXCEPT !.pc = "dialing"]
  <2>1. /\ r \in Records /\ r.token = run[s].token /\ r.room = run[s].room
        /\ r.wire = run[s].wire /\ SameFlags(r, run[s])
    BY <1>0 DEF Records, Threads, SameFlags
  <2>2. /\ run' = [run EXCEPT ![s] = IF seat.kind = "finished" THEN r ELSE Post(s, r, "running")]
        /\ run[s].pc = "resuming" /\ seat' = seat
    BY <1>6 DEF Resumed, Step
  <2> HIDE DEF r
  <2>3. r.wire # "up"
    BY <1>0, <2>1, <2>2
  <2>4. CASE seat.kind = "finished"
    BY <2>1, <2>2, <2>3, <2>4, StepPresence
  <2>5. CASE seat.kind # "finished"
    <3> DEFINE q == Post(s, r, "running")
    <3>1. q \in Records /\ SameSeat(q, r) /\ SameFlags(q, r)
      BY <2>1, Posted DEF Events
    <3>2. run' = [run EXCEPT ![s] = q]
      BY <2>2, <2>5
    <3> HIDE DEF q
    <3>3. /\ q.room = run[s].room /\ q.token = run[s].token /\ q.wire # "up"
          /\ SameFlags(q, run[s])
      BY <2>1, <2>3, <3>1 DEF SameSeat, SameFlags
    <3> QED BY <2>2, <3>1, <3>2, <3>3, StepPresence
  <2> QED BY <2>4, <2>5
<1>7. CASE CancelRuns(s)
  <2>1. /\ run' = [run EXCEPT ![s] =
                     [run[s] EXCEPT !.cancelling = FALSE, !.queued = FALSE, !.stop = TRUE]]
        /\ seat' = seat \/ seat' = NoSeat
    BY <1>7 DEF CancelRuns, Step
  <2>2. Fine([run[s] EXCEPT !.cancelling = FALSE, !.queued = FALSE, !.stop = TRUE])
    BY <1>0, <2>1 DEF Records, SameFlags
  <2> QED BY <2>1, <2>2, StepPresence
<1>8. CASE Ask(s)
  <2> DEFINE q == IF seat.kind = "playing" THEN Tell("result") ELSE run
  <2>1. q \in [Sessions -> Records] /\ \A u \in Sessions : SameSeat(q[u], run[u])
    BY <1>0, Told DEF Events, SameSeat
  <2>2. run' = [q EXCEPT ![s] = [q[s] EXCEPT !.pc = "asked", !.room = issued', !.token = issued']]
    BY <1>8, <2>1 DEF Ask
  <2>3. q[s] \in Records
    BY <2>1
  <2> HIDE DEF q
  <2>4. /\ run'[s].wire = run[s].wire /\ run[s].pc = "asking"
        /\ \A u \in Sessions \ {s} : SameSeat(run'[u], run[u])
    <3> DEFINE p == [q[s] EXCEPT !.pc = "asked", !.room = issued', !.token = issued']
    <3>1. p.wire = q[s].wire
      BY <2>3 DEF Records
    <3>2. run' = [q EXCEPT ![s] = p]
      BY <2>2
    <3> HIDE DEF p
    <3>3. run'[s] = p /\ \A u \in Sessions \ {s} : run'[u] = q[u]
      BY <2>1, <3>2
    <3>4. run[s].pc = "asking"
      BY <1>8 DEF Ask
    <3> QED BY <2>1, <3>1, <3>3, <3>4 DEF SameSeat
  <2>5. /\ issued' = issued + 1 /\ seat'.kind = "queued" /\ seat'.room = issued'
    BY <1>8 DEF Ask
  <2>6. \A u \in Sessions : Up(u)' => u # s /\ run'[u].pc = "open" /\ run'[u].room # issued'
    BY <1>0, <2>4, <2>5, TokenTypes DEF Up, SameSeat, Presence, Tokens
  <2>7. \A u \in Sessions : ~InRoom(u)'
    BY <2>5, <2>6 DEF InRoom
  <2> QED BY <2>5, <2>6, <2>7 DEF Presence
<1>9. CASE Dial(s)
  <2>1. CASE ~Holds(s)
    <3>1. /\ run' = [run EXCEPT ![s] = [run[s] EXCEPT !.pc = "open", !.wire = "down"]]
          /\ seat' = seat
      BY <1>0, <1>9, <2>1 DEF Dial
    <3>2. Fine([run[s] EXCEPT !.pc = "open", !.wire = "down"])
      BY <1>0, <3>1 DEF Records, Threads, SameFlags
    <3> QED BY <3>1, <3>2, StepPresence
  <2>2. CASE Holds(s)
    <3> DEFINE r == [run[s] EXCEPT !.pc = "open", !.wire = "up"]
               q == IF Greeting = "none" THEN r ELSE Hear(s, r, Greeting)
    <3>1. /\ r \in Records /\ r.token = run[s].token /\ r.room = run[s].room
          /\ r.pc = "open" /\ r.wire = "up" /\ SameFlags(r, run[s])
      BY <1>0 DEF Records, Threads, SameFlags
    <3>2. Greeting \in {"none", "start", "result"}
      BY DEF Greeting
    <3>3. /\ q.token = run[s].token /\ q.room = run[s].room
          /\ q.pc = "open" /\ q.wire = "up"
          /\ Greeting = "none" => SameFlags(q, run[s])
          /\ Greeting = "start" => q.active /\ ~q.post
          /\ Greeting = "result" => q.post /\ ~q.active
      <4> HIDE DEF r
      <4> QED BY <3>1, <3>2, Heard DEF Events, SameSeat
    <3>4. run' = [Unplugged(Displaced) EXCEPT ![s] = q]
      BY <1>9, <2>2 DEF Dial
    <3>5. PICK told \in BOOLEAN : /\ told <=> seat.told \/ Greeting = "start"
                                 /\ seat' = [seat EXCEPT !.told = told]
      BY <1>9, <2>2 DEF Dial, Typed, Seats
    <3>6. /\ seat'.kind = seat.kind /\ seat'.room = seat.room /\ seat'.token = seat.token
          /\ seat'.told = told
      BY <3>5 DEF Typed, Seats
    <3> HIDE DEF q
    <3>7. /\ run'[s] = q
          /\ \A u \in Sessions \ {s} : run'[u] = Unplugged(Displaced)[u]
      BY <3>4, UnpluggedType
    <3>8. ASSUME NEW u \in Sessions \ {s}, Up(u)'
          PROVE  run'[u].pc = "open" /\ ~InRoom(u)'
      <4>1. /\ run'[u].wire = IF u \in Displaced THEN "down" ELSE run[u].wire
            /\ run'[u].pc = run[u].pc /\ run'[u].room = run[u].room
        BY <3>7, UnpluggedType
      <4>2. Up(u) /\ u \notin Displaced
        BY <3>8, <4>1 DEF Up
      <4> QED BY <3>6, <4>1, <4>2 DEF InRoom, Displaced, Presence
    <3>9. \A u \in Sessions \ {s} : ~Holds(u)'
      BY <2>2, <3>6, <3>7, UnpluggedType, OneHolder DEF Holds
    <3>10. seat.kind = "playing" => told /\ q.active /\ ~q.post
      <4>1. seat.kind = "playing" /\ seat.told => run[s].active /\ ~run[s].post
        BY <2>2 DEF Presence
      <4>2. seat.kind = "playing" => IF seat.told THEN Greeting = "none" ELSE Greeting = "start"
        BY DEF Greeting
      <4> QED BY <3>3, <3>5, <4>1, <4>2 DEF SameFlags
    <3>11. seat.kind = "finished" => q.post /\ ~q.active
      BY <3>3 DEF Greeting
    <3>12. Holds(s)' /\ Up(s)' /\ run'[s].pc = "open"
      BY <2>2, <3>3, <3>6, <3>7 DEF Holds, Up
    <3>13. \A u \in Sessions : Up(u)' => run'[u].pc = "open"
      BY <3>8, <3>12
    <3>14. \A u \in Sessions : InRoom(u)' => u = s
      BY <3>8 DEF InRoom
    <3> QED BY <3>6, <3>7, <3>9, <3>10, <3>11, <3>12, <3>13, <3>14 DEF Presence
  <2> QED BY <2>1, <2>2
<1> HIDE DEF Fine
<1> QED BY <1>1, <1>2, <1>3, <1>4, <1>5, <1>6, <1>7, <1>8, <1>9 DEF Thread

LEMMA FramePresence ==
    ASSUME Typed, Tokens, Presence,
           \/ Search \/ OnOnlineCancel \/ Leave \/ RetainForRematch
           \/ OnReconnectActiveGame \/ OnServerTargetChanged \/ Refresh
           \/ ProbeEnds \/ FetchEnds
    PROVE  Presence'
<1>1. seat' = seat
  BY DEF Search, OnServerAddrConnect, OnOnlineCancel, Leave, GoToMenu, RetainForRematch,
         OnReconnectActiveGame, OnServerTargetChanged, Refresh, ProbeEnds, FetchEnds, serverVars
<1>2. CASE Search
  <2>1. Open(LetGo("disconnect"), [Idle EXCEPT !.pc = "starting"])
    BY <1>2 DEF Search, OnServerAddrConnect
  <2>2. /\ [Idle EXCEPT !.pc = "starting"] \in Records
        /\ [Idle EXCEPT !.pc = "starting"].pc # "none"
        /\ [Idle EXCEPT !.pc = "starting"].wire # "up"
        /\ [Idle EXCEPT !.pc = "starting"].token = 0
    BY IdleType DEF Records, Threads, Idle
  <2>3. /\ LetGo("disconnect") \in [Sessions -> Records]
        /\ \A s \in Sessions : /\ SameSeat(LetGo("disconnect")[s], run[s])
                                /\ SameFlags(LetGo("disconnect")[s], run[s])
    BY LetGoType DEF Ways
  <2>4. /\ run'[used'] = [Idle EXCEPT !.pc = "starting"]
        /\ \A s \in Sessions : s # used' => run'[s] = LetGo("disconnect")[s]
    <3>1. \A s \in Sessions : LetGo("disconnect")[s].pc = run[s].pc
      BY <2>3 DEF SameSeat
    <3> QED BY <2>1, <2>2, <2>3, <3>1, Opened
  <2>5. ASSUME NEW s \in Sessions PROVE Steady(s)
    <3>1. CASE s = used'
      BY <2>2, <2>4, <3>1 DEF Steady
    <3>2. CASE s # used'
      <4>1. SameSeat(run'[s], run[s]) /\ SameFlags(run'[s], run[s])
        BY <2>3, <2>4, <3>2
      <4> QED BY <4>1 DEF Steady, SameSeat, Presence, Up
    <3> QED BY <3>1, <3>2
  <2> QED BY <1>1, <2>5, PresenceKept
<1>3. CASE OnOnlineCancel \/ Leave
  <2>1. PICK how \in Ways : run' = LetGo(how)
    BY <1>3 DEF OnOnlineCancel, Leave, GoToMenu, Ways
  <2>2. \A s \in Sessions : Steady(s)
    BY <2>1, LetGoType DEF Steady, SameSeat, Presence, Up
  <2> QED BY <1>1, <2>2, PresenceKept
<1>4. CASE ~(Search \/ OnOnlineCancel \/ Leave)
  <2>1. run' = run
    BY <1>4 DEF RetainForRematch, OnReconnectActiveGame, OnServerTargetChanged, Refresh,
                ProbeEnds, FetchEnds, sessionVars
  <2>2. \A s \in Sessions : Steady(s)
    BY <2>1 DEF Steady, SameFlags, Presence, Up
  <2> QED BY <1>1, <2>2, PresenceKept
<1> QED BY <1>2, <1>3, <1>4

LEMMA UpdatePresence == ASSUME Typed, Tokens, Presence, Update PROVE Presence'
<1>1. seat' = seat
  BY Updated DEF serverVars
<1>2. /\ LetGo(Handled.ends) \in [Sessions -> Records]
      /\ \A s \in Sessions : /\ SameSeat(LetGo(Handled.ends)[s], run[s])
                              /\ SameFlags(LetGo(Handled.ends)[s], run[s])
  BY HandledType, LetGoType DEF Outcomes, Ways
<1>3. CASE Adopts
  <2>1. Open(LetGo(Handled.ends), Adopted)
    BY <1>3, Updated
  <2>2. /\ used' \in Sessions /\ run'[used'] = Adopted
        /\ \A s \in Sessions : s # used' => run'[s] = LetGo(Handled.ends)[s]
    BY <1>2, <2>1, AdoptedType, Opened DEF SameSeat, Sessions
  <2>3. \A s \in Sessions \ {used'} :
          /\ run'[s].room = run[s].room /\ run'[s].token = run[s].token
          /\ SameFlags(run'[s], run[s])
          /\ run'[s].wire = run[s].wire /\ run'[s].pc = run[s].pc
    BY <1>2, <2>2 DEF SameSeat
  <2>4. /\ run'[used'].active /\ ~run'[used'].post /\ run'[used'].wire # "up"
    BY <2>2, AdoptedType
  <2>5. \A s \in Sessions : Up(s)' => s # used' /\ Up(s) /\ run'[s].pc = "open"
    BY <2>3, <2>4 DEF Up, Presence
  <2>6. \A s \in Sessions : InRoom(s)' => s # used' /\ InRoom(s) /\ SameFlags(run'[s], run[s])
    BY <1>1, <2>3, <2>5 DEF InRoom
  <2>7. \A s \in Sessions : Holds(s)' =>
          s = used' \/ (Holds(s) /\ SameFlags(run'[s], run[s]))
    BY <1>1, <2>3 DEF Holds
  <2>8. \A s \in Sessions : InRoom(s)' /\ seat'.kind # "none" => Holds(s)'
    BY <1>1, <2>3, <2>6 DEF Presence, Holds
  <2>9. Present' => Present
    BY <2>6 DEF Present
  <2>10. seat'.kind = "playing" /\ ~seat'.told => ~Present'
    BY <1>1, <2>9 DEF Presence
  <2>11. seat'.kind = "playing" /\ seat'.told =>
           \A s \in Sessions : Holds(s)' => run'[s].active /\ ~run'[s].post
    BY <1>1, <2>4, <2>7 DEF Presence, SameFlags
  <2>12. seat'.kind = "finished" =>
           \A s \in Sessions : InRoom(s)' => run'[s].post /\ ~run'[s].active
    BY <1>1, <2>6 DEF Presence, SameFlags
  <2> QED BY <2>5, <2>8, <2>10, <2>11, <2>12 DEF Presence
<1>4. CASE ~Adopts
  <2>1. run' = LetGo(Handled.ends)
    BY <1>4, Updated
  <2>2. \A s \in Sessions : Steady(s)
    BY <1>2, <2>1 DEF Steady, SameSeat, Presence, Up
  <2> QED BY <1>1, <2>2, PresenceKept
<1> QED BY <1>3, <1>4

\* A reclaimed game has a token nobody goes by yet, and nobody is in its room.
LEMMA ReclaimPresence == ASSUME Typed, Tokens, Presence, ProbeReclaims PROVE Presence'
<1>1. /\ issued' = issued + 1 /\ issued \in Nat /\ run' = Unplugged(Displaced)
      /\ seat'.token = issued' /\ seat'.room = seat.room /\ seat'.kind = seat.kind
  BY DEF ProbeReclaims, Typed, Seats
<1>2. \A s \in Sessions : Up(s)' => Up(s) /\ run'[s].pc = "open" /\ ~InRoom(s)'
  BY <1>1, UnpluggedType DEF Up, InRoom, Displaced, Presence
<1>3. \A s \in Sessions : ~InRoom(s)'
  BY <1>2 DEF InRoom
<1>4. \A s \in Sessions : ~Holds(s)'
  BY <1>1, UnpluggedType, TokenTypes DEF Holds, Tokens
<1> QED BY <1>2, <1>3, <1>4 DEF Presence, Present

LEMMA PresenceInit == Init => Presence
<1> SUFFICES ASSUME Init PROVE Presence
  OBVIOUS
<1>1. \A s \in Sessions : run[s].wire = "none" /\ run[s].token = 0
  BY DEF Init, Idle
<1>2. seat.token = 1 /\ seat.kind = "playing" /\ seat.told
  BY DEF Init
<1> QED BY <1>1, <1>2 DEF Presence, Up, InRoom, Holds

LEMMA PresenceStep == ASSUME Typed, Tokens, Presence, [Next]_vars PROVE Presence'
<1>1. CASE \E s \in Sessions : Thread(s)
  BY <1>1, ThreadPresence
<1>2. CASE UNCHANGED vars
  BY <1>2 DEF Presence, Present, InRoom, Holds, Up,
              vars, serverVars, sessionVars, frameVars, probeVars
<1> QED BY <1>1, <1>2, ServerPresence, FramePresence, UpdatePresence, ReclaimPresence DEF Next

\* While its socket is open, a session knows whether there is a game to come back to,
\* however many starts and results fell between two of its sockets.
THEOREM ConnectedKnows == Spec => []FlagsFollowServer
<1>1. Init => Typed /\ Tokens /\ Presence
  BY TypedInit, TokensInit, PresenceInit
<1>2. Typed /\ Tokens /\ Presence /\ [Next]_vars => (Typed /\ Tokens /\ Presence)'
  BY TypedStep, TokensStep, PresenceStep
<1>3. Presence => FlagsFollowServer
  BY DEF Presence, FlagsFollowServer, Present, InRoom, Holds
<1> QED BY <1>1, <1>2, <1>3, PTL DEF Spec

\* A seat has one session, however many of those the player left are still ending.
THEOREM SeatsHaveOneSession == Spec => []SeatHasOneSession
<1>1. Init => Typed /\ Tokens
  BY TypedInit, TokensInit
<1>2. Typed /\ Tokens /\ [Next]_vars => (Typed /\ Tokens)'
  BY TypedStep, TokensStep
<1>3. Typed /\ Tokens => SeatHasOneSession
  BY OneHolder DEF SeatHasOneSession
<1> QED BY <1>1, <1>2, <1>3, PTL DEF Spec
-----------------------------------------------------------------------------
(* An answer finds the client as it was when it was asked for *)

\* What the server and the threads do leaves the frame loop alone.
LEMMA AnswersKept ==
    ASSUME Typed, Answers, UNCHANGED <<used, frameVars, pending, fetch, answer>>,
           probe'.alive = probe.alive, probe'.stale = probe.stale,
           frame = "update" => \A s \in Sessions : Calm(run[s]) => Calm(run'[s])
    PROVE  Answers'
<1>1. UNCHANGED <<used, client, screen, button, frame, pending, fetch, answer>>
  BY DEF frameVars
<1>2. Awaited' <=> Awaited
  BY <1>1 DEF Awaited
<1>3. NoProbeAwaited' <=> NoProbeAwaited
  BY DEF NoProbeAwaited
<1>4. client # Nothing => client \in Sessions
  BY DEF Typed, Nothing, Sessions
<1>5. answer.given /\ used # answer.at => Calm(run'[client])
  BY <1>4 DEF Answers, Calm
<1> QED BY <1>1, <1>2, <1>3, <1>5 DEF Answers, Calm

LEMMA ServerAnswers ==
    ASSUME Typed, Answers,
           \/ Pair \/ GameStarts \/ GameEnds \/ RematchStarts \/ RoomGoes
           \/ ServerRestarts \/ SocketDrops
    PROVE  Answers'
<1>1. UNCHANGED <<used, frameVars, pending, probe, fetch, answer>>
  BY DEF Pair, GameStarts, GameEnds, RematchStarts, RoomGoes, ServerRestarts, SocketDrops,
         sessionVars, probeVars
<1>2. \/ run' = run
      \/ \E e \in Events : run' = Tell(e) /\ (e \notin Endings \/ frame # "update")
      \/ \E S : run' = Unplugged(S)
  BY DEF Pair, GameStarts, GameEnds, RematchStarts, RoomGoes, ServerRestarts, SocketDrops,
         sessionVars, Events, Endings
<1>3. frame = "update" => \A s \in Sessions : Calm(run[s]) => Calm(run'[s])
  <2>1. CASE run' = run
    BY <2>1
  <2>2. CASE \E e \in Events : run' = Tell(e) /\ (e \notin Endings \/ frame # "update")
    BY <2>2, Told
  <2>3. CASE \E S : run' = Unplugged(S)
    BY <2>3, UnpluggedType DEF Calm
  <2> QED BY <1>2, <2>1, <2>2, <2>3
<1> QED BY <1>1, <1>3, AnswersKept

\* A thread ends its session itself; what ends it for the frame comes from the server.
LEMMA ThreadCalm ==
    ASSUME Typed, NEW s \in Sessions, Thread(s), NEW u \in Sessions, Calm(run[u])
    PROVE  Calm(run'[u])
<1> DEFINE Fine(r) == run' = [run EXCEPT ![s] = r] /\ (Calm(run[s]) => Calm(r))
<1>0. /\ run[s] \in Records /\ run \in [Sessions -> Records]
      /\ \A r : Fine(r) => Calm(run'[u])
  BY DEF Typed
<1>1. CASE Begin(s)
  <2>1. PICK q : run' = [run EXCEPT ![s] = [run[s] EXCEPT !.pc = q]]
    BY <1>1 DEF Begin, Step
  <2>2. Fine([run[s] EXCEPT !.pc = q])
    BY <1>0, <2>1 DEF Records, Calm
  <2> QED BY <1>0, <2>2
<1>2. CASE Refused(s) \/ ResumeFatal(s) \/ GiveUp(s) \/ DialFails(s)
  <2>1. PICK e \in Events \ Endings : run' = [run EXCEPT ![s] = EndsWith(s, e)]
    BY <1>2 DEF Refused, ResumeFatal, GiveUp, DialFails, Step, Events, Endings
  <2>2. Fine(EndsWith(s, e))
    BY <2>1, EndsType
  <2> QED BY <1>0, <2>2
<1>3. CASE Answered(s)
  <2>1. Fine([run[s] EXCEPT !.pc = "dialing", !.queued = TRUE])
    BY <1>0, <1>3 DEF Answered, Step, Records, Calm
  <2> QED BY <1>0, <2>1
<1>4. CASE AskFails(s)
  <2>1. CASE Step(s, EndsWith(s, "failed"))
    <3>1. Fine(EndsWith(s, "failed"))
      BY <2>1, EndsType DEF Step, Events, Endings
    <3> QED BY <1>0, <3>1
  <2>2. CASE Step(s, [run[s] EXCEPT !.pc = "asking"])
    <3>1. Fine([run[s] EXCEPT !.pc = "asking"])
      BY <1>0, <2>2 DEF Step, Records, Calm
    <3> QED BY <1>0, <3>1
  <2> QED BY <1>4, <2>1, <2>2 DEF AskFails
<1>5. CASE Notice(s)
  <2>1. CASE Step(s, Ended(s))
    <3>1. Fine(Ended(s))
      BY <2>1, EndedType DEF Step
    <3> QED BY <1>0, <3>1
  <2>2. CASE Step(s, [run[s] EXCEPT !.pc = "resuming", !.wire = "none"])
    <3>1. Fine([run[s] EXCEPT !.pc = "resuming", !.wire = "none"])
      BY <1>0, <2>2 DEF Step, Records, Calm
    <3> QED BY <1>0, <3>1
  <2> QED BY <1>5, <2>1, <2>2 DEF Notice
<1>6. CASE Resumed(s)
  <2> DEFINE r == [run[s] EXCEPT !.pc = "dialing"]
  <2>1. r \in Records /\ (Calm(run[s]) => Calm(r))
    BY <1>0 DEF Records, Threads, Calm
  <2>2. run' = [run EXCEPT ![s] = r] \/ run' = [run EXCEPT ![s] = Post(s, r, "running")]
    BY <1>6 DEF Resumed, Step
  <2> HIDE DEF r
  <2>3. Calm(run[s]) => Calm(Post(s, r, "running"))
    BY <2>1, Posted DEF Events, Endings
  <2>4. Fine(r) \/ Fine(Post(s, r, "running"))
    BY <2>1, <2>2, <2>3
  <2> QED BY <1>0, <2>4
<1>7. CASE CancelRuns(s)
  <2>1. Fine([run[s] EXCEPT !.cancelling = FALSE, !.queued = FALSE, !.stop = TRUE])
    BY <1>0, <1>7 DEF CancelRuns, Step, Records, Calm
  <2> QED BY <1>0, <2>1
<1>8. CASE Ask(s)
  <2> DEFINE q == IF seat.kind = "playing" THEN Tell("result") ELSE run
  <2>1. q \in [Sessions -> Records] /\ \A w \in Sessions : Calm(run[w]) => Calm(q[w])
    BY <1>0, Told DEF Events, Endings
  <2>2. run' = [q EXCEPT ![s] = [q[s] EXCEPT !.pc = "asked", !.room = issued', !.token = issued']]
    BY <1>8, <2>1 DEF Ask
  <2>3. q[s] \in Records
    BY <2>1
  <2> HIDE DEF q
  <2>4. [q[s] EXCEPT !.pc = "asked", !.room = issued', !.token = issued'].inbound = q[s].inbound
    BY <2>3 DEF Records
  <2>5. run'[u].inbound = q[u].inbound
    BY <2>1, <2>2, <2>4
  <2> QED BY <2>1, <2>5 DEF Calm
<1>9. CASE Dial(s)
  <2>1. CASE ~Holds(s)
    <3>1. Fine([run[s] EXCEPT !.pc = "open", !.wire = "down"])
      BY <1>0, <1>9, <2>1 DEF Dial, Records, Calm
    <3> QED BY <1>0, <3>1
  <2>2. CASE Holds(s)
    <3> DEFINE r == [run[s] EXCEPT !.pc = "open", !.wire = "up"]
               q == IF Greeting = "none" THEN r ELSE Hear(s, r, Greeting)
    <3>1. r \in Records /\ (Calm(run[s]) => Calm(r))
      BY <1>0 DEF Records, Threads, Calm
    <3>2. Greeting \in {"none", "start", "result"}
      BY DEF Greeting
    <3>3. Calm(run[s]) => Calm(q)
      <4> HIDE DEF r
      <4> QED BY <3>1, <3>2, Heard DEF Events, Endings
    <3>4. run' = [Unplugged(Displaced) EXCEPT ![s] = q]
      BY <1>9, <2>2 DEF Dial
    <3> HIDE DEF q
    <3>5. CASE u = s
      BY <3>3, <3>4, <3>5, UnpluggedType
    <3>6. CASE u # s
      <4>1. run'[u] = Unplugged(Displaced)[u]
        BY <3>4, <3>6, UnpluggedType
      <4> QED BY <4>1, UnpluggedType DEF Calm
    <3> QED BY <3>5, <3>6
  <2> QED BY <2>1, <2>2
<1> HIDE DEF Fine
<1> QED BY <1>1, <1>2, <1>3, <1>4, <1>5, <1>6, <1>7, <1>8, <1>9 DEF Thread

LEMMA ThreadAnswers ==
    ASSUME Typed, Answers, NEW s \in Sessions, Thread(s)
    PROVE  Answers'
<1>1. UNCHANGED <<used, frameVars, pending, probe, fetch, answer>>
  BY DEF Thread, Begin, Ask, Refused, Answered, AskFails, Dial, DialFails, Notice,
         Resumed, ResumeFatal, GiveUp, CancelRuns, Step, probeVars
<1> QED BY <1>1, ThreadCalm, AnswersKept

LEMMA ReclaimAnswers == ASSUME Typed, Answers, ProbeReclaims PROVE Answers'
<1>1. /\ UNCHANGED <<used, frameVars, pending, fetch, answer>> /\ run' = Unplugged(Displaced)
      /\ probe'.alive = probe.alive /\ probe'.stale = probe.stale
  BY DEF ProbeReclaims, Typed
<1>2. \A s \in Sessions : Calm(run[s]) => Calm(run'[s])
  BY <1>1, UnpluggedType DEF Calm
<1> QED BY <1>1, <1>2, AnswersKept

\* A worker that is retired is not awaited any more.
LEMMA Retired ==
    /\ \A w \in Probes : ~Retire(w).alive \/ Retire(w).stale
    /\ \A w \in Fetches : ~Retire(w).alive \/ Retire(w).stale
BY DEF Retire, Probes, Fetches

LEMMA FrameAnswers ==
    ASSUME Typed, Answers,
           \/ Search \/ OnOnlineCancel \/ Leave \/ RetainForRematch
           \/ OnReconnectActiveGame \/ OnServerTargetChanged
    PROVE  Answers'
<1>0. probe \in Probes /\ fetch \in Fetches
  BY DEF Typed, Probes, Fetches
<1>1. frame = "input" /\ frame' = "update" /\ UNCHANGED answer
  BY DEF Search, OnOnlineCancel, Leave, GoToMenu, RetainForRematch,
         OnReconnectActiveGame, OnServerTargetChanged, Acts, probeVars
<1>2. answer.given => used = answer.at /\ ~button
  BY <1>1 DEF Answers
<1>3. CASE Search
  <2>1. /\ Open(LetGo("disconnect"), [Idle EXCEPT !.pc = "starting"])
        /\ fetch' = Retire(fetch) /\ button' = button
    BY <1>3 DEF Search, OnServerAddrConnect
  <2>2. /\ [Idle EXCEPT !.pc = "starting"] \in Records
        /\ [Idle EXCEPT !.pc = "starting"].pc # "none"
        /\ Calm([Idle EXCEPT !.pc = "starting"])
    BY IdleType DEF Records, Threads, Idle, Calm
  <2>3. /\ LetGo("disconnect") \in [Sessions -> Records]
        /\ \A s \in Sessions : LetGo("disconnect")[s].pc = run[s].pc
    BY LetGoType DEF Ways, SameSeat
  <2>4. /\ used' \in 1..MaxSessions /\ client' = used'
        /\ run'[used'] = [Idle EXCEPT !.pc = "starting"]
    BY <2>1, <2>2, <2>3, Opened
  <2>5. client' # Nothing /\ Calm(run'[client'])
    BY <2>2, <2>4 DEF Nothing
  <2>6. ~Awaited'
    BY <1>0, <2>1, Retired DEF Awaited
  <2> QED BY <1>1, <1>2, <2>1, <2>5, <2>6 DEF Answers, Calm
<1>4. CASE OnOnlineCancel \/ Leave \/ RetainForRematch
  <2>1. UNCHANGED <<used, button, pending, probe, fetch>>
    BY <1>4 DEF OnOnlineCancel, Leave, GoToMenu, RetainForRematch, sessionVars, probeVars
  <2>2. (Awaited' <=> Awaited) /\ (NoProbeAwaited' <=> NoProbeAwaited)
    BY <2>1 DEF Awaited, NoProbeAwaited
  <2> QED BY <1>1, <1>2, <2>1, <2>2 DEF Answers
<1>5. CASE OnReconnectActiveGame
  <2>1. /\ button /\ pending' = NoEntry /\ button' = FALSE /\ probe' = Retire(probe)
        /\ fetch' = [alive |-> TRUE, stale |-> FALSE, at |-> used, entry |-> pending]
        /\ used' = used
    BY <1>5 DEF OnReconnectActiveGame, sessionVars
  <2>2. fetch'.at = used' /\ ~answer.given
    BY <1>2, <2>1
  <2>3. NoProbeAwaited'
    BY <1>0, <2>1, Retired DEF NoProbeAwaited
  <2> QED BY <1>1, <2>1, <2>2, <2>3 DEF Answers
<1>6. CASE OnServerTargetChanged
  <2>1. fetch' = Retire(fetch) /\ used' = used /\ button' = FALSE
    BY <1>6 DEF OnServerTargetChanged, sessionVars
  <2>2. ~Awaited'
    BY <1>0, <2>1, Retired DEF Awaited
  <2> QED BY <1>1, <1>2, <2>1, <2>2 DEF Answers
<1> QED BY <1>3, <1>4, <1>5, <1>6

LEMMA UpdateAnswers == ASSUME Typed, Answers, Update PROVE Answers'
<1>1. /\ frame # "refresh" /\ ~answer'.given /\ UNCHANGED <<button, probe, fetch>>
  BY Updated DEF NoAnswer
<1>2. (Awaited' <=> Awaited) /\ (NoProbeAwaited' <=> NoProbeAwaited)
  BY <1>1 DEF Awaited, NoProbeAwaited
<1>3. Awaited => used' = used /\ pending' = pending
  BY Updated DEF Answers, Adopts
<1> QED BY <1>1, <1>2, <1>3 DEF Answers

LEMMA RefreshAnswers == ASSUME Typed, Answers, Refresh PROVE Answers'
<1>0. probe \in Probes /\ fetch \in Fetches
  BY DEF Typed, Probes, Fetches
<1>1. /\ frame = "refresh" /\ frame' = "input" /\ button' = (pending # NoEntry)
      /\ UNCHANGED <<used, pending, answer>>
  BY DEF Refresh, sessionVars
<1>2. answer.given => used = answer.at /\ ~button'
  BY <1>1 DEF Answers
<1>3. CASE UNCHANGED <<probe, fetch>>
  <2>1. (Awaited' <=> Awaited) /\ (NoProbeAwaited' <=> NoProbeAwaited)
    BY <1>3 DEF Awaited, NoProbeAwaited
  <2> QED BY <1>1, <1>2, <1>3, <2>1 DEF Answers
<1>4. CASE fetch' = Retire(fetch)
  <2>1. ~Awaited'
    BY <1>0, <1>4, Retired DEF Awaited
  <2> QED BY <1>1, <1>2, <2>1 DEF Answers
<1> QED BY <1>3, <1>4 DEF Refresh

LEMMA WorkerAnswers == ASSUME Typed, Answers, ProbeEnds \/ FetchEnds PROVE Answers'
<1>1. UNCHANGED <<run, used, client, screen, button, frame>>
  BY DEF ProbeEnds, FetchEnds, sessionVars, frameVars
<1>2. CASE ProbeEnds
  <2>1. /\ probe' = NoProbe /\ UNCHANGED <<fetch, answer>> /\ probe.alive
        /\ probe.stale => pending' = pending
    BY <1>2 DEF ProbeEnds
  <2>2. NoProbeAwaited' /\ (Awaited' <=> Awaited)
    BY <2>1 DEF NoProbeAwaited, NoProbe, Awaited
  <2>3. NoProbeAwaited => pending' = pending
    BY <2>1 DEF NoProbeAwaited
  <2> QED BY <1>1, <2>1, <2>2, <2>3 DEF Answers
<1>3. CASE FetchEnds
  <2>1. /\ fetch.alive /\ fetch' = NoFetch /\ UNCHANGED <<pending, probe>>
        /\ fetch.stale => answer' = answer
        /\ ~fetch.stale => answer'.at = fetch.at
    BY <1>3 DEF FetchEnds
  <2>2. ~Awaited' /\ (NoProbeAwaited' <=> NoProbeAwaited)
    BY <2>1 DEF Awaited, NoFetch, NoProbeAwaited
  <2>3. CASE fetch.stale
    BY <1>1, <2>1, <2>2, <2>3 DEF Answers
  <2>4. CASE ~fetch.stale
    BY <1>1, <2>1, <2>2, <2>4 DEF Answers, Awaited
  <2> QED BY <2>3, <2>4
<1> QED BY <1>2, <1>3

LEMMA AnswersInit == Init => Answers
BY DEF Init, Answers, Awaited, NoProbeAwaited, NoFetch, NoAnswer, NoProbe

LEMMA AnswersStep == ASSUME Typed, Answers, [Next]_vars PROVE Answers'
<1>1. CASE \E s \in Sessions : Thread(s)
  BY <1>1, ThreadAnswers
<1>2. CASE UNCHANGED vars
  BY <1>2 DEF Answers, Awaited, NoProbeAwaited,
              vars, serverVars, sessionVars, frameVars, probeVars
<1> QED BY <1>1, <1>2, ServerAnswers, FrameAnswers, UpdateAnswers, RefreshAnswers,
           ReclaimAnswers, WorkerAnswers DEF Next

\* A token is in one place, whoever holds the seat has heard what was told, and an answer
\* is looked at in the frame its player began something else, or before that.
THEOREM ClientInvariant == Spec => []IInv
<1>1. Init => IInv
  BY TypedInit, TokensInit, PresenceInit, AnswersInit DEF IInv
<1>2. IInv /\ [Next]_vars => IInv'
  BY TypedStep, TokensStep, PresenceStep, AnswersStep DEF IInv
<1> QED BY <1>1, <1>2, PTL DEF Spec

\* Only what the player begins and what an update takes up makes a session.
LEMMA OpenedBy == ASSUME [Next]_vars, used' # used PROVE Search \/ Update
BY DEF Next, Thread, Pair, GameStarts, GameEnds, RematchStarts, RoomGoes, ServerRestarts,
       SocketDrops, Begin, Ask, Refused, Answered, AskFails, Dial, DialFails, Notice,
       Resumed, ResumeFatal, GiveUp, CancelRuns, Step, OnOnlineCancel, Leave, GoToMenu,
       RetainForRematch, OnReconnectActiveGame, OnServerTargetChanged, Refresh,
       ProbeReclaims, ProbeEnds, FetchEnds, sessionVars, vars

LEMMA TakesOverStep ==
    ASSUME Typed, Answers, [Next]_vars,
           answer.given, answer.ok, answer'.given = FALSE, used' # used
    PROVE  used = answer.at
<1> SUFFICES ASSUME used # answer.at PROVE FALSE
  OBVIOUS
<1>1. Search \/ Update
  BY OpenedBy
<1>2. ~Search
  BY DEF Search
<1>3. Adopts
  BY <1>1, <1>2, Updated
<1>4. client # Nothing /\ run[client].inbound \in Seq(Events \ Endings)
  BY DEF Answers
<1>5. Handled.ends = "no"
  BY <1>4, HandledUnended
<1> QED BY <1>3, <1>4, <1>5 DEF Adopts

\* The answer of a reconnect takes the screen only if the player has begun nothing since
\* the press, a search that was cancelled again included.
THEOREM AnswersAreFresh == Spec => TakesOverNothing
<1>1. Init => Typed /\ Answers
  BY TypedInit, AnswersInit
<1>2. Typed /\ Answers /\ [Next]_vars => (Typed /\ Answers)'
  BY TypedStep, AnswersStep
<1>3. Typed /\ Answers /\ [Next]_vars =>
        [answer.given /\ answer.ok /\ answer'.given = FALSE /\ used' # used
           => used = answer.at]_vars
  BY TakesOverStep
<1> QED BY <1>1, <1>2, <1>3, PTL DEF Spec, TakesOverNothing
=============================================================================
