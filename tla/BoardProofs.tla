---------------------------- MODULE BoardProofs ----------------------------
(***************************************************************************)
(* What holds of Board for any starting positions and any number of plies. *)
(*                                                                         *)
(* The remembered verdict is never that of another position.  It is filed  *)
(* under the number of plies, which a takeback lets come round again; so   *)
(* the invariant also says that it is never filed under more plies than    *)
(* are on the board.                                                       *)
(*                                                                         *)
(* Any ply of any board is taken back exactly, in whatever way it took.    *)
(*                                                                         *)
(* The history is a line of legal plies from the position the game was     *)
(* loaded with to the one on the board (Played).  Along such a line rights *)
(* and target fit the pieces and no player is left in check (AfterSound),  *)
(* a takeback goes one step back on it (TakenBackGame), and what it leads  *)
(* to is what a fold over the history computes (ReplayedInTurn).           *)
(*                                                                         *)
(* Every name finds its move in every position.                            *)
(***************************************************************************)
EXTENDS Board, SequenceTheorems, WellFoundedInduction, TLAPS

(* The remembered verdict *)

IsSequence(s) == \E S : s \in Seq(S)

LEMMA Lengths == ASSUME NEW s, IsSequence(s) PROVE Len(s) \in Nat
BY LenProperties DEF IsSequence

LEMMA Appending ==
    ASSUME NEW s, IsSequence(s), NEW e
    PROVE  /\ IsSequence(Append(s, e))
           /\ Len(Append(s, e)) = Len(s) + 1
<1>1. PICK S : s \in Seq(S)
  BY DEF IsSequence
<1>2. s \in Seq(S \cup {e})
  BY <1>1, SeqMonotonic
<1>3. Append(s, e) \in Seq(S \cup {e}) /\ Len(Append(s, e)) = Len(s) + 1
  BY <1>2, AppendProperties
<1> QED BY <1>3 DEF IsSequence

LEMMA Fronting ==
    ASSUME NEW s, IsSequence(s), s # <<>>
    PROVE  /\ IsSequence(Front(s))
           /\ Len(Front(s)) = Len(s) - 1 /\ Len(s) \in Nat
<1>1. PICK S : s \in Seq(S)
  BY DEF IsSequence
<1>2. Len(s) \in Nat /\ Len(s) >= 1
  BY <1>1, EmptySeq
<1>3. Len(s) - 1 \in Int /\ 1 \in Int /\ \A i \in 1..(Len(s) - 1) : s[i] \in S
  BY <1>1, <1>2, ElementOfSeq
<1>4. SubSeq(s, 1, Len(s) - 1) \in Seq(S)
  BY <1>3, SubSeqProperties
<1>5. Len(SubSeq(s, 1, Len(s) - 1)) = IF 1 <= Len(s) - 1 THEN Len(s) - 1 - 1 + 1 ELSE 0
  BY <1>3, SubSeqProperties
<1>6. Front(s) \in Seq(S) /\ Len(Front(s)) = Len(s) - 1
  <2>1. \A n \in Nat : n >= 1 => (IF 1 <= n - 1 THEN n - 1 - 1 + 1 ELSE 0) = n - 1
    OBVIOUS
  <2>2. (IF 1 <= Len(s) - 1 THEN Len(s) - 1 - 1 + 1 ELSE 0) = Len(s) - 1
    BY <1>2, <2>1
  <2>3. Front(s) = SubSeq(s, 1, Len(s) - 1)
    BY DEF Front
  <2> QED BY <1>4, <1>5, <2>2, <2>3, Zenon
<1> QED BY <1>2, <1>6 DEF IsSequence

IInv ==
    /\ IsSequence(history)
    /\ memo.plies <= Len(history) /\ memo.plies \in Int
    /\ MemoIsFresh

\* A finished ply files the verdict of its own position under its own number.
LEMMA Finalizing ==
    ASSUME NEW board, NEW earlier, NEW entry, IsSequence(earlier),
           Finalize(board, earlier, entry)
    PROVE  IInv'
<1>1. history' = Append(earlier, [entry EXCEPT !.key = Key(pos')])
  BY DEF Finalize
<1>2. IsSequence(history') /\ Len(history') \in Nat
  <2> DEFINE e == [entry EXCEPT !.key = Key(pos')]
  <2> HIDE DEF e
  <2>1. IsSequence(Append(earlier, e))
    BY Appending
  <2> QED BY <1>1, <2>1, Lengths DEF e
<1>3. memo' = [plies |-> Len(history'), stuck |-> NoLegalMoves(pos')]
  BY DEF Finalize
<1> QED BY <1>2, <1>3 DEF IInv, MemoIsFresh

\* The verdict the clock is charged by is that of the position on the board.
THEOREM VerdictIsFresh == Spec => []MemoIsFresh
<1>1. Init => IInv
  <2> SUFFICES ASSUME Init PROVE IInv
    OBVIOUS
  <2>1. history \in Seq({}) /\ Len(history) = 0
    BY EmptySeq DEF Init
  <2>2. memo.plies = -1
    BY DEF Init, Forgotten
  <2> QED BY <2>1, <2>2 DEF IInv, IsSequence, MemoIsFresh
<1>2. IInv /\ [Next]_vars => IInv'
  <2> SUFFICES ASSUME IInv, [Next]_vars PROVE IInv'
    OBVIOUS
  <2>1. CASE TryMove
    <3>1. PICK f, t : LET entry == Entry(pos, f, t)
         IN  IF entry.kind = "promotion"
             THEN /\ pos' = [pos EXCEPT !.board = Applied(pos, f, t)]
                  /\ history' = Append(history, entry)
                  /\ UNCHANGED <<counts, memo>>
             ELSE Finalize(Applied(pos, f, t), history, entry)
      BY <2>1 DEF TryMove
    <3> DEFINE entry == Entry(pos, f, t)
    <3>2. CASE entry.kind = "promotion"
      <4> HIDE DEF entry
      <4>1. IsSequence(history') /\ Len(history') = Len(history) + 1 /\ memo' = memo
        BY <3>1, <3>2, Appending DEF IInv, entry
      <4>2. Len(history) \in Nat
        BY DEF IInv, IsSequence
      <4> QED BY <4>1, <4>2 DEF IInv, MemoIsFresh
    <3>3. CASE entry.kind # "promotion"
      BY <3>1, <3>3, Finalizing DEF IInv
    <3> QED BY <3>2, <3>3
  <2>2. CASE \E type \in {"queen", "rook", "bishop", "knight"} : Promote(type)
    <3>1. PICK board, entry : Finalize(board, Front(history), entry)
      BY <2>2 DEF Promote
    <3>2. IsSequence(Front(history))
      BY <2>2, Fronting DEF IInv, Promote, Pending
    <3> QED BY <3>1, <3>2, Finalizing
  <2>3. CASE Undo
    <3>1. IsSequence(history') /\ Len(history') \in Nat
      <4>1. history # <<>> /\ history' = Front(history)
        BY <2>3 DEF Undo
      <4>2. IsSequence(Front(history)) /\ Len(history) >= 1
        BY <4>1, Fronting, EmptySeq DEF IInv, IsSequence
      <4> QED BY <4>1, <4>2 DEF IsSequence
    <3>2. memo'.plies = -1
      BY <2>3 DEF Undo, Forgotten
    <3> QED BY <3>1, <3>2 DEF IInv, MemoIsFresh
  <2>4. CASE Tick
    <3>1. /\ memo' = [plies |-> Len(history), stuck |-> NoLegalMoves(pos)]
          /\ history' = history /\ pos' = pos /\ Len(history) \in Nat
      BY <2>4 DEF Tick, IInv, IsSequence
    <3> QED BY <3>1 DEF IInv, MemoIsFresh
  <2>5. CASE UNCHANGED vars
    BY <2>5 DEF vars, IInv, MemoIsFresh
  <2> QED BY <2>1, <2>2, <2>3, <2>4, <2>5 DEF Next
<1>3. IInv => MemoIsFresh
  BY DEF IInv
<1> QED BY <1>1, <1>2, <1>3, PTL DEF Spec
-----------------------------------------------------------------------------
(* Taking back a ply *)

IsFunction(b) == b = [s \in DOMAIN b |-> b[s]]

\* Where the pieces of a ply that steps, takes, takes in passing and castles are put back.
LEMMA Stepped ==
    ASSUME NEW b, IsFunction(b), NEW f \in DOMAIN b, NEW t, t \notin DOMAIN b
    PROVE  Put(Without(Carry(b, f, t), {t}), f, b[f]) = b
BY DEF IsFunction, Put, Without, Carry

LEMMA Took ==
    ASSUME NEW b, IsFunction(b), NEW f \in DOMAIN b, NEW t \in DOMAIN b, f # t
    PROVE  Put(Put(Without(Carry(b, f, t), {t}), f, b[f]), t, b[t]) = b
BY DEF IsFunction, Put, Without, Carry

LEMMA TookInPassing ==
    ASSUME NEW b, IsFunction(b), NEW f \in DOMAIN b, NEW q \in DOMAIN b, f # q,
           NEW t, t \notin DOMAIN b
    PROVE  Put(Put(Without(Carry(Without(b, {q}), f, t), {t}), f, b[f]), q, b[q]) = b
BY DEF IsFunction, Put, Without, Carry

LEMMA Castled ==
    ASSUME NEW b, IsFunction(b), NEW f \in DOMAIN b, NEW r \in DOMAIN b, f # r,
           NEW t, NEW u, t \notin DOMAIN b, u \notin DOMAIN b, t # u
    PROVE  Carry(Put(Without(Carry(Carry(b, f, t), r, u), {t}), f, b[f]), u, r) = b
<1> DEFINE D == DOMAIN b
           moved == Carry(Carry(b, f, t), r, u)
           back == Put(Without(moved, {t}), f, b[f])
<1>1. moved = [s \in (D \ {f, r}) \cup {t, u} |->
                 IF s = u THEN b[r] ELSE IF s = t THEN b[f] ELSE b[s]]
  BY DEF Carry, Put, Without
<1>2. back = [s \in (D \ {r}) \cup {u} |-> IF s = u THEN b[r] ELSE b[s]]
  <2> HIDE DEF moved
  <2> QED BY <1>1 DEF Put, Without
<1>3. Carry(back, u, r) = [s \in D |-> b[s]]
  <2> HIDE DEF back
  <2> QED BY <1>2 DEF Carry, Put, Without
<1> QED BY <1>3 DEF IsFunction

LEMMA PositionIs ==
    ASSUME NEW p, IsPosition(p)
    PROVE  /\ IsFunction(p.board) /\ DOMAIN p.board \subseteq Squares
           /\ \A s \in DOMAIN p.board : p.board[s] \in Pieces /\ p.board[s] # NoPiece
           /\ p.turn \in {White, Black} /\ p.half \in Nat
           /\ p.rights \subseteq {"WK", "WQ", "BK", "BQ"}
           /\ Fits(p)
<1>1. /\ p.board \in [DOMAIN p.board -> Pieces] /\ DOMAIN p.board \subseteq Squares
      /\ Fits(p)
  BY DEF IsPosition
<1>2. \A q \in Pieces : q # NoPiece
  BY DEF Pieces, Types, NoPiece
<1>3. IsFunction(p.board)
  BY <1>1 DEF IsFunction
<1>4. DOMAIN Corner = {"WK", "WQ", "BK", "BQ"}
  BY DEF Corner
<1>5. p.turn \in {White, Black} /\ p.half \in Nat /\ p.rights \in SUBSET DOMAIN Corner
  BY DEF IsPosition
<1> QED BY <1>1, <1>2, <1>3, <1>4, <1>5

\* A legal move goes from a man of the mover's to a square without one.
LEMMA LegalLands ==
    ASSUME NEW p, IsPosition(p), NEW f \in Men(p, p.turn), NEW t \in Legal(p, f)
    PROVE  f \in DOMAIN p.board /\ p.board[f].color = p.turn /\ t # f
<1>1. f \in DOMAIN p.board /\ p.board[f].color = p.turn
  BY DEF Men
<1>2. t \in PseudoLegal(p, f)
  BY DEF Legal
<1>3. opponent_of(p.turn) # p.turn
  BY DEF opponent_of, White, Black
<1>4. ASSUME NEW D, t \in Stepping(p.board, f, D) PROVE t # f
  BY <1>1, <1>4 DEF Stepping, Holds
<1>5. ASSUME NEW D, t \in Sliding(p.board, f, D) PROVE t # f
  BY <1>1, <1>5 DEF Sliding, Holds
<1>6. ASSUME t \in PawnMoves(p, f) PROVE t # f
  BY <1>1, <1>3, <1>6 DEF PawnMoves, Holds, Free
<1>7. ASSUME t \in CastlingMoves(p, f) PROVE t # f
  BY <1>7 DEF CastlingMoves
<1>8. ASSUME t \in Reach(p.board, f) PROVE t # f
  BY <1>4, <1>5, <1>8 DEF Reach
<1> QED BY <1>1, <1>2, <1>6, <1>7, <1>8 DEF PseudoLegal

\* A capture in passing finds the pawn it takes beside it, and nothing where it lands.
LEMMA PassingTakes ==
    ASSUME NEW p, IsPosition(p), NEW f \in Men(p, p.turn), NEW t \in Legal(p, f),
           IsEnPassant(p, f, t)
    PROVE  /\ t \notin DOMAIN p.board
           /\ Passed(f, t) \in DOMAIN p.board /\ Passed(f, t) # f
           /\ Man(p.board, Passed(f, t), "pawn", opponent_of(p.turn))
<1>1. f \in DOMAIN p.board /\ p.board[f].color = p.turn /\ p.board[f].type = "pawn"
  BY DEF Men, IsEnPassant
<1>2. t \in PawnMoves(p, f) /\ t = p.ep /\ t[2] # f[2]
  BY <1>1 DEF Legal, PseudoLegal, IsEnPassant
<1> DEFINE color == p.turn
           step(c) == Toward(f, <<pawn_forward(color), c>>, 1)
<1>3. PICK c \in {-1, 0, 1} : t = step(c) \/ t = Toward(f, <<pawn_forward(color), 0>>, 2)
  BY <1>1, <1>2 DEF PawnMoves
<1>4. f \in (0..7) \X (0..7)
  BY <1>1, PositionIs DEF Squares
<1>5. t = <<f[1] + pawn_forward(color), f[2] + c>>
  BY <1>2, <1>3, <1>4 DEF Toward, pawn_forward
<1>6. p.ep # None
  BY <1>2, <1>5 DEF None
<1>7. /\ Free(p.board, t)
      /\ Man(p.board, Toward(t, <<pawn_forward(opponent_of(color)), 0>>, 1), "pawn",
             opponent_of(color))
  BY <1>2, <1>6, PositionIs DEF Fits
<1>8. Toward(t, <<pawn_forward(opponent_of(color)), 0>>, 1) = <<f[1], t[2]>>
  BY <1>4, <1>5, PositionIs DEF Toward, pawn_forward, opponent_of, White, Black
<1>9. Passed(f, t) # f
  BY <1>2, <1>4 DEF Passed
<1> QED BY <1>7, <1>8, <1>9 DEF Free, Passed, Man

\* A castle finds its rook in the corner, and nothing where the king and the rook land.
LEMMA CastleFinds ==
    ASSUME NEW p, IsPosition(p), NEW f \in Men(p, p.turn), NEW t \in Legal(p, f),
           IsCastling(p, f, t)
    PROVE  /\ t \notin DOMAIN p.board /\ RookTo(f, t) \notin DOMAIN p.board
           /\ RookFrom(f, t) \in DOMAIN p.board
           /\ RookFrom(f, t) # f /\ RookTo(f, t) # t
           /\ Man(p.board, RookFrom(f, t), "rook", p.turn)
           /\ f = <<king_home_row(p.turn), 4>>
           /\ t \in {<<king_home_row(p.turn), 6>>, <<king_home_row(p.turn), 2>>}
           /\ Free(p.board, <<king_home_row(p.turn), IF t[2] = 6 THEN 5 ELSE 3>>)
           /\ t[2] = 2 => Free(p.board, <<king_home_row(p.turn), 1>>)
<1> DEFINE home == king_home_row(p.turn)
<1>1. f \in DOMAIN p.board /\ p.board[f].color = p.turn /\ p.board[f].type = "king"
  BY DEF Men, IsCastling
<1>2. f = <<home, 4>> /\ t[2] - f[2] \in {-2, 2}
  BY <1>1 DEF IsCastling
<1>3. home \in {0, 7}
  BY DEF king_home_row
<1>4. t \in CastlingMoves(p, f)
  <2>1. ASSUME t \in Stepping(p.board, f, Straight \cup Diagonal) PROVE FALSE
    <3>1. PICK d \in Straight \cup Diagonal : t = Toward(f, d, 1)
      BY <2>1 DEF Stepping
    <3>2. d[2] \in {-1, 0, 1}
      BY DEF Straight, Diagonal
    <3>3. t[2] = f[2] + d[2] /\ f[2] = 4
      BY <1>2, <3>1, <3>2 DEF Toward
    <3> QED BY <1>2, <3>2, <3>3
  <2> QED BY <1>1, <2>1 DEF Legal, PseudoLegal, Reach
<1>5. CASE t = <<home, 6>>
  <2>1. Free(p.board, <<home, 5>>) /\ Free(p.board, t) /\ t[2] = 6
    BY <1>1, <1>4, <1>5, <1>3 DEF CastlingMoves
  <2>2. PICK r \in p.rights \cap RightsOf(p.turn) : r \in {"WK", "BK"}
    BY <1>1, <1>4, <1>5, <1>3 DEF CastlingMoves
  <2>3. Corner[r] = <<home, 7>>
    BY <2>2, PositionIs DEF Corner, RightsOf, king_home_row, White, Black
  <2>4. Man(p.board, <<home, 7>>, "rook", p.turn)
    BY <2>2, <2>3, PositionIs DEF Fits
  <2> QED BY <1>2, <1>3, <1>5, <2>1, <2>4 DEF RookFrom, RookTo, Free, Man
<1>6. CASE t = <<home, 2>>
  <2>1. Free(p.board, <<home, 3>>) /\ Free(p.board, t) /\ Free(p.board, <<home, 1>>) /\ t[2] = 2
    BY <1>1, <1>4, <1>6, <1>3 DEF CastlingMoves
  <2>2. PICK r \in p.rights \cap RightsOf(p.turn) : r \in {"WQ", "BQ"}
    BY <1>1, <1>4, <1>6, <1>3 DEF CastlingMoves
  <2>3. Corner[r] = <<home, 0>>
    BY <2>2, PositionIs DEF Corner, RightsOf, king_home_row, White, Black
  <2>4. Man(p.board, <<home, 0>>, "rook", p.turn)
    BY <2>2, <2>3, PositionIs DEF Fits
  <2> QED BY <1>2, <1>3, <1>6, <2>1, <2>4 DEF RookFrom, RookTo, Free, Man
<1> QED BY <1>1, <1>4, <1>5, <1>6 DEF CastlingMoves

\* Backend.undo on any position and any legal ply of it: what stepped, took, took in passing,
\* castled or stood on the last rank, promoted or not yet, leaves the board it found.
THEOREM TakenBackExactly ==
    ASSUME NEW p, IsPosition(p), NEW f \in Men(p, p.turn), NEW t \in Legal(p, f)
    PROVE  /\ Restored(Applied(p, f, t), Entry(p, f, t)) = p.board
           /\ Kind(p, f, t) = "promotion" =>
                \A piece : Restored(Put(Applied(p, f, t), t, piece), Entry(p, f, t)) = p.board
<1> DEFINE b == p.board
           e == Entry(p, f, t)
           Back(board) == Put(Without(board, {t}), f, b[f])
<1>1. /\ e.from = f /\ e.to = t /\ e.piece = b[f]
      /\ e.captured = Captured(p, f, t) /\ e.kind = Kind(p, f, t)
  BY DEF Entry
<1>2. f \in DOMAIN b /\ t # f /\ IsFunction(b) /\ \A s \in DOMAIN b : b[s] # NoPiece
  BY LegalLands, PositionIs
<1> HIDE DEF e
<1>3. CASE Kind(p, f, t) = "castle"
  <2>1. IsCastling(p, f, t) /\ ~IsEnPassant(p, f, t)
    BY <1>3 DEF Kind, IsCastling, IsEnPassant
  <2>2. Applied(p, f, t) = Carry(Carry(b, f, t), RookFrom(f, t), RookTo(f, t))
    BY <2>1 DEF Applied, Landed
  <2>3. \A board : Restored(board, e) = Carry(Back(board), RookTo(f, t), RookFrom(f, t))
    BY <1>1, <1>3 DEF Restored
  <2>4. /\ t \notin DOMAIN b /\ RookTo(f, t) \notin DOMAIN b /\ RookTo(f, t) # t
        /\ RookFrom(f, t) \in DOMAIN b /\ RookFrom(f, t) # f
    BY <2>1, CastleFinds
  <2>5. Carry(Back(Applied(p, f, t)), RookTo(f, t), RookFrom(f, t)) = b
    BY <1>2, <2>2, <2>4, Castled
  <2> QED BY <1>3, <2>3, <2>5 DEF e
<1>4. CASE Kind(p, f, t) = "passant"
  <2>1. ~IsCastling(p, f, t) /\ IsEnPassant(p, f, t)
    BY <1>4 DEF Kind
  <2>2. Passed(f, t) \in DOMAIN b /\ Passed(f, t) # f /\ t \notin DOMAIN b
    BY <2>1, PassingTakes
  <2>3. Captured(p, f, t) = b[Passed(f, t)] /\ b[Passed(f, t)] # NoPiece
    BY <1>2, <2>1, <2>2 DEF Captured
  <2>4. Applied(p, f, t) = Carry(Without(b, {Passed(f, t)}), f, t)
    BY <2>1 DEF Applied, Landed
  <2>5. \A board : Restored(board, e) = Put(Back(board), Passed(f, t), b[Passed(f, t)])
    BY <1>1, <1>4, <2>3 DEF Restored
  <2> QED BY <1>2, <1>4, <2>2, <2>4, <2>5, TookInPassing DEF e
<1>5. CASE Kind(p, f, t) \notin {"castle", "passant"}
  <2>1. ~IsCastling(p, f, t) /\ ~IsEnPassant(p, f, t)
    BY <1>5 DEF Kind
  <2>2. Applied(p, f, t) = Carry(b, f, t)
    BY <2>1 DEF Applied, Landed
  <2>3. \A board, piece : Back(Put(Carry(b, f, t), t, piece)) = Back(Carry(b, f, t))
    BY <1>2 DEF Put, Without, Carry
  <2>4. CASE t \in DOMAIN b
    <3>1. Captured(p, f, t) = b[t] /\ b[t] # NoPiece
      BY <1>2, <2>1, <2>4 DEF Captured
    <3>2. \A board : Restored(board, e) = Put(Back(board), t, b[t])
      BY <1>1, <1>5, <3>1 DEF Restored
    <3>3. Put(Back(Carry(b, f, t)), t, b[t]) = b
      BY <1>2, <2>4, Took
    <3> QED BY <2>2, <2>3, <3>2, <3>3 DEF e
  <2>5. CASE t \notin DOMAIN b
    <3>1. Captured(p, f, t) = NoPiece
      BY <2>1, <2>5 DEF Captured
    <3>2. \A board : Restored(board, e) = Back(board)
      BY <1>1, <1>5, <3>1 DEF Restored
    <3>3. Back(Carry(b, f, t)) = b
      BY <1>2, <2>5, Stepped
    <3> QED BY <2>2, <2>3, <3>2, <3>3 DEF e
  <2> QED BY <2>4, <2>5
<1> QED BY <1>3, <1>4, <1>5
-----------------------------------------------------------------------------
(* The kings and their attackers *)

\* A position whose mover could not just have left a king in check.
Sound(p) == IsPosition(p) /\ ~InCheck(p.board, opponent_of(p.turn))

OneKing(board, color) ==
    \E k \in DOMAIN board : \A s \in DOMAIN board : Man(board, s, "king", color) <=> s = k

LEMMA TheKing ==
    ASSUME NEW b, NEW color, NEW k \in DOMAIN b,
           \A s \in DOMAIN b : Man(b, s, "king", color) <=> s = k
    PROVE  KingSquare(b, color) = k
BY DEF KingSquare

LEMMA KingsAre ==
    ASSUME NEW b, NEW color, OneKing(b, color)
    PROVE  /\ KingSquare(b, color) \in DOMAIN b
           /\ \A s \in DOMAIN b : Man(b, s, "king", color) <=> s = KingSquare(b, color)
<1>1. PICK k \in DOMAIN b : \A s \in DOMAIN b : Man(b, s, "king", color) <=> s = k
  BY DEF OneKing
<1> QED BY <1>1, TheKing

LEMMA PositionKings ==
    ASSUME NEW p, IsPosition(p)
    PROVE  OneKing(p.board, p.turn) /\ OneKing(p.board, opponent_of(p.turn))
<1>1. p.turn \in {White, Black} /\ opponent_of(p.turn) \in {White, Black}
  BY PositionIs DEF opponent_of
<1> QED BY <1>1 DEF IsPosition, OneKing

LEMMA Slides ==
    ASSUME NEW b, NEW a, NEW D, NEW sq
    PROVE  sq \in Sliding(b, a, D) <=>
             \E d \in D, n \in 1..7 :
                /\ sq = Toward(a, d, n) /\ sq \in Squares /\ ~Holds(b, sq, b[a].color)
                /\ \A k \in 1..(n - 1) : Free(b, Toward(a, d, k))
BY DEF Sliding

Rays == Straight \cup Diagonal

\* An attack is still there on a board with the same attackers whose lines are no less open.
LEMMA AttackKept ==
    ASSUME NEW x, NEW y, NEW by, NEW sq,
           \A a \in DOMAIN y : y[a].color = by => a \in DOMAIN x /\ x[a] = y[a],
           ~Holds(x, sq, by),
           \A a \in DOMAIN y, d \in Rays, n \in 1..7 : y[a].color = by /\ sq = Toward(a, d, n) =>
              \A k \in 1..(n - 1) : Free(y, Toward(a, d, k)) => Free(x, Toward(a, d, k)),
           Attacked(y, sq, by)
    PROVE  Attacked(x, sq, by)
<1>1. PICK a \in DOMAIN y :
        /\ y[a].color = by
        /\ IF y[a].type = "pawn"
           THEN \E c \in {-1, 1} : sq = Toward(a, <<pawn_forward(by), c>>, 1)
           ELSE sq \in Reach(y, a)
  BY DEF Attacked
<1>2. a \in DOMAIN x /\ x[a] = y[a]
  BY <1>1
<1>3. CASE y[a].type = "pawn"
  BY <1>1, <1>2, <1>3 DEF Attacked
<1>4. CASE y[a].type # "pawn"
  <2>1. \A D \in {Straight \cup Diagonal, Jumps} :
          sq \in Stepping(y, a, D) => sq \in Stepping(x, a, D)
    BY <1>1, <1>2 DEF Stepping
  <2>2. ASSUME NEW D \in {Straight, Diagonal, Straight \cup Diagonal}, sq \in Sliding(y, a, D)
        PROVE  sq \in Sliding(x, a, D)
    <3>1. PICK d \in D, n \in 1..7 :
            /\ sq = Toward(a, d, n) /\ sq \in Squares
            /\ \A k \in 1..(n - 1) : Free(y, Toward(a, d, k))
      BY <2>2, Slides
    <3>2. d \in Rays
      BY DEF Rays
    <3>3. \A k \in 1..(n - 1) : Free(x, Toward(a, d, k))
      BY <1>1, <3>1, <3>2
    <3>4. x[a].color = by
      BY <1>1, <1>2
    <3> QED BY <3>1, <3>3, <3>4, Slides
  <2>3. sq \in Reach(x, a)
    BY <1>1, <1>2, <1>4, <2>1, <2>2 DEF Reach
  <2> QED BY <1>1, <1>2, <1>4, <2>3 DEF Attacked
<1> QED BY <1>3, <1>4

\* Whatever a piece other than a castling king moves onto, it attacks.
LEMMA MovesOnto ==
    ASSUME NEW p, IsPosition(p), NEW f \in Men(p, p.turn), NEW t \in Legal(p, f)
    PROVE  /\ t \in Squares /\ ~Holds(p.board, t, p.turn)
           /\ t \in DOMAIN p.board => Attacked(p.board, t, p.turn)
<1> DEFINE b == p.board
<1>1. f \in DOMAIN b /\ b[f].color = p.turn /\ f \in Squares
  BY PositionIs DEF Men
<1>2. t \in PseudoLegal(p, f) /\ opponent_of(p.turn) # p.turn
  BY DEF Legal, opponent_of, White, Black
<1>3. CASE b[f].type = "pawn"
  <2>1. t \in PawnMoves(p, f)
    BY <1>2, <1>3 DEF PseudoLegal
  <2>2. \/ Free(b, t)
        \/ /\ Holds(b, t, opponent_of(p.turn))
           /\ \E c \in {-1, 1} : t = Toward(f, <<pawn_forward(p.turn), c>>, 1)
    BY <1>1, <2>1 DEF PawnMoves
  <2> QED BY <1>1, <1>2, <1>3, <2>2, PositionIs DEF Free, Holds, Attacked
<1>4. CASE b[f].type # "pawn" /\ t \in Reach(b, f)
  <2>1. \A D : t \in Stepping(b, f, D) => t \in Squares /\ ~Holds(b, t, p.turn)
    BY <1>1 DEF Stepping
  <2>2. \A D : t \in Sliding(b, f, D) => t \in Squares /\ ~Holds(b, t, p.turn)
    BY <1>1, Slides
  <2>3. t \in Squares /\ ~Holds(b, t, p.turn)
    BY <1>4, <2>1, <2>2 DEF Reach
  <2>4. Attacked(b, t, p.turn)
    BY <1>1, <1>4 DEF Attacked
  <2> QED BY <2>3, <2>4
<1>5. CASE b[f].type = "king" /\ t \in CastlingMoves(p, f)
  <2>1. Free(b, t)
    BY <1>5 DEF CastlingMoves
  <2> QED BY <2>1 DEF Free, Holds
<1> QED BY <1>2, <1>3, <1>4, <1>5 DEF PseudoLegal

\* No legal move takes a king: its owner would have left it in check.
LEMMA KingsStand ==
    ASSUME NEW p, Sound(p), NEW f \in Men(p, p.turn), NEW t \in Legal(p, f)
    PROVE  t \in DOMAIN p.board => p.board[t].type # "king"
<1> SUFFICES ASSUME t \in DOMAIN p.board, p.board[t].type = "king" PROVE FALSE
  OBVIOUS
<1>1. IsPosition(p) /\ opponent_of(opponent_of(p.turn)) = p.turn
  BY PositionIs DEF Sound, opponent_of, White, Black
<1>2. p.board[t].color = opponent_of(p.turn) /\ p.board[t] = [type |-> "king", color |-> opponent_of(p.turn)]
  <2>1. p.board[t].color # p.turn
    BY <1>1, MovesOnto DEF Holds
  <2>2. p.board[t] \in Pieces
    BY <1>1, PositionIs
  <2> QED BY <1>1, <2>1, <2>2, PositionIs DEF Pieces, opponent_of, White, Black
<1>3. t = KingSquare(p.board, opponent_of(p.turn))
  BY <1>1, <1>2, PositionKings, KingsAre DEF Man
<1> QED BY <1>1, <1>3, MovesOnto DEF Sound, InCheck
-----------------------------------------------------------------------------
(* What stands where after a ply *)

Touched(p, f, t) ==
    {f, t} \cup (IF IsEnPassant(p, f, t) THEN {Passed(f, t)} ELSE {})
           \cup (IF IsCastling(p, f, t) THEN {RookFrom(f, t), RookTo(f, t)} ELSE {})

Landing(p, f, t, board) ==
    /\ board \in [DOMAIN board -> Pieces] /\ DOMAIN board \subseteq Squares
    /\ f \notin DOMAIN board /\ t \in DOMAIN board
    /\ board[t].color = p.turn /\ (board[t].type = "king" <=> p.board[f].type = "king")
    /\ \A s \in Squares \ Touched(p, f, t) :
         /\ s \in DOMAIN board <=> s \in DOMAIN p.board
         /\ s \in DOMAIN board => board[s] = p.board[s]
    /\ IsEnPassant(p, f, t) => Passed(f, t) \notin DOMAIN board
    /\ IsCastling(p, f, t) =>
         /\ RookFrom(f, t) \notin DOMAIN board
         /\ RookTo(f, t) \in DOMAIN board /\ board[RookTo(f, t)] = p.board[RookFrom(f, t)]

LEMMA AppliedLands ==
    ASSUME NEW p, IsPosition(p), NEW f \in Men(p, p.turn), NEW t \in Legal(p, f)
    PROVE  Landing(p, f, t, Applied(p, f, t)) /\ Applied(p, f, t)[t] = p.board[f]
<1> DEFINE b == p.board
           after == Applied(p, f, t)
<1>1. /\ f \in DOMAIN b /\ b[f].color = p.turn /\ t # f /\ t \in Squares
      /\ b \in [DOMAIN b -> Pieces] /\ DOMAIN b \subseteq Squares
  BY LegalLands, MovesOnto DEF IsPosition
<1>2. ~(IsCastling(p, f, t) /\ IsEnPassant(p, f, t))
  BY DEF IsCastling, IsEnPassant
<1>3. CASE IsCastling(p, f, t)
  <2> DEFINE r == RookFrom(f, t)
             u == RookTo(f, t)
  <2>1. after = Carry(Carry(b, f, t), r, u) /\ ~IsEnPassant(p, f, t)
    BY <1>2, <1>3 DEF Applied, Landed
  <2>2. /\ t \notin DOMAIN b /\ u \notin DOMAIN b /\ u # t
        /\ r \in DOMAIN b /\ r # f
    BY <1>3, CastleFinds
  <2>3. u \in Squares
    BY <1>1 DEF RookTo, Squares
  <2> HIDE DEF r, u
  <2>4. after = [s \in (DOMAIN b \ {f, r}) \cup {t, u} |->
                    IF s = u THEN b[r] ELSE IF s = t THEN b[f] ELSE b[s]]
    BY <1>1, <2>1, <2>2 DEF Carry, Put, Without
  <2> HIDE DEF after
  <2>5. /\ DOMAIN after = (DOMAIN b \ {f, r}) \cup {t, u}
        /\ after[t] = b[f] /\ after[u] = b[r]
        /\ \A s \in DOMAIN b \ {f, r} : after[s] = b[s]
    BY <2>2, <2>4
  <2>6. after \in [DOMAIN after -> Pieces] /\ DOMAIN after \subseteq Squares
    BY <1>1, <2>2, <2>3, <2>4
  <2>7. Touched(p, f, t) = {f, t, r, u}
    BY <1>3, <2>1 DEF Touched, r, u
  <2> QED BY <1>1, <1>3, <2>1, <2>2, <2>5, <2>6, <2>7 DEF Landing, r, u, after
<1>4. CASE IsEnPassant(p, f, t)
  <2> DEFINE q == Passed(f, t)
  <2>1. after = Carry(Without(b, {q}), f, t) /\ ~IsCastling(p, f, t)
    BY <1>2, <1>4 DEF Applied, Landed
  <2>2. t \notin DOMAIN b /\ q \in DOMAIN b /\ q # f
    BY <1>4, PassingTakes
  <2> HIDE DEF q
  <2>3. after = [s \in (DOMAIN b \ {f, q}) \cup {t} |-> IF s = t THEN b[f] ELSE b[s]]
    BY <1>1, <2>1, <2>2 DEF Carry, Put, Without
  <2> HIDE DEF after
  <2>4. /\ DOMAIN after = (DOMAIN b \ {f, q}) \cup {t} /\ after[t] = b[f]
        /\ \A s \in DOMAIN b \ {f, q} : after[s] = b[s]
    BY <2>2, <2>3
  <2>5. after \in [DOMAIN after -> Pieces] /\ DOMAIN after \subseteq Squares
    BY <1>1, <2>2, <2>3
  <2>6. Touched(p, f, t) = {f, t, q}
    BY <1>4, <2>1 DEF Touched, q
  <2> QED BY <1>1, <1>4, <2>1, <2>2, <2>4, <2>5, <2>6 DEF Landing, q, after
<1>5. CASE ~IsCastling(p, f, t) /\ ~IsEnPassant(p, f, t)
  <2>1. after = Carry(b, f, t)
    BY <1>5 DEF Applied, Landed
  <2>2. after = [s \in (DOMAIN b \ {f}) \cup {t} |-> IF s = t THEN b[f] ELSE b[s]]
    BY <1>1, <2>1 DEF Carry, Put, Without
  <2> HIDE DEF after
  <2>3. /\ DOMAIN after = (DOMAIN b \ {f}) \cup {t} /\ after[t] = b[f]
        /\ \A s \in DOMAIN b \ {f, t} : after[s] = b[s]
    BY <2>2
  <2>4. after \in [DOMAIN after -> Pieces] /\ DOMAIN after \subseteq Squares
    BY <1>1, <2>2
  <2>5. Touched(p, f, t) = {f, t}
    BY <1>5 DEF Touched
  <2> QED BY <1>1, <1>5, <2>3, <2>4, <2>5 DEF Landing, after
<1> QED BY <1>3, <1>4, <1>5

\* A pawn on the last rank is exchanged where it stands.
LEMMA PromotedLands ==
    ASSUME NEW p, IsPosition(p), NEW f \in Men(p, p.turn), NEW t \in Legal(p, f),
           Kind(p, f, t) = "promotion",
           NEW piece \in Pieces, piece.color = p.turn, piece.type # "king"
    PROVE  LET board == Put(Applied(p, f, t), t, piece)
           IN  /\ Landing(p, f, t, board) /\ board[t] = piece
               /\ DOMAIN board = DOMAIN Applied(p, f, t)
               /\ \A s \in DOMAIN board \ {t} : board[s] = Applied(p, f, t)[s]
<1> DEFINE after == Applied(p, f, t)
           board == Put(after, t, piece)
<1>1. Landing(p, f, t, after) /\ t # f
  BY AppliedLands, LegalLands
<1>2. /\ ~IsCastling(p, f, t) /\ ~IsEnPassant(p, f, t) /\ p.board[f].type = "pawn"
      /\ Touched(p, f, t) = {f, t}
  BY DEF Kind, Touched
<1> HIDE DEF after
<1>3. board = [s \in DOMAIN after |-> IF s = t THEN piece ELSE after[s]]
  BY <1>1 DEF Put, Landing
<1>4. /\ DOMAIN board = DOMAIN after /\ board[t] = piece
      /\ \A s \in DOMAIN board \ {t} : board[s] = after[s]
  BY <1>1, <1>3 DEF Landing
<1>5. board \in [DOMAIN board -> Pieces]
  BY <1>1, <1>3 DEF Landing
<1> HIDE DEF board
<1>6. Landing(p, f, t, board)
  BY <1>1, <1>2, <1>4, <1>5 DEF Landing
<1> QED BY <1>4, <1>6 DEF after, board
\* The squares a ply touches, besides the two it goes between, never hold a king.
LEMMA KingsAfter ==
    ASSUME NEW p, Sound(p), NEW f \in Men(p, p.turn), NEW t \in Legal(p, f),
           NEW board, Landing(p, f, t, board), NEW color \in {White, Black}
    PROVE  /\ OneKing(board, color)
           /\ KingSquare(board, color) = IF color = p.turn /\ p.board[f].type = "king" THEN t
                                         ELSE KingSquare(p.board, color)
           /\ \/ color = p.turn /\ p.board[f].type = "king"
              \/ KingSquare(p.board, color) \notin Touched(p, f, t)
<1> DEFINE b == p.board
           k == KingSquare(b, color)
<1>1. /\ IsPosition(p) /\ p.turn \in {White, Black} /\ b \in [DOMAIN b -> Pieces]
      /\ DOMAIN b \subseteq Squares
  BY PositionIs DEF Sound, IsPosition
<1>2. OneKing(b, color)
  BY <1>1 DEF IsPosition, OneKing
<1>3. k \in DOMAIN b /\ \A s \in DOMAIN b : Man(b, s, "king", color) <=> s = k
  BY <1>2, KingsAre
<1>4. f \in DOMAIN b /\ b[f].color = p.turn /\ t # f /\ (t \in DOMAIN b => b[t].type # "king")
  BY <1>1, LegalLands, KingsStand
<1>5. IsEnPassant(p, f, t) => /\ Passed(f, t) \in DOMAIN b /\ Passed(f, t) \notin DOMAIN board
                              /\ b[Passed(f, t)].type # "king"
  <2> SUFFICES ASSUME IsEnPassant(p, f, t)
               PROVE  Passed(f, t) \in DOMAIN b /\ b[Passed(f, t)].type # "king"
    BY DEF Landing
  <2>1. Man(b, Passed(f, t), "pawn", opponent_of(p.turn))
    BY <1>1, PassingTakes
  <2> QED BY <2>1 DEF Man
<1>6. IsCastling(p, f, t) =>
        /\ RookFrom(f, t) \notin DOMAIN board
        /\ b[RookFrom(f, t)].type = "rook" /\ RookFrom(f, t) \in DOMAIN b
        /\ RookTo(f, t) \notin DOMAIN b /\ RookTo(f, t) \in DOMAIN board
        /\ board[RookTo(f, t)].type = "rook"
  <2> SUFFICES ASSUME IsCastling(p, f, t)
               PROVE  /\ b[RookFrom(f, t)].type = "rook" /\ RookFrom(f, t) \in DOMAIN b
                      /\ RookTo(f, t) \notin DOMAIN b
    BY DEF Landing
  <2>1. Man(b, RookFrom(f, t), "rook", p.turn) /\ RookTo(f, t) \notin DOMAIN b
    BY <1>1, CastleFinds
  <2> QED BY <2>1 DEF Man
<1>7. ASSUME NEW s \in DOMAIN board, board[s].type = "king"
      PROVE  s = t \/ (s \notin Touched(p, f, t) /\ s \in DOMAIN b /\ board[s] = b[s])
  <2>1. s \in Touched(p, f, t) => s = t
    BY <1>5, <1>6, <1>7 DEF Touched, Landing
  <2> QED BY <2>1 DEF Landing
<1>8. \A s \in DOMAIN board : Man(board, s, "king", color) <=>
                                board[s].type = "king" /\ board[s].color = color
  <2>1. board \in [DOMAIN board -> Pieces]
    BY DEF Landing
  <2> QED BY <2>1 DEF Man, Pieces
<1>9. CASE color = p.turn /\ b[f].type = "king"
  <2>1. Man(b, f, "king", color)
    BY <1>1, <1>4, <1>9 DEF Man, Pieces
  <2>2. f = k
    BY <1>3, <1>4, <2>1
  <2>3. \A s \in DOMAIN board : Man(board, s, "king", color) <=> s = t
    <3>1. Man(board, t, "king", color)
      BY <1>8, <1>9 DEF Landing
    <3>2. ASSUME NEW s \in DOMAIN board, Man(board, s, "king", color), s # t PROVE FALSE
      <4>1. s \notin Touched(p, f, t) /\ s \in DOMAIN b /\ board[s] = b[s]
        BY <1>7, <1>8, <3>2
      <4>2. Man(b, s, "king", color)
        BY <3>2, <4>1 DEF Man
      <4> QED BY <1>3, <2>2, <4>1, <4>2 DEF Touched
    <3> QED BY <3>1, <3>2
  <2>4. t \in DOMAIN board
    BY DEF Landing
  <2> HIDE DEF k
  <2> QED BY <1>9, <2>3, <2>4, TheKing DEF OneKing
<1>10. CASE ~(color = p.turn /\ b[f].type = "king")
  <2>1. b[k].type = "king" /\ b[k].color = color
    BY <1>3 DEF Man
  <2>2. k \notin Touched(p, f, t)
    BY <1>3, <1>4, <1>5, <1>6, <1>10, <2>1 DEF Touched
  <2>3. k \in DOMAIN board /\ board[k] = b[k]
    BY <1>1, <1>3, <2>2 DEF Landing
  <2>4. \A s \in DOMAIN board : Man(board, s, "king", color) <=> s = k
    <3>1. Man(board, k, "king", color)
      BY <1>8, <2>1, <2>3
    <3>2. ASSUME NEW s \in DOMAIN board, Man(board, s, "king", color), s # k PROVE FALSE
      <4>1. s # t
        BY <1>8, <1>10, <3>2 DEF Landing
      <4>2. s \in DOMAIN b /\ board[s] = b[s]
        BY <1>7, <1>8, <3>2, <4>1
      <4>3. Man(b, s, "king", color)
        BY <3>2, <4>2 DEF Man
      <4> QED BY <1>3, <3>2, <4>2, <4>3
    <3> QED BY <3>1, <3>2
  <2> HIDE DEF k
  <2>5. KingSquare(board, color) = k
    BY <2>3, <2>4, TheKing
  <2> QED BY <1>10, <2>2, <2>3, <2>4, <2>5 DEF OneKing, k
<1> QED BY <1>9, <1>10

\* Rights and target after a ply, the board being the one it has left.
LEMMA FitsAfter ==
    ASSUME NEW p, Sound(p), NEW f \in Men(p, p.turn), NEW t \in Legal(p, f),
           NEW board, Landing(p, f, t, board),
           t[1] \notin {0, 7} => board[t] = p.board[f],
           NEW q, q.board = board, q.turn = opponent_of(p.turn),
           q.rights = {r \in p.rights :
                         /\ ~(p.board[f].type = "king" /\ r \in RightsOf(p.board[f].color))
                         /\ Corner[r] \notin {f, t}},
           q.ep = IF p.board[f].type = "pawn" /\ t[1] - f[1] \in {-2, 2}
                  THEN <<(f[1] + t[1]) \div 2, f[2]>> ELSE None
    PROVE  Fits(q)
<1> DEFINE b == p.board
<1>1. /\ IsPosition(p) /\ p.turn \in {White, Black} /\ b \in [DOMAIN b -> Pieces]
      /\ DOMAIN b \subseteq Squares /\ p.rights \subseteq {"WK", "WQ", "BK", "BQ"} /\ Fits(p)
  BY PositionIs DEF Sound, IsPosition
<1>2. /\ f \in DOMAIN b /\ b[f].color = p.turn /\ t # f /\ t \in Squares
      /\ t \in DOMAIN b => b[t].type # "king"
  BY <1>1, LegalLands, KingsStand, MovesOnto
<1>3. ASSUME NEW color \in {White, Black}, NEW r \in q.rights \cap RightsOf(color)
      PROVE  /\ Man(board, <<king_home_row(color), 4>>, "king", color)
             /\ Man(board, Corner[r], "rook", color)
  <2> DEFINE h == <<king_home_row(color), 4>>
             c == Corner[r]
  <2>1. Man(b, h, "king", color) /\ Man(b, c, "rook", color)
    BY <1>1, <1>3 DEF Fits
  <2>2. h \in Squares /\ c \in Squares /\ c[1] = king_home_row(color) /\ h[1] = king_home_row(color)
    BY DEF RightsOf, Corner, king_home_row, Squares, White, Black
  <2>3. h # f /\ h # t /\ c # f /\ c # t
    BY <1>2, <1>3, <2>1 DEF Man
  <2>4. IsEnPassant(p, f, t) => h # Passed(f, t) /\ c # Passed(f, t)
    <3> SUFFICES ASSUME IsEnPassant(p, f, t) PROVE b[Passed(f, t)].type = "pawn"
      BY <2>1 DEF Man
    <3>1. Man(b, Passed(f, t), "pawn", opponent_of(p.turn))
      BY <1>1, PassingTakes
    <3> QED BY <3>1 DEF Man
  <2>5. IsCastling(p, f, t) => h \notin {RookFrom(f, t), RookTo(f, t)}
                               /\ c \notin {RookFrom(f, t), RookTo(f, t)}
    <3> SUFFICES ASSUME IsCastling(p, f, t) PROVE king_home_row(color) # f[1]
      BY <2>2 DEF RookFrom, RookTo
    <3>1. color # p.turn
      BY <1>2, <1>3 DEF IsCastling
    <3>2. f[1] = king_home_row(p.turn)
      BY <1>2 DEF IsCastling
    <3> QED BY <1>1, <3>1, <3>2 DEF king_home_row, White, Black
  <2>6. h \notin Touched(p, f, t) /\ c \notin Touched(p, f, t)
    BY <2>3, <2>4, <2>5 DEF Touched
  <2> HIDE DEF h, c
  <2>7. h \in DOMAIN board /\ board[h] = b[h] /\ c \in DOMAIN board /\ board[c] = b[c]
    BY <2>1, <2>2, <2>6 DEF Landing, Man
  <2> QED BY <2>1, <2>7 DEF Man, h, c
<1>4. ASSUME q.ep # None
      PROVE  LET mover == opponent_of(q.turn)
             IN  /\ Free(board, q.ep)
                 /\ Man(board, Toward(q.ep, <<pawn_forward(mover), 0>>, 1), "pawn", mover)
  <2>1. b[f].type = "pawn" /\ t[1] - f[1] \in {-2, 2} /\ q.ep = <<(f[1] + t[1]) \div 2, f[2]>>
    BY <1>4
  <2>2. opponent_of(q.turn) = p.turn
    BY <1>1 DEF opponent_of, White, Black
  <2> DEFINE ahead(n) == Toward(f, <<pawn_forward(p.turn), 0>>, n)
  <2>3. pawn_forward(p.turn) \in {-1, 1} /\ f \in (0..7) \X (0..7)
    BY <1>1, <1>2 DEF pawn_forward, Squares
  <2>4. t = ahead(2) /\ Free(b, ahead(1)) /\ Free(b, t) /\ f[1] = pawn_start_row(p.turn)
    <3>1. t \in PawnMoves(p, f)
      BY <2>1 DEF Legal, PseudoLegal
    <3>2. \A c \in {-1, 0, 1} : t # Toward(f, <<pawn_forward(p.turn), c>>, 1)
      BY <2>1, <2>3 DEF Toward
    <3> QED BY <1>2, <3>1, <3>2 DEF PawnMoves
  <2>5. /\ q.ep = ahead(1) /\ t[2] = f[2]
        /\ t = <<f[1] + 2 * pawn_forward(p.turn), f[2]>>
        /\ ahead(1) = <<f[1] + pawn_forward(p.turn), f[2]>>
    <3> DEFINE d == pawn_forward(p.turn)
    <3>1. f[1] \in 0..7 /\ f[2] \in 0..7 /\ d \in {-1, 1}
      BY <2>3
    <3>2. t = <<f[1] + 2 * d, f[2] + 2 * 0>> /\ ahead(1) = <<f[1] + 1 * d, f[2] + 1 * 0>>
      BY <2>4 DEF Toward
    <3> HIDE DEF d
    <3>3. t = <<f[1] + 2 * d, f[2]>> /\ ahead(1) = <<f[1] + d, f[2]>>
      BY <3>1, <3>2
    <3>4. (f[1] + (f[1] + 2 * d)) \div 2 = f[1] + d
      BY <3>1
    <3>5. t[1] = f[1] + 2 * d /\ t[2] = f[2]
      BY <3>3
    <3> QED BY <2>1, <3>3, <3>4, <3>5 DEF d
  <2>6. Toward(q.ep, <<pawn_forward(p.turn), 0>>, 1) = t
    BY <2>3, <2>5 DEF Toward
  <2>7. t[1] \notin {0, 7}
    BY <1>1, <2>4, <2>5 DEF pawn_forward, pawn_start_row, White, Black
  <2>8. ~IsEnPassant(p, f, t) /\ ~IsCastling(p, f, t)
    BY <2>1, <2>5 DEF IsEnPassant, IsCastling
  <2>9. q.ep \in Squares \ Touched(p, f, t)
    BY <2>3, <2>4, <2>5, <2>8 DEF Touched, Free
  <2>10. Free(board, q.ep)
    BY <2>4, <2>5, <2>9 DEF Free, Landing
  <2>11. Man(board, t, "pawn", p.turn)
    BY <1>1, <1>2, <2>1, <2>7 DEF Landing, Man, Pieces
  <2> QED BY <2>2, <2>6, <2>10, <2>11
<1> QED BY <1>3, <1>4 DEF Fits
\* No line reaches a castled king over the corner its rook has left.
LEMMA BehindTheRook ==
    ASSUME NEW a \in Squares, NEW d \in Rays, NEW n \in 1..7, NEW k \in 1..(n - 1),
           NEW home, NEW t, t = Toward(a, d, n),
           \/ t = <<home, 6>> /\ Toward(a, d, k) = <<home, 7>>
           \/ t = <<home, 2>> /\ Toward(a, d, k) = <<home, 0>>
    PROVE  FALSE
<1>1. a[2] \in 0..7 /\ d[2] \in {-1, 0, 1}
  BY DEF Squares, Rays, Straight, Diagonal
<1>2. \/ a[2] + n * d[2] = 6 /\ a[2] + k * d[2] = 7
      \/ a[2] + n * d[2] = 2 /\ a[2] + k * d[2] = 0
  BY DEF Toward
<1>3. k \in 1..6 /\ k < n
  OBVIOUS
<1>4. CASE d[2] = -1
  BY <1>1, <1>2, <1>3, <1>4
<1>5. CASE d[2] = 0
  BY <1>1, <1>2, <1>3, <1>5
<1>6. CASE d[2] = 1
  BY <1>1, <1>2, <1>3, <1>6
<1> QED BY <1>1, <1>4, <1>5, <1>6

LEMMA CastledSafe ==
    ASSUME NEW p, Sound(p), NEW f \in Men(p, p.turn), NEW t \in Legal(p, f),
           IsCastling(p, f, t)
    PROVE  ~InCheck(Applied(p, f, t), p.turn)
<1> DEFINE b == p.board
           r == RookFrom(f, t)
           u == RookTo(f, t)
           home == king_home_row(p.turn)
           x == Carry(b, f, t)
           y == Applied(p, f, t)
           by == opponent_of(p.turn)
<1>1. /\ IsPosition(p) /\ p.turn \in {White, Black} /\ by # p.turn
      /\ DOMAIN b \subseteq Squares
  BY PositionIs DEF Sound, opponent_of, White, Black
<1>2. /\ f \in DOMAIN b /\ b[f].color = p.turn /\ b[f].type = "king" /\ t # f
      /\ ~IsEnPassant(p, f, t)
  BY <1>1, LegalLands DEF IsCastling, IsEnPassant
<1>3. /\ t \notin DOMAIN b /\ u \notin DOMAIN b /\ u # t /\ r \in DOMAIN b /\ r # f
      /\ Man(b, r, "rook", p.turn) /\ t \in {<<home, 6>>, <<home, 2>>} /\ f = <<home, 4>>
  BY <1>1, CastleFinds
<1>4. r = <<home, IF t[2] = 6 THEN 7 ELSE 0>>
  BY <1>3 DEF RookFrom
<1>5. Tried(p, f, t) = x /\ y = Carry(x, r, u)
  BY <1>2 DEF Tried, Landed, Applied
<1>6. ~InCheck(x, p.turn)
  BY <1>2, <1>5 DEF Legal
<1>7. KingSquare(y, p.turn) = t
  BY <1>1, <1>2, AppliedLands, KingsAfter
<1> HIDE DEF r, u, by
<1>8. x = [s \in (DOMAIN b \ {f}) \cup {t} |-> IF s = t THEN b[f] ELSE b[s]]
  BY <1>2, <1>3 DEF Carry, Put, Without
<1>9. y = [s \in (DOMAIN b \ {f, r}) \cup {t, u} |->
             IF s = u THEN b[r] ELSE IF s = t THEN b[f] ELSE b[s]]
  <2> HIDE DEF x, y
  <2> QED BY <1>3, <1>5, <1>8 DEF Carry, Put, Without
<1> HIDE DEF x, y
<1>10. KingSquare(x, p.turn) = t
  <2>1. OneKing(b, p.turn)
    BY <1>1, PositionKings
  <2>2. Man(b, f, "king", p.turn)
    <3>1. b[f] \in Pieces
      BY <1>1, <1>2, PositionIs
    <3> QED BY <1>2, <3>1 DEF Man, Pieces
  <2>3. \A s \in DOMAIN b : Man(b, s, "king", p.turn) <=> s = f
    BY <1>2, <2>1, <2>2, KingsAre
  <2>4. t \in DOMAIN x /\ x[t] = b[f] /\ \A s \in DOMAIN x \ {t} : s \in DOMAIN b \ {f} /\ x[s] = b[s]
    BY <1>8
  <2>5. \A s \in DOMAIN x : Man(x, s, "king", p.turn) <=> s = t
    BY <2>2, <2>3, <2>4 DEF Man
  <2> QED BY <2>4, <2>5, TheKing
<1>11. \A a \in DOMAIN y : y[a].color = by => a \in DOMAIN x /\ x[a] = y[a] /\ a \in Squares
  BY <1>1, <1>2, <1>3, <1>8, <1>9 DEF Man
<1>12. ~Holds(x, t, by)
  BY <1>1, <1>2, <1>8 DEF Holds
<1>13. ASSUME NEW a \in DOMAIN y, NEW d \in Rays, NEW n \in 1..7,
              y[a].color = by, t = Toward(a, d, n), NEW k \in 1..(n - 1),
              Free(y, Toward(a, d, k))
       PROVE  Free(x, Toward(a, d, k))
  <2>1. Toward(a, d, k) # r
    <3> SUFFICES ASSUME Toward(a, d, k) = r PROVE FALSE
      OBVIOUS
    <3>1. \/ t = <<home, 6>> /\ Toward(a, d, k) = <<home, 7>>
          \/ t = <<home, 2>> /\ Toward(a, d, k) = <<home, 0>>
      BY <1>3, <1>4
    <3>2. a \in Squares
      BY <1>11, <1>13
    <3> QED BY <1>13, <3>1, <3>2, BehindTheRook
  <2>2. \A s : s \in DOMAIN x /\ s # r => s \in DOMAIN y
    BY <1>8, <1>9
  <2> QED BY <1>13, <2>1, <2>2 DEF Free
<1>14. Attacked(y, t, by) => Attacked(x, t, by)
  BY <1>11, <1>12, <1>13, AttackKept
<1> QED BY <1>6, <1>7, <1>10, <1>14 DEF InCheck, by, y

LEMMA PlySafe ==
    ASSUME NEW p, Sound(p), NEW f \in Men(p, p.turn), NEW t \in Legal(p, f)
    PROVE  ~InCheck(Applied(p, f, t), p.turn)
<1>1. CASE IsCastling(p, f, t)
  BY <1>1, CastledSafe
<1>2. CASE ~IsCastling(p, f, t)
  <2>1. Applied(p, f, t) = Tried(p, f, t)
    BY <1>2 DEF Applied, Tried
  <2> QED BY <2>1 DEF Legal, Men
<1> QED BY <1>1, <1>2

\* The piece a pawn becomes blocks what the pawn blocked.
LEMMA PromotedSafe ==
    ASSUME NEW p, Sound(p), NEW f \in Men(p, p.turn), NEW t \in Legal(p, f),
           Kind(p, f, t) = "promotion",
           NEW piece \in Pieces, piece.color = p.turn, piece.type # "king"
    PROVE  ~InCheck(Put(Applied(p, f, t), t, piece), p.turn)
<1> DEFINE x == Applied(p, f, t)
           y == Put(x, t, piece)
           by == opponent_of(p.turn)
<1>1. IsPosition(p) /\ by # p.turn /\ p.turn \in {White, Black} /\ p.board[f].type # "king"
  BY PositionIs DEF Sound, opponent_of, White, Black, Kind
<1>2. Landing(p, f, t, x) /\ Landing(p, f, t, y) /\ y[t] = piece
  BY <1>1, AppliedLands, PromotedLands
<1>3. DOMAIN y = DOMAIN x /\ \A s \in DOMAIN y \ {t} : y[s] = x[s]
  BY <1>1, PromotedLands
<1>4. ~InCheck(x, p.turn)
  BY PlySafe
<1> HIDE DEF x, y, by
<1>5. KingSquare(x, p.turn) = KingSquare(y, p.turn)
  BY <1>1, <1>2, KingsAfter
<1> DEFINE k == KingSquare(x, p.turn)
<1>6. ~Holds(x, k, by)
  <2>1. OneKing(x, p.turn)
    BY <1>1, <1>2, KingsAfter
  <2>2. Man(x, k, "king", p.turn)
    BY <2>1, KingsAre
  <2> QED BY <1>1, <2>2 DEF Man, Holds
<1> HIDE DEF k
<1>7. Attacked(y, k, by) => Attacked(x, k, by)
  <2>1. \A a \in DOMAIN y : y[a].color = by => a \in DOMAIN x /\ x[a] = y[a]
    BY <1>1, <1>2, <1>3 DEF by
  <2>2. \A s : Free(y, s) => Free(x, s)
    BY <1>3 DEF Free
  <2> QED BY <1>6, <2>1, <2>2, AttackKept
<1> QED BY <1>4, <1>5, <1>7 DEF InCheck, by, k, x, y
-----------------------------------------------------------------------------
(* A ply, from one sound position to the next *)

PromotionTypes == {"queen", "rook", "bishop", "knight"}

\* The history entry of a move, its promotion settled or not, finished or not.
Written(p, f, t, became, key) ==
    [[Entry(p, f, t) EXCEPT !.became = became] EXCEPT !.key = key]

\* What a promotion may settle on, and any other ply leaves alone.
Becomes(p, f, t) ==
    IF Kind(p, f, t) = "promotion" THEN PromotionTypes ELSE {NoPiece.type}

Left(p, f, t, became) ==
    IF became = NoPiece.type THEN Applied(p, f, t)
    ELSE Put(Applied(p, f, t), t, [type |-> became, color |-> p.board[f].color])

Onto(p, board) == [p EXCEPT !.board = board]

After(p, f, t, became) == Finished(Onto(p, Left(p, f, t, became)), Entry(p, f, t))

LEMMA WrittenIs ==
    ASSUME NEW p, NEW f, NEW t, NEW became, NEW key
    PROVE  LET e == Written(p, f, t, became, key)
           IN  /\ e.from = f /\ e.to = t /\ e.piece = p.board[f]
               /\ e.captured = Captured(p, f, t) /\ e.kind = Kind(p, f, t)
               /\ e.became = became /\ e.key = key
               /\ e.rights = p.rights /\ e.ep = p.ep /\ e.half = p.half
               /\ \A other : /\ [e EXCEPT !.key = other] = Written(p, f, t, became, other)
                              /\ [e EXCEPT !.became = other] = Written(p, f, t, other, key)
               /\ Entry(p, f, t) = Written(p, f, t, NoPiece.type, None)
<1> DEFINE record(m, k) ==
             [from |-> f, to |-> t, piece |-> p.board[f], captured |-> Captured(p, f, t),
              kind |-> Kind(p, f, t), became |-> m, key |-> k,
              rights |-> p.rights, ep |-> p.ep, half |-> p.half]
<1>1. Entry(p, f, t) = record(NoPiece.type, None)
  BY Zenon DEF Entry
<1>2. \A m, k, n : /\ [record(m, k) EXCEPT !.became = n] = record(n, k)
                   /\ [record(m, k) EXCEPT !.key = n] = record(m, n)
  OBVIOUS
<1>3. ASSUME NEW m, NEW k PROVE Written(p, f, t, m, k) = record(m, k)
  <2>1. /\ [record(NoPiece.type, None) EXCEPT !.became = m] = record(m, None)
        /\ [record(m, None) EXCEPT !.key = k] = record(m, k)
    OBVIOUS
  <2> HIDE DEF record
  <2> QED BY <1>1, <2>1, Zenon DEF Written
<1>4. LET e == record(became, key)
      IN  /\ e.from = f /\ e.to = t /\ e.piece = p.board[f]
          /\ e.captured = Captured(p, f, t) /\ e.kind = Kind(p, f, t)
          /\ e.became = became /\ e.key = key
          /\ e.rights = p.rights /\ e.ep = p.ep /\ e.half = p.half
  OBVIOUS
<1> HIDE DEF record
<1> QED BY <1>1, <1>2, <1>3, <1>4

LEMMA FinishedIs ==
    ASSUME NEW p, IsPosition(p), NEW board, NEW move
    PROVE  /\ Onto(p, board) = [board |-> board, turn |-> p.turn, rights |-> p.rights,
                                ep |-> p.ep, half |-> p.half]
           /\ Finished(Onto(p, board), move) =
                [board |-> board, turn |-> opponent_of(p.turn),
                 rights |-> RightsAfter(p, move),
                 ep |-> IF move.piece.type = "pawn" /\ move.to[1] - move.from[1] \in {-2, 2}
                        THEN <<(move.from[1] + move.to[1]) \div 2, move.from[2]>> ELSE None,
                 half |-> IF move.piece.type = "pawn" \/ move.captured # NoPiece THEN 0
                          ELSE p.half + 1]
<1> DEFINE q == Onto(p, board)
<1>1. q = [board |-> board, turn |-> p.turn, rights |-> p.rights, ep |-> p.ep, half |-> p.half]
  BY DEF IsPosition, Onto
<1> HIDE DEF q
<1>2. RightsAfter(q, move) = RightsAfter(p, move)
  BY <1>1 DEF RightsAfter
<1>3. Finished(q, move) =
        [q EXCEPT
           !.rights = RightsAfter(p, move),
           !.ep = IF move.piece.type = "pawn" /\ move.to[1] - move.from[1] \in {-2, 2}
                  THEN <<(move.from[1] + move.to[1]) \div 2, move.from[2]>> ELSE None,
           !.half = IF move.piece.type = "pawn" \/ move.captured # NoPiece THEN 0 ELSE q.half + 1,
           !.turn = opponent_of(q.turn)]
  BY <1>2, Zenon DEF Finished
<1>4. Finished(q, move) =
        [board |-> board, turn |-> opponent_of(p.turn),
         rights |-> RightsAfter(p, move),
         ep |-> IF move.piece.type = "pawn" /\ move.to[1] - move.from[1] \in {-2, 2}
                THEN <<(move.from[1] + move.to[1]) \div 2, move.from[2]>> ELSE None,
         half |-> IF move.piece.type = "pawn" \/ move.captured # NoPiece THEN 0
                  ELSE p.half + 1]
  BY <1>1, <1>3
<1> QED BY <1>1, <1>4 DEF q

LEMMA AfterIs ==
    ASSUME NEW p, IsPosition(p), NEW f, NEW t, NEW became
    PROVE  After(p, f, t, became) =
             [board |-> Left(p, f, t, became), turn |-> opponent_of(p.turn),
              rights |-> {r \in p.rights :
                            /\ ~(p.board[f].type = "king" /\ r \in RightsOf(p.board[f].color))
                            /\ Corner[r] \notin {f, t}},
              ep |-> IF p.board[f].type = "pawn" /\ t[1] - f[1] \in {-2, 2}
                     THEN <<(f[1] + t[1]) \div 2, f[2]>> ELSE None,
              half |-> IF p.board[f].type = "pawn" \/ Captured(p, f, t) # NoPiece THEN 0
                       ELSE p.half + 1]
<1> DEFINE e == Entry(p, f, t)
<1>1. e.from = f /\ e.to = t /\ e.piece = p.board[f] /\ e.captured = Captured(p, f, t)
  BY DEF Entry
<1>2. After(p, f, t, became) = Finished(Onto(p, Left(p, f, t, became)), e)
  BY DEF After
<1> HIDE DEF e
<1>3. RightsAfter(p, e) = {r \in p.rights :
                            /\ ~(p.board[f].type = "king" /\ r \in RightsOf(p.board[f].color))
                            /\ Corner[r] \notin {f, t}}
  BY <1>1 DEF RightsAfter
<1>4. Finished(Onto(p, Left(p, f, t, became)), e) =
        [board |-> Left(p, f, t, became), turn |-> opponent_of(p.turn),
         rights |-> RightsAfter(p, e),
         ep |-> IF e.piece.type = "pawn" /\ e.to[1] - e.from[1] \in {-2, 2}
                THEN <<(e.from[1] + e.to[1]) \div 2, e.from[2]>> ELSE None,
         half |-> IF e.piece.type = "pawn" \/ e.captured # NoPiece THEN 0 ELSE p.half + 1]
  BY FinishedIs
<1> QED BY <1>1, <1>2, <1>3, <1>4

LEMMA LeftLands ==
    ASSUME NEW p, Sound(p), NEW f \in Men(p, p.turn), NEW t \in Legal(p, f),
           NEW became \in Becomes(p, f, t)
    PROVE  /\ Landing(p, f, t, Left(p, f, t, became))
           /\ t[1] \notin {0, 7} => Left(p, f, t, became)[t] = p.board[f]
           /\ ~InCheck(Left(p, f, t, became), p.turn)
<1>1. IsPosition(p) /\ p.board[f].color = p.turn /\ p.turn \in {White, Black}
  BY PositionIs DEF Sound, Men
<1>2. CASE became = NoPiece.type
  BY <1>1, <1>2, AppliedLands, PlySafe DEF Left
<1>3. CASE became # NoPiece.type
  <2>1. Kind(p, f, t) = "promotion" /\ became \in PromotionTypes
    BY <1>3 DEF Becomes
  <2> DEFINE piece == [type |-> became, color |-> p.turn]
  <2>2. piece \in Pieces /\ piece.color = p.turn /\ piece.type # "king"
    BY <1>1, <2>1 DEF PromotionTypes, Pieces, Types
  <2>3. Left(p, f, t, became) = Put(Applied(p, f, t), t, piece)
    BY <1>1, <1>3 DEF Left
  <2> HIDE DEF piece
  <2>4. t[1] \in {0, 7}
    BY <2>1 DEF Kind
  <2>5. Landing(p, f, t, Put(Applied(p, f, t), t, piece))
    BY <1>1, <2>1, <2>2, PromotedLands
  <2>6. ~InCheck(Put(Applied(p, f, t), t, piece), p.turn)
    BY <2>1, <2>2, PromotedSafe
  <2> QED BY <2>3, <2>4, <2>5, <2>6
<1> QED BY <1>2, <1>3

\* A finished ply leads from a sound position to a sound one.
LEMMA AfterSound ==
    ASSUME NEW p, Sound(p), NEW f \in Men(p, p.turn), NEW t \in Legal(p, f),
           NEW became \in Becomes(p, f, t)
    PROVE  Sound(After(p, f, t, became))
<1> DEFINE q == After(p, f, t, became)
           board == Left(p, f, t, became)
<1>1. IsPosition(p) /\ p.turn \in {White, Black} /\ p.half \in Nat
  BY PositionIs DEF Sound
<1>2. /\ Landing(p, f, t, board) /\ (t[1] \notin {0, 7} => board[t] = p.board[f])
      /\ ~InCheck(board, p.turn)
  BY LeftLands
<1>3. /\ q.board = board /\ q.turn = opponent_of(p.turn)
      /\ q.rights = {r \in p.rights :
                       /\ ~(p.board[f].type = "king" /\ r \in RightsOf(p.board[f].color))
                       /\ Corner[r] \notin {f, t}}
      /\ q.ep = IF p.board[f].type = "pawn" /\ t[1] - f[1] \in {-2, 2}
                THEN <<(f[1] + t[1]) \div 2, f[2]>> ELSE None
      /\ q.half = IF p.board[f].type = "pawn" \/ Captured(p, f, t) # NoPiece THEN 0
                  ELSE p.half + 1
      /\ q = [board |-> q.board, turn |-> q.turn, rights |-> q.rights, ep |-> q.ep,
              half |-> q.half]
  BY <1>1, AfterIs
<1> HIDE DEF q, board
<1>4. Fits(q)
  BY <1>2, <1>3, FitsAfter
<1>5. q.ep \in {None} \cup Squares
  BY <1>4 DEF Fits, Free
<1>6. q.rights \in SUBSET DOMAIN Corner /\ q.half \in Nat /\ q.turn \in {White, Black}
  <2>1. p.rights \in SUBSET DOMAIN Corner
    BY <1>1 DEF IsPosition
  <2> QED BY <1>1, <1>3, <2>1 DEF opponent_of
<1>7. q \in [board : {q.board}, turn : {White, Black}, rights : SUBSET DOMAIN Corner,
             ep : {None} \cup Squares, half : Nat]
  BY <1>3, <1>5, <1>6
<1>8. \A color \in {White, Black} : OneKing(board, color)
  BY <1>2, KingsAfter
<1>9. IsPosition(q)
  BY <1>2, <1>3, <1>4, <1>7, <1>8 DEF IsPosition, Landing, OneKing
<1>10. opponent_of(q.turn) = p.turn
  BY <1>1, <1>3 DEF opponent_of, White, Black
<1> QED BY <1>2, <1>3, <1>9, <1>10 DEF Sound, q
-----------------------------------------------------------------------------
(* A game, one ply after the other *)

LEMMA BagAdd ==
    ASSUME NEW B, IsABag(B), NEW x
    PROVE  /\ IsABag(B (+) SetToBag({x}))
           /\ (B (+) SetToBag({x})) (-) SetToBag({x}) = B
<1> DEFINE C == B (+) SetToBag({x})
           D == [e \in DOMAIN C |-> IF e \in {x} THEN C[e] - 1 ELSE C[e]]
<1>1. /\ B = [e \in DOMAIN B |-> B[e]]
      /\ \A e \in DOMAIN B : B[e] \in Nat /\ B[e] > 0
  BY DEF IsABag
<1>2. C = [e \in DOMAIN B \cup {x} |->
             (IF e \in DOMAIN B THEN B[e] ELSE 0) + (IF e \in {x} THEN 1 ELSE 0)]
  BY DEF SetToBag, (+)
<1>3. C \in [DOMAIN C -> {n \in Nat : n > 0}]
  <2> HIDE DEF C
  <2> QED BY <1>1, <1>2
<1>4. C (-) SetToBag({x}) = [e \in {d \in DOMAIN D : D[d] > 0} |-> D[e]]
  <2> HIDE DEF C
  <2> QED BY DEF SetToBag, (-)
<1>5. DOMAIN D = DOMAIN B \cup {x}
  <2> HIDE DEF C
  <2> QED BY <1>2
<1>6. \A e \in DOMAIN B : D[e] = B[e]
  <2> HIDE DEF C
  <2> QED BY <1>1, <1>2
<1>7. x \notin DOMAIN B => D[x] = 0
  <2> HIDE DEF C
  <2> QED BY <1>2
<1>8. {d \in DOMAIN D : D[d] > 0} = DOMAIN B
  <2> HIDE DEF D
  <2> QED BY <1>1, <1>5, <1>6, <1>7
<1>9. [e \in {d \in DOMAIN D : D[d] > 0} |-> D[e]] = B
  <2> HIDE DEF D
  <2> QED BY <1>1, <1>6, <1>8
<1> QED BY <1>3, <1>4, <1>9 DEF IsABag

\* A position between two plies, with the positions there have been.
IsGame(g) ==
    g = [pos |-> g.pos, counts |-> g.counts] /\ Sound(g.pos) /\ IsABag(g.counts)

\* An entry of a legal move: of a promotion that waits for its piece, or of a finished ply.
Ply(g, e) ==
    \E f \in Men(g.pos, g.pos.turn) : \E t \in Legal(g.pos, f) : \E became, key :
        /\ e = Written(g.pos, f, t, became, key)
        /\ \/ key = None /\ became = NoPiece.type /\ Kind(g.pos, f, t) = "promotion"
           \/ key = Key(After(g.pos, f, t, became)) /\ became \in Becomes(g.pos, f, t)

LEMMA KeyIs == \A p : Key(p) # None
BY DEF Key, None

Onward(g, p) == [pos |-> p, counts |-> g.counts (+) SetToBag({Key(p)})]

LEMMA ReplayedIs ==
    ASSUME NEW g, IsGame(g), NEW f, NEW t, NEW became, NEW key,
           NEW e, e = Written(g.pos, f, t, became, key)
    PROVE  /\ key = None => Replayed(g, e) = [pos |-> Onto(g.pos, Applied(g.pos, f, t)),
                                              counts |-> g.counts]
           /\ key # None => Replayed(g, e) = Onward(g, After(g.pos, f, t, became))
<1> DEFINE moved == Applied(g.pos, f, t)
           board == Left(g.pos, f, t, became)
           n == Entry(g.pos, f, t)
           q == Onto(g.pos, board)
<1>1. /\ e.from = f /\ e.to = t /\ e.piece = g.pos.board[f] /\ e.key = key
      /\ e.captured = Captured(g.pos, f, t) /\ e.became = became
  BY WrittenIs
<1>2. n.from = f /\ n.to = t /\ n.piece = g.pos.board[f] /\ n.captured = Captured(g.pos, f, t)
  BY DEF Entry
<1>3. IsPosition(g.pos) /\ g = [pos |-> g.pos, counts |-> g.counts]
  BY DEF IsGame, Sound
<1>4. After(g.pos, f, t, became) = Finished(q, n)
  BY DEF After
<1>5. (IF e.became = NoPiece.type THEN moved
       ELSE Put(moved, e.to, [type |-> e.became, color |-> e.piece.color])) = board
  BY <1>1 DEF Left
<1>6. Applied(g.pos, e.from, e.to) = moved
  BY <1>1
<1>7. Replayed(g, e) = IF e.key = None THEN [g EXCEPT !.pos.board = moved]
                       ELSE Onward(g, Finished(q, e))
  BY <1>5, <1>6, Zenon DEF Replayed, Onward, Onto
<1>8. [g EXCEPT !.pos.board = moved] = [pos |-> Onto(g.pos, moved), counts |-> g.counts]
  <2> HIDE DEF moved
  <2> QED BY <1>3 DEF Onto
<1> HIDE DEF n, q, board, moved
<1>9. RightsAfter(g.pos, e) = RightsAfter(g.pos, n)
  BY <1>1, <1>2 DEF RightsAfter
<1>10. Finished(q, e) = Finished(q, n)
  BY <1>1, <1>2, <1>3, <1>9, FinishedIs DEF q
<1>11. key = None => Replayed(g, e) = [pos |-> Onto(g.pos, moved), counts |-> g.counts]
  <2> SUFFICES ASSUME key = None PROVE Replayed(g, e) = [g EXCEPT !.pos.board = moved]
    BY <1>8, Zenon
  <2> QED BY <1>1, <1>7, Zenon
<1>12. key # None => Replayed(g, e) = Onward(g, After(g.pos, f, t, became))
  <2> SUFFICES ASSUME key # None PROVE Replayed(g, e) = Onward(g, Finished(q, e))
    BY <1>4, <1>10, Zenon
  <2> QED BY <1>1, <1>7, Zenon
<1> QED BY <1>11, <1>12 DEF moved

\* The next position of a game, or the board on which a promotion waits.
LEMMA PlayedOn ==
    ASSUME NEW g, IsGame(g), NEW e, Ply(g, e)
    PROVE  /\ Replayed(g, e) = [pos |-> Replayed(g, e).pos, counts |-> Replayed(g, e).counts]
           /\ e.key # None => IsGame(Replayed(g, e))
           /\ e.key = None => /\ Replayed(g, e).pos.turn = g.pos.turn
                              /\ ~InCheck(Replayed(g, e).pos.board, g.pos.turn)
<1>1. PICK f \in Men(g.pos, g.pos.turn) : \E t \in Legal(g.pos, f) : \E became, key :
        /\ e = Written(g.pos, f, t, became, key)
        /\ \/ key = None /\ became = NoPiece.type /\ Kind(g.pos, f, t) = "promotion"
           \/ key = Key(After(g.pos, f, t, became)) /\ became \in Becomes(g.pos, f, t)
  BY DEF Ply
<1>1a. PICK t \in Legal(g.pos, f) : \E became, key :
        /\ e = Written(g.pos, f, t, became, key)
        /\ \/ key = None /\ became = NoPiece.type /\ Kind(g.pos, f, t) = "promotion"
           \/ key = Key(After(g.pos, f, t, became)) /\ became \in Becomes(g.pos, f, t)
  BY <1>1
<1>2. PICK became, key :
        /\ e = Written(g.pos, f, t, became, key)
        /\ \/ key = None /\ became = NoPiece.type /\ Kind(g.pos, f, t) = "promotion"
           \/ key = Key(After(g.pos, f, t, became)) /\ became \in Becomes(g.pos, f, t)
  BY <1>1a
<1>3. e.key = key
  BY <1>2, WrittenIs
<1>4. Sound(g.pos) /\ IsABag(g.counts) /\ IsPosition(g.pos)
  BY DEF IsGame, Sound
<1>5. CASE key = None
  <2> DEFINE moved == Applied(g.pos, f, t)
  <2>1. Replayed(g, e) = [pos |-> Onto(g.pos, moved), counts |-> g.counts]
    BY <1>2, <1>5, ReplayedIs
  <2>2. Onto(g.pos, moved).turn = g.pos.turn /\ Onto(g.pos, moved).board = moved
    <3> HIDE DEF moved
    <3> QED BY <1>4, FinishedIs
  <2>3. ~InCheck(moved, g.pos.turn)
    BY <1>4, PlySafe
  <2> HIDE DEF moved
  <2> QED BY <1>3, <1>5, <2>1, <2>2, <2>3
<1>6. CASE key # None
  <2> DEFINE after == After(g.pos, f, t, became)
  <2>1. Replayed(g, e) = Onward(g, after)
    BY <1>2, <1>6, ReplayedIs
  <2>2. Sound(after)
    BY <1>2, <1>4, <1>6, AfterSound
  <2>3. IsABag(g.counts (+) SetToBag({Key(after)}))
    BY <1>4, BagAdd
  <2> HIDE DEF after
  <2> QED BY <1>3, <1>6, <2>1, <2>2, <2>3 DEF IsGame, Onward
<1> QED BY <1>5, <1>6

\* The game as it was before the ply of an entry.
Unplayed(g, e) ==
    LET board == Restored(g.pos.board, e)
    IN  IF e.key = None THEN [pos |-> Onto(g.pos, board), counts |-> g.counts]
        ELSE [pos |-> [board |-> board, turn |-> opponent_of(g.pos.turn),
                       rights |-> e.rights, ep |-> e.ep, half |-> e.half],
              counts |-> g.counts (-) SetToBag({e.key})]

LEMMA TakenBackGame ==
    ASSUME NEW g, IsGame(g), NEW e, Ply(g, e)
    PROVE  Unplayed(Replayed(g, e), e) = g
<1> DEFINE p == g.pos
<1>1. PICK f \in Men(p, p.turn) : \E t \in Legal(p, f) : \E became, key :
        /\ e = Written(p, f, t, became, key)
        /\ \/ key = None /\ became = NoPiece.type /\ Kind(p, f, t) = "promotion"
           \/ key = Key(After(p, f, t, became)) /\ became \in Becomes(p, f, t)
  BY DEF Ply
<1>1a. PICK t \in Legal(p, f) : \E became, key :
        /\ e = Written(p, f, t, became, key)
        /\ \/ key = None /\ became = NoPiece.type /\ Kind(p, f, t) = "promotion"
           \/ key = Key(After(p, f, t, became)) /\ became \in Becomes(p, f, t)
  BY <1>1
<1>2. PICK became, key :
        /\ e = Written(p, f, t, became, key)
        /\ \/ key = None /\ became = NoPiece.type /\ Kind(p, f, t) = "promotion"
           \/ key = Key(After(p, f, t, became)) /\ became \in Becomes(p, f, t)
  BY <1>1a
<1>3. /\ e.key = key /\ e.rights = p.rights /\ e.ep = p.ep /\ e.half = p.half
      /\ e.from = f /\ e.to = t /\ e.piece = p.board[f]
      /\ e.captured = Captured(p, f, t) /\ e.kind = Kind(p, f, t)
  BY <1>2, WrittenIs
<1>4. /\ IsABag(g.counts) /\ IsPosition(p) /\ g = [pos |-> p, counts |-> g.counts]
      /\ p = [board |-> p.board, turn |-> p.turn, rights |-> p.rights, ep |-> p.ep, half |-> p.half]
  BY DEF IsGame, Sound, IsPosition
<1>5. \A board : Restored(board, e) = Restored(board, Entry(p, f, t))
  <2>1. LET n == Entry(p, f, t)
        IN  /\ n.from = f /\ n.to = t /\ n.piece = p.board[f]
            /\ n.captured = Captured(p, f, t) /\ n.kind = Kind(p, f, t)
    BY DEF Entry
  <2> QED BY <1>3, <2>1 DEF Restored
<1>6. CASE key = None
  <2> DEFINE x == Onto(p, Applied(p, f, t))
  <2>1. Replayed(g, e) = [pos |-> x, counts |-> g.counts]
    BY <1>2, <1>6, ReplayedIs
  <2>2. Restored(Applied(p, f, t), e) = p.board
    BY <1>4, <1>5, TakenBackExactly
  <2>3. x = [board |-> Applied(p, f, t), turn |-> p.turn, rights |-> p.rights, ep |-> p.ep,
             half |-> p.half]
    BY <1>4, FinishedIs
  <2> HIDE DEF x, p
  <2>4. Restored(x.board, e) = p.board
    BY <2>2, <2>3
  <2>5. Onto(x, p.board) = p
    BY <1>4, <2>3 DEF Onto
  <2>6. Unplayed(Replayed(g, e), e) = [pos |-> Onto(x, p.board), counts |-> g.counts]
    BY <1>3, <1>6, <2>1, <2>4 DEF Unplayed
  <2> QED BY <1>4, <2>5, <2>6
<1>7. CASE key # None
  <2> DEFINE after == After(p, f, t, became)
  <2>1. Replayed(g, e) = Onward(g, after)
    BY <1>2, <1>7, ReplayedIs
  <2>2. after.board = Left(p, f, t, became) /\ after.turn = opponent_of(p.turn)
    BY <1>4, AfterIs
  <2>3. Restored(after.board, e) = p.board
    <3>1. CASE became = NoPiece.type
      BY <1>4, <1>5, <2>2, <3>1, TakenBackExactly DEF Left
    <3>2. CASE became # NoPiece.type
      <4>1. Kind(p, f, t) = "promotion"
        BY <1>2, <1>7, <3>2 DEF Becomes
      <4> QED BY <1>4, <1>5, <2>2, <3>2, <4>1, TakenBackExactly DEF Left
    <3> QED BY <3>1, <3>2
  <2>4. opponent_of(after.turn) = p.turn
    BY <1>4, <2>2, PositionIs DEF opponent_of, White, Black
  <2>5. (g.counts (+) SetToBag({Key(after)})) (-) SetToBag({Key(after)}) = g.counts
    BY <1>4, BagAdd
  <2>6. e.key = Key(after)
    BY <1>2, <1>3, <1>7
  <2> HIDE DEF after, p
  <2>7. Unplayed(Replayed(g, e), e) =
          [pos |-> [board |-> p.board, turn |-> p.turn, rights |-> p.rights, ep |-> p.ep,
                    half |-> p.half],
           counts |-> (g.counts (+) SetToBag({Key(after)})) (-) SetToBag({Key(after)})]
    <3>1. Replayed(g, e).pos = after
          /\ Replayed(g, e).counts = g.counts (+) SetToBag({Key(after)})
      BY <2>1 DEF Onward
    <3> QED BY <1>3, <1>7, <2>3, <2>4, <2>6, <3>1 DEF Unplayed
  <2> QED BY <1>4, <2>5, <2>7
<1> QED BY <1>6, <1>7
-----------------------------------------------------------------------------
(* A line of plies, each played on the position the ones before it reached *)

LEMMA Appended ==
    ASSUME NEW s, IsSequence(s), NEW e
    PROVE  /\ \A k \in 1..Len(s) : Append(s, e)[k] = s[k]
           /\ Append(s, e)[Len(s) + 1] = e
           /\ Append(s, e) # <<>>
<1>1. PICK S : s \in Seq(S)
  BY DEF IsSequence
<1>2. s \in Seq(S \cup {e}) /\ Len(s) \in Nat
  BY <1>1, SeqMonotonic, LenProperties
<1>3. /\ \A k \in 1..Len(s) : Append(s, e)[k] = s[k]
      /\ Append(s, e)[Len(s) + 1] = e /\ Len(Append(s, e)) = Len(s) + 1
  BY <1>2, AppendProperties
<1> QED BY <1>2, <1>3, EmptySeq

LEMMA Fronted ==
    ASSUME NEW s, IsSequence(s), s # <<>>
    PROVE  /\ \A k \in 1..(Len(s) - 1) : Front(s)[k] = s[k]
           /\ Last(s) = s[Len(s)]
           /\ Len(s) \in Nat \ {0}
<1>1. PICK S : s \in Seq(S)
  BY DEF IsSequence
<1>2. Len(s) \in Nat /\ Len(s) >= 1
  BY <1>1, EmptySeq
<1>3. Len(s) - 1 \in Int /\ 1 \in Int /\ \A i \in 1..(Len(s) - 1) : s[i] \in S
  BY <1>1, <1>2, ElementOfSeq
<1>4. \A k \in 1..(Len(s) - 1) : SubSeq(s, 1, Len(s) - 1)[k] = s[1 + k - 1]
  BY <1>3, SubSeqProperties
<1>5. \A k \in 1..(Len(s) - 1) : 1 + k - 1 = k
  BY <1>2
<1>6. Front(s) = SubSeq(s, 1, Len(s) - 1) /\ Last(s) = s[Len(s)]
  BY DEF Front, Last
<1>7. \A k \in 1..(Len(s) - 1) : Front(s)[k] = s[k]
  BY <1>4, <1>5, <1>6
<1> QED BY <1>2, <1>6, <1>7

Settled(h) == h = <<>> \/ h[Len(h)].key # None

\* c[k] is the game after k of the plies: from b all of them lead to g, and only the last
\* may wait for its piece.
Leads(b, c, h, g) ==
    /\ IsSequence(h)
    /\ c[0] = b /\ c[Len(h)] = g
    /\ \A k \in 0..(Len(h) - 1) : /\ IsGame(c[k]) /\ Ply(c[k], h[k + 1])
                                  /\ c[k + 1] = Replayed(c[k], h[k + 1])
    /\ \A k \in 1..(Len(h) - 1) : h[k].key # None
    /\ Settled(h) => IsGame(g)

LEMMA Longer ==
    ASSUME NEW b, NEW c, NEW h, NEW g, Leads(b, c, h, g), Settled(h), NEW e, Ply(g, e)
    PROVE  \E d : Leads(b, d, Append(h, e), Replayed(g, e))
<1> DEFINE n == Len(h)
           i == Append(h, e)
           next == Replayed(g, e)
           d == [k \in 0..(n + 1) |-> IF k = n + 1 THEN next ELSE c[k]]
<1>1. n \in Nat /\ IsSequence(i) /\ Len(i) = n + 1
  BY Lengths, Appending DEF Leads
<1>2. (\A k \in 1..n : i[k] = h[k]) /\ i[n + 1] = e /\ i # <<>>
  BY Appended DEF Leads
<1>3. IsGame(g) /\ (e.key # None => IsGame(next))
  BY PlayedOn DEF Leads
<1> HIDE DEF i, next
<1>4. d[n + 1] = next /\ \A k \in 0..n : d[k] = c[k]
  BY <1>1
<1> HIDE DEF d
<1>5. d[0] = b /\ d[n] = g
  BY <1>1, <1>4 DEF Leads
<1>6. ASSUME NEW k \in 0..(Len(i) - 1)
      PROVE  IsGame(d[k]) /\ Ply(d[k], i[k + 1]) /\ d[k + 1] = Replayed(d[k], i[k + 1])
  <2>1. CASE k = n
    <3>1. Ply(d[k], i[k + 1]) /\ IsGame(d[k]) /\ d[k + 1] = next
      BY <1>2, <1>3, <1>4, <1>5, <2>1
    <3>2. Replayed(d[k], i[k + 1]) = next
      BY <1>2, <1>5, <2>1 DEF next
    <3> QED BY <3>1, <3>2
  <2>2. CASE k # n
    <3>1. k \in 0..(n - 1) /\ k \in 0..n /\ k + 1 \in 0..n /\ k + 1 \in 1..n
      BY <1>1, <2>2
    <3>2. d[k] = c[k] /\ d[k + 1] = c[k + 1] /\ i[k + 1] = h[k + 1]
      BY <1>2, <1>4, <3>1
    <3>3. IsGame(c[k]) /\ Ply(c[k], h[k + 1]) /\ c[k + 1] = Replayed(c[k], h[k + 1])
      BY <3>1 DEF Leads
    <3> QED BY <3>2, <3>3
  <2> QED BY <2>1, <2>2
<1>7. ASSUME NEW k \in 1..(Len(i) - 1) PROVE i[k].key # None
  <2>1. k \in 1..n /\ i[k] = h[k]
    BY <1>1, <1>2
  <2>2. CASE k = n
    <3>1. h # <<>>
      BY <1>1, <2>1, <2>2, EmptySeq
    <3> QED BY <2>1, <2>2, <3>1 DEF Settled
  <2>3. CASE k # n
    BY <1>1, <2>1, <2>3 DEF Leads
  <2> QED BY <2>2, <2>3
<1>8. Settled(i) => IsGame(next)
  BY <1>1, <1>2, <1>3 DEF Settled
<1>9. Leads(b, d, i, next)
  BY <1>1, <1>4, <1>5, <1>6, <1>7, <1>8 DEF Leads
<1> QED BY <1>9 DEF i, next

LEMMA Shorter ==
    ASSUME NEW b, NEW c, NEW h, NEW g, Leads(b, c, h, g), h # <<>>
    PROVE  \E past : /\ Leads(b, c, Front(h), past) /\ Settled(Front(h))
                     /\ IsGame(past) /\ Ply(past, Last(h)) /\ g = Replayed(past, Last(h))
<1> DEFINE n == Len(h)
           i == Front(h)
           past == c[n - 1]
<1>1. n \in Nat \ {0} /\ IsSequence(i) /\ Len(i) = n - 1
  BY Fronting, Fronted DEF Leads
<1>2. (\A k \in 1..(n - 1) : i[k] = h[k]) /\ Last(h) = h[n]
  BY Fronted DEF Leads
<1>3. n - 1 \in 0..(n - 1) /\ n - 1 + 1 = n
  BY <1>1
<1>4. IsGame(past) /\ Ply(past, h[n - 1 + 1]) /\ c[n - 1 + 1] = Replayed(past, h[n - 1 + 1])
  BY <1>3 DEF Leads
<1>5. Ply(past, Last(h)) /\ g = Replayed(past, Last(h))
  BY <1>2, <1>3, <1>4 DEF Leads
<1> HIDE DEF i
<1>6. ASSUME NEW k \in 0..(Len(i) - 1)
      PROVE  IsGame(c[k]) /\ Ply(c[k], i[k + 1]) /\ c[k + 1] = Replayed(c[k], i[k + 1])
  <2>1. k \in 0..(n - 1) /\ k + 1 \in 1..(n - 1)
    BY <1>1
  <2>2. i[k + 1] = h[k + 1]
    BY <1>2, <2>1
  <2>3. IsGame(c[k]) /\ Ply(c[k], h[k + 1]) /\ c[k + 1] = Replayed(c[k], h[k + 1])
    BY <2>1 DEF Leads
  <2> QED BY <2>2, <2>3
<1>7. \A k \in 1..Len(i) : i[k].key # None
  BY <1>1, <1>2 DEF Leads
<1>8. Settled(i)
  <2>1. CASE Len(i) = 0
    BY <1>1, <2>1, EmptySeq DEF IsSequence, Settled
  <2>2. CASE Len(i) # 0
    <3>1. Len(i) \in 1..Len(i)
      BY <1>1, <2>2
    <3> QED BY <1>7, <3>1 DEF Settled
  <2> QED BY <2>1, <2>2
<1>9. \A k \in 1..(Len(i) - 1) : i[k].key # None
  BY <1>1, <1>7
<1>10. c[0] = b
  BY DEF Leads
<1>11. Leads(b, c, i, past)
  BY <1>1, <1>4, <1>6, <1>9, <1>10 DEF Leads
<1> QED BY <1>4, <1>5, <1>8, <1>11 DEF i
-----------------------------------------------------------------------------
(* The game on the board is where its history leads from its start *)

Opening(p) == [pos |-> p, counts |-> SetToBag({Key(p)})]
Game == [pos |-> pos, counts |-> counts]

Played == \E c : Leads(Opening(start), c, history, Game)

LEMMA PendingIs == Pending <=> ~Settled(history)
BY DEF Pending, Settled, Last

\* A ply finished at once or after its piece was chosen is the same.
LEMMA FinishedWritten ==
    ASSUME NEW p, IsPosition(p), NEW f, NEW t, NEW became, NEW m, NEW k
    PROVE  Finished(Onto(p, Left(p, f, t, became)), Written(p, f, t, m, k))
             = After(p, f, t, became)
<1> DEFINE e == Written(p, f, t, m, k)
           n == Entry(p, f, t)
           board == Left(p, f, t, became)
<1>1. e.from = f /\ e.to = t /\ e.piece = p.board[f] /\ e.captured = Captured(p, f, t)
  BY WrittenIs
<1>2. n.from = f /\ n.to = t /\ n.piece = p.board[f] /\ n.captured = Captured(p, f, t)
  BY DEF Entry
<1>3. After(p, f, t, became) = Finished(Onto(p, board), n)
  BY DEF After
<1> HIDE DEF e, n, board
<1>4. RightsAfter(p, e) = RightsAfter(p, n)
  BY <1>1, <1>2 DEF RightsAfter
<1>5. Finished(Onto(p, board), e) = Finished(Onto(p, board), n)
  BY <1>1, <1>2, <1>4, FinishedIs
<1> QED BY <1>3, <1>5 DEF e, board

LEMMA Rewritten ==
    ASSUME NEW p, NEW f, NEW t, NEW became, NEW key
    PROVE  /\ Entry(p, f, t) = Written(p, f, t, NoPiece.type, None)
           /\ \A k : [Written(p, f, t, became, key) EXCEPT !.key = k]
                       = Written(p, f, t, became, k)
           /\ \A type : [Written(p, f, t, became, key) EXCEPT !.became = type]
                          = Written(p, f, t, type, key)
BY WrittenIs

\* _finalize_move adds the ply it finishes to the game before the ply.
LEMMA FinalizedPly ==
    ASSUME NEW c, NEW h, NEW past, Leads(Opening(start), c, h, past), Settled(h),
           NEW f \in Men(past.pos, past.pos.turn), NEW t \in Legal(past.pos, f),
           NEW became \in Becomes(past.pos, f, t), NEW board, NEW entry,
           board = Left(past.pos, f, t, became),
           entry = Written(past.pos, f, t, became, None),
           \A x : Onto(pos, x) = Onto(past.pos, x),
           counts = past.counts, Finalize(board, h, entry), start' = start
    PROVE  Played'
<1> DEFINE after == After(past.pos, f, t, became)
           e == Written(past.pos, f, t, became, Key(after))
<1>1. IsGame(past) /\ IsPosition(past.pos)
  BY DEF Leads, IsGame, Sound
<1>2. Finished([pos EXCEPT !.board = board], entry) = after
  <2>1. Finished(Onto(past.pos, board), entry) = after
    BY <1>1, FinishedWritten
  <2>2. Onto(pos, board) = Onto(past.pos, board)
    OBVIOUS
  <2> QED BY <2>1, <2>2, Zenon DEF Onto
<1>3. [entry EXCEPT !.key = Key(after)] = e
  <2> DEFINE key == Key(after)
  <2> HIDE DEF key
  <2>1. [Written(past.pos, f, t, became, None) EXCEPT !.key = key]
          = Written(past.pos, f, t, became, key)
    BY Rewritten
  <2> QED BY <2>1, Zenon DEF key
<1>4. /\ pos' = after /\ history' = Append(h, e)
      /\ counts' = past.counts (+) SetToBag({Key(after)})
  BY <1>2, <1>3, Zenon DEF Finalize
<1>5. Ply(past, e)
  BY DEF Ply
<1>6. Replayed(past, e) = Onward(past, after)
  <2>1. Key(after) # None
    BY KeyIs
  <2> QED BY <1>1, <2>1, ReplayedIs
<1>7. \E d : Leads(Opening(start), d, Append(h, e), Replayed(past, e))
  <2> HIDE DEF e
  <2> QED BY <1>5, Longer
<1>8. Game' = Onward(past, after)
  BY <1>4, Zenon DEF Game, Onward
<1>9. Opening(start)' = Opening(start)
  BY DEF Opening, Key
<1> HIDE DEF after, e
<1> QED BY <1>4, <1>6, <1>7, <1>8, <1>9 DEF Played

LEMMA TryMovePlays == ASSUME Played, TryMove PROVE Played'
<1>1. PICK c : Leads(Opening(start), c, history, Game)
  BY DEF Played
<1>2. Settled(history) /\ IsGame(Game) /\ IsPosition(pos) /\ Game.pos = pos /\ Game.counts = counts
  BY <1>1, PendingIs DEF TryMove, Leads, IsGame, Sound, Game
<1> DEFINE Chosen(f, t) ==
             LET entry == Entry(pos, f, t)
             IN  IF entry.kind = "promotion"
                 THEN /\ pos' = [pos EXCEPT !.board = Applied(pos, f, t)]
                      /\ history' = Append(history, entry)
                      /\ UNCHANGED <<counts, memo>>
                 ELSE Finalize(Applied(pos, f, t), history, entry)
<1>8. PICK f \in Men(pos, pos.turn) : \E t \in Legal(pos, f) : Chosen(f, t)
  BY DEF TryMove
<1>3. PICK t \in Legal(pos, f) :
        LET entry == Entry(pos, f, t)
        IN  IF entry.kind = "promotion"
            THEN /\ pos' = [pos EXCEPT !.board = Applied(pos, f, t)]
                 /\ history' = Append(history, entry)
                 /\ UNCHANGED <<counts, memo>>
            ELSE Finalize(Applied(pos, f, t), history, entry)
  BY <1>8
<1> DEFINE entry == Entry(pos, f, t)
<1>4. entry.kind = Kind(pos, f, t) /\ entry = Written(pos, f, t, NoPiece.type, None)
  <2>1. entry.kind = Kind(pos, f, t)
    BY DEF Entry
  <2> QED BY <2>1, Rewritten
<1>5. start' = start
  BY DEF TryMove
<1> HIDE DEF entry
<1>6. CASE Kind(pos, f, t) = "promotion"
  <2>1. /\ pos' = Onto(pos, Applied(pos, f, t))
        /\ history' = Append(history, entry) /\ counts' = counts
    BY <1>3, <1>4, <1>6 DEF entry, Onto
  <2>2. Ply(Game, entry)
    BY <1>2, <1>4, <1>6 DEF Ply
  <2>3. Replayed(Game, entry) = [pos |-> Onto(pos, Applied(pos, f, t)), counts |-> counts]
    BY <1>2, <1>4, ReplayedIs
  <2>4. Game' = Replayed(Game, entry)
    BY <2>1, <2>3 DEF Game
  <2>5. \E d : Leads(Opening(start), d, Append(history, entry), Replayed(Game, entry))
    BY <1>1, <1>2, <2>2, Longer
  <2>6. Opening(start)' = Opening(start)
    BY <1>5 DEF Opening, Key
  <2> QED BY <2>1, <2>4, <2>5, <2>6 DEF Played
<1>7. CASE Kind(pos, f, t) # "promotion"
  <2>1. Finalize(Applied(pos, f, t), history, entry)
    BY <1>3, <1>4, <1>7 DEF entry
  <2>2. NoPiece.type \in Becomes(pos, f, t)
    BY <1>7 DEF Becomes
  <2>3. Applied(pos, f, t) = Left(pos, f, t, NoPiece.type)
    BY DEF Left
  <2> QED BY <1>1, <1>2, <1>4, <1>5, <2>1, <2>2, <2>3, FinalizedPly
<1> QED BY <1>6, <1>7

LEMMA PromotePlays == ASSUME Played, NEW type \in PromotionTypes, Promote(type) PROVE Played'
<1>1. PICK c : Leads(Opening(start), c, history, Game)
  BY DEF Played
<1>2. history # <<>> /\ Last(history).key = None /\ start' = start
  BY DEF Promote, Pending
<1>3. PICK past : /\ Leads(Opening(start), c, Front(history), past) /\ Settled(Front(history))
                  /\ IsGame(past) /\ Ply(past, Last(history))
                  /\ Game = Replayed(past, Last(history))
  BY <1>1, <1>2, Shorter
<1> DEFINE p == past.pos
           e == Last(history)
<1>14. PICK f \in Men(p, p.turn) : \E t \in Legal(p, f) : \E became, key :
        /\ e = Written(p, f, t, became, key)
        /\ \/ key = None /\ became = NoPiece.type /\ Kind(p, f, t) = "promotion"
           \/ key = Key(After(p, f, t, became)) /\ became \in Becomes(p, f, t)
  BY <1>3 DEF Ply
<1>1a. PICK t \in Legal(p, f) : \E became, key :
        /\ e = Written(p, f, t, became, key)
        /\ \/ key = None /\ became = NoPiece.type /\ Kind(p, f, t) = "promotion"
           \/ key = Key(After(p, f, t, became)) /\ became \in Becomes(p, f, t)
  BY <1>14
<1>4. PICK became, key :
        /\ e = Written(p, f, t, became, key)
        /\ \/ key = None /\ became = NoPiece.type /\ Kind(p, f, t) = "promotion"
           \/ key = Key(After(p, f, t, became)) /\ became \in Becomes(p, f, t)
  BY <1>1a
<1> HIDE DEF e
<1>5. e.key = key /\ e.to = t /\ e.piece = p.board[f]
  BY <1>4, WrittenIs
<1>6. key = None /\ became = NoPiece.type /\ Kind(p, f, t) = "promotion"
  BY <1>2, <1>4, <1>5, KeyIs DEF e
<1>7. IsPosition(p)
  BY <1>3 DEF IsGame, Sound
<1>8. pos = Onto(p, Applied(p, f, t)) /\ counts = past.counts
  <2>1. Replayed(past, e) = [pos |-> Onto(p, Applied(p, f, t)), counts |-> past.counts]
    BY <1>3, <1>4, <1>6, ReplayedIs
  <2>2. Game = Replayed(past, e)
    BY <1>3 DEF e
  <2> QED BY <2>1, <2>2 DEF Game
<1>9. \A x : Onto(pos, x) = Onto(p, x)
  <2>1. pos = [board |-> Applied(p, f, t), turn |-> p.turn, rights |-> p.rights, ep |-> p.ep,
               half |-> p.half]
    BY <1>7, <1>8, FinishedIs
  <2>2. ASSUME NEW x PROVE Onto(pos, x) = Onto(p, x)
    <3>1. Onto(p, x) = [board |-> x, turn |-> p.turn, rights |-> p.rights, ep |-> p.ep,
                        half |-> p.half]
      BY <1>7, FinishedIs
    <3> HIDE DEF p
    <3> QED BY <2>1, <3>1 DEF Onto
  <2> QED BY <2>2
<1> DEFINE board == Put(pos.board, e.to, [type |-> type, color |-> e.piece.color])
           entry == [e EXCEPT !.became = type]
<1>10. Finalize(board, Front(history), entry)
  BY DEF Promote, e
<1>11. type \in Becomes(p, f, t) /\ type # NoPiece.type
  BY <1>6 DEF Becomes, PromotionTypes, NoPiece
<1>12. board = Left(p, f, t, type)
  <2>1. pos.board = Applied(p, f, t)
    BY <1>7, <1>8, FinishedIs
  <2> QED BY <1>5, <1>11, <2>1 DEF Left
<1>13. entry = Written(p, f, t, type, None)
  BY <1>4, <1>6, Rewritten
<1> HIDE DEF board, entry, p
<1> QED BY <1>2, <1>3, <1>4, <1>8, <1>9, <1>10, <1>11, <1>12, <1>13, FinalizedPly DEF p

LEMMA UndoPlays == ASSUME Played, Undo PROVE Played'
<1>1. PICK c : Leads(Opening(start), c, history, Game)
  BY DEF Played
<1>2. history # <<>> /\ start' = start /\ history' = Front(history)
  BY DEF Undo
<1>3. PICK past : /\ Leads(Opening(start), c, Front(history), past)
                  /\ IsGame(past) /\ Ply(past, Last(history))
                  /\ Game = Replayed(past, Last(history))
  BY <1>1, <1>2, Shorter
<1>4. Unplayed(Game, Last(history)) = past
  BY <1>3, TakenBackGame
<1>5. Game' = Unplayed(Game, Last(history))
  <2>1. Game.pos = pos /\ Game.counts = counts
    BY DEF Game
  <2>2. CASE Last(history).key = None
    <3>1. pos' = Onto(pos, Restored(pos.board, Last(history))) /\ counts' = counts
      BY <2>2 DEF Undo, Onto
    <3> QED BY <2>1, <2>2, <3>1 DEF Game, Unplayed
  <2>3. CASE Last(history).key # None
    <3>1. /\ pos' = [board |-> Restored(pos.board, Last(history)), turn |-> opponent_of(pos.turn),
                     rights |-> Last(history).rights, ep |-> Last(history).ep,
                     half |-> Last(history).half]
          /\ counts' = counts (-) SetToBag({Last(history).key})
      BY <2>3 DEF Undo
    <3> QED BY <2>1, <2>3, <3>1 DEF Game, Unplayed
  <2> QED BY <2>2, <2>3
<1>6. Opening(start)' = Opening(start)
  BY <1>2 DEF Opening, Key
<1> QED BY <1>2, <1>3, <1>4, <1>5, <1>6 DEF Played

LEMMA PlaysFirst == Init => Played
<1> SUFFICES ASSUME Init PROVE Played
  OBVIOUS
<1>1. /\ start \in Positions /\ history = <<>>
      /\ Game = Opening(start)
  BY DEF Init, Game, Opening
<1>2. IsGame(Opening(start))
  <2>1. Sound(start)
    BY <1>1, PositionsAssumption DEF Sound
  <2>2. IsABag(SetToBag({Key(start)}))
    <3>1. SetToBag({Key(start)}) = [e \in {Key(start)} |-> 1]
      BY DEF SetToBag
    <3> DEFINE k == Key(start)
    <3> HIDE DEF k
    <3>2. [e \in {k} |-> 1] \in [DOMAIN [e \in {k} |-> 1] -> {n \in Nat : n > 0}]
      OBVIOUS
    <3> QED BY <3>1, <3>2 DEF IsABag, k
  <2> QED BY <2>1, <2>2 DEF IsGame, Opening
<1> DEFINE c == [k \in {0} |-> Opening(start)]
<1>3. c[0] = Opening(start) /\ Len(<<>>) = 0 /\ IsSequence(<<>>)
  BY EmptySeq DEF IsSequence
<1> HIDE DEF c
<1>4. 0..(0 - 1) = {} /\ 1..(0 - 1) = {}
  OBVIOUS
<1>5. Leads(Opening(start), c, <<>>, Opening(start))
  BY <1>2, <1>3, <1>4 DEF Leads
<1> QED BY <1>1, <1>5 DEF Played

LEMMA PlaysOn == Played /\ [Next]_vars => Played'
<1> SUFFICES ASSUME Played, [Next]_vars PROVE Played'
  OBVIOUS
<1>1. CASE TryMove
  BY <1>1, TryMovePlays
<1>2. ASSUME NEW type \in {"queen", "rook", "bishop", "knight"}, Promote(type) PROVE Played'
  BY <1>2, PromotePlays DEF PromotionTypes
<1>3. CASE Undo
  BY <1>3, UndoPlays
<1>4. CASE UNCHANGED <<start, pos, history, counts>>
  <2>1. Opening(start)' = Opening(start) /\ Game' = Game /\ history' = history
    BY <1>4 DEF Opening, Key, Game
  <2> QED BY <2>1 DEF Played
<1>5. CASE Tick
  BY <1>4, <1>5 DEF Tick
<1>6. CASE UNCHANGED vars
  BY <1>4, <1>6 DEF vars
<1> QED BY <1>1, <1>2, <1>3, <1>5, <1>6 DEF Next

\* Every position on the board, by whatever plies, promotions and takebacks, is where its
\* history leads from the start of the game.
THEOREM HistoryLeadsHere == Spec => []Played
<1>1. Init => Played
  BY PlaysFirst
<1>2. Played /\ [Next]_vars => Played'
  BY PlaysOn
<1> QED BY <1>1, <1>2, PTL DEF Spec

\* Whatever is played, promoted, left pending and taken back, the rights and the target
\* agree with the pieces on the board.
THEOREM RightsFit == Spec => []RightsFitBoard
<1>1. Played => RightsFitBoard
  <2> SUFFICES ASSUME Played, ~Pending PROVE Fits(pos)
    BY DEF RightsFitBoard
  <2>1. IsGame(Game)
    BY PendingIs DEF Played, Leads
  <2> QED BY <2>1 DEF IsGame, Game, Sound, IsPosition
<1> QED BY <1>1, HistoryLeadsHere, PTL

\* Nobody has ever moved into check, not even with a pawn that waits for its piece.
THEOREM NobodyLeftInCheck == Spec => []KingsSafe
<1>1. Played => KingsSafe
  <2> SUFFICES ASSUME Played PROVE KingsSafe
    OBVIOUS
  <2>1. PICK c : Leads(Opening(start), c, history, Game)
    BY DEF Played
  <2>2. CASE Pending
    <3>1. history # <<>> /\ Last(history).key = None
      BY <2>2 DEF Pending
    <3>2. PICK past : /\ IsGame(past) /\ Ply(past, Last(history))
                      /\ Game = Replayed(past, Last(history))
      BY <2>1, <3>1, Shorter
    <3>3. Game.pos.turn = past.pos.turn /\ ~InCheck(Game.pos.board, past.pos.turn)
      BY <3>1, <3>2, PlayedOn
    <3> QED BY <2>2, <3>3 DEF KingsSafe, Game
  <2>3. CASE ~Pending
    <3>1. Sound(Game.pos)
      BY <2>1, <2>3, PendingIs DEF Leads, IsGame
    <3> QED BY <2>3, <3>1 DEF Sound, KingsSafe, Game
  <2> QED BY <2>2, <2>3
<1> QED BY <1>1, HistoryLeadsHere, PTL
-----------------------------------------------------------------------------
(* The fold over the history goes along the same line *)

LEMMA LeastNatural ==
    ASSUME NEW T \in SUBSET Nat, T # {}
    PROVE  \E n \in T : \A m \in T : ~(m < n)
<1>1. IsWellFoundedOn(OpToRel(<, Nat), Nat)
  BY NatLessThanWellFounded
<1>2. \E x \in T : \A y \in T : ~(<<y, x>> \in OpToRel(<, Nat))
  BY <1>1, WFMin, Zenon
<1> QED BY <1>2 DEF OpToRel

LEMMA AllNaturals ==
    ASSUME NEW P \in SUBSET Nat, 0 \in P, \A n \in P : n + 1 \in P
    PROVE  P = Nat
<1> SUFFICES ASSUME Nat \ P # {} PROVE FALSE
  OBVIOUS
<1>1. PICK n \in Nat \ P : \A m \in Nat \ P : ~(m < n)
  BY LeastNatural
<1>2. n - 1 \in Nat /\ n - 1 < n
  BY <1>1
<1> QED BY <1>1, <1>2

LEMMA Largest ==
    ASSUME NEW t, NEW m \in t, t \subseteq Int, \A x \in t : x <= m
    PROVE  Max(t) = m
<1>1. \E x \in t : \A y \in t : x >= y
  OBVIOUS
<1>2. Max(t) \in t /\ \A y \in t : Max(t) >= y
  BY <1>1 DEF Max
<1>3. Max(t) \in Int /\ m \in Int /\ Max(t) <= m /\ Max(t) >= m
  BY <1>2
<1> HIDE DEF Max
<1> QED BY <1>3

ReplayedFrom(g, plies) == FoldLeft(Replayed, g, plies)

InTurn(c, g, plies) ==
    /\ c[0] = g
    /\ \A k \in 0..(Len(plies) - 1) : c[k + 1] = Replayed(c[k], plies[k + 1])
    /\ ReplayedFrom(g, plies) = c[Len(plies)]

\* The fold goes through the plies one by one.
LEMMA ReplayedInTurn ==
    ASSUME NEW b, NEW E, NEW s \in Seq(E)
    PROVE  \E c : InTurn(c, b, s)
<1> DEFINE Iter(f, n) == f = [t \in SUBSET (1..n) |->
                                IF t = {} THEN b ELSE Replayed(f[t \ {Max(t)}], s[Max(t)])]
<1>1. \A n \in Nat : \E f : Iter(f, n)
  <2> DEFINE P == {n \in Nat : \E f : Iter(f, n)}
  <2>1. 0 \in P
    <3> SUFFICES Iter([t \in SUBSET (1..0) |-> b], 0)
      OBVIOUS
    <3>1. \A t \in SUBSET (1..0) : t = {}
      OBVIOUS
    <3> QED BY <3>1
  <2>2. ASSUME NEW n \in P PROVE n + 1 \in P
    <3>1. PICK f : Iter(f, n)
      OBVIOUS
    <3> DEFINE g == [t \in SUBSET (1..(n + 1)) |->
                       IF n + 1 \in t THEN Replayed(f[t \ {n + 1}], s[n + 1]) ELSE f[t]]
    <3>2. ASSUME NEW t \in SUBSET (1..(n + 1))
          PROVE  g[t] = IF t = {} THEN b ELSE Replayed(g[t \ {Max(t)}], s[Max(t)])
      <4>1. CASE n + 1 \in t
        <5>1. Max(t) = n + 1
          <6>1. t \subseteq Int /\ \A x \in t : x <= n + 1
            OBVIOUS
          <6> QED BY <4>1, <6>1, Largest
        <5>2. g[t \ {n + 1}] = f[t \ {n + 1}]
          OBVIOUS
        <5> QED BY <4>1, <5>1, <5>2
      <4>2. CASE n + 1 \notin t
        <5>1. t \in SUBSET (1..n) /\ g[t] = f[t] 
          BY <4>2
        <5>2. t \ {Max(t)} \in SUBSET (1..(n + 1)) /\ n + 1 \notin t \ {Max(t)}
          BY <4>2
        <5>3. g[t \ {Max(t)}] = f[t \ {Max(t)}]
          BY <5>2
        <5> QED BY <3>1, <5>1, <5>3
      <4> QED BY <4>1, <4>2
    <3>3. Iter(g, n + 1)
      <4> HIDE <3>1
      <4>1. g = [t \in SUBSET (1..(n + 1)) |-> g[t]]
        OBVIOUS
      <4> HIDE DEF g
      <4> QED BY <4>1, <3>2
    <3> HIDE DEF g, Iter
    <3> QED BY <3>3
  <2> HIDE DEF P
  <2>3. P = Nat
    BY <2>1, <2>2, AllNaturals DEF P
  <2> QED BY <2>3 DEF P
<1> DEFINE n == Len(s)
           iter == CHOOSE f : Iter(f, n)
           c == [k \in 0..n |-> iter[1..k]]
<1>2. n \in Nat /\ DOMAIN s = 1..n
  BY LenProperties
<1>3. ReplayedFrom(b, s) = iter[1..n]
  BY <1>2 DEF ReplayedFrom, FoldLeft, MapThenFoldSet
<1>4. Iter(iter, n)
  <2>1. \E f : Iter(f, n)
    BY <1>1, <1>2
  <2> HIDE DEF Iter
  <2> QED BY <2>1, Zenon
<1>5. c[0] = b
  <2>1. 1..0 = {}
    OBVIOUS
  <2>2. c[0] = iter[1..0] /\ {} \in SUBSET (1..n)
    BY <1>2
  <2> HIDE DEF iter
  <2> QED BY <1>4, <2>1, <2>2
<1>6. ASSUME NEW k \in 0..(n - 1) PROVE c[k + 1] = Replayed(c[k], s[k + 1])
  <2>1. Max(1..(k + 1)) = k + 1 /\ 1..(k + 1) # {}
    <3>1. k + 1 \in 1..(k + 1) /\ 1..(k + 1) \subseteq Int /\ \A x \in 1..(k + 1) : x <= k + 1
      BY <1>2
    <3> QED BY <3>1, Largest
  <2>2. (1..(k + 1)) \ {k + 1} = 1..k
    OBVIOUS
  <2>3. 1..(k + 1) \in SUBSET (1..n)
    BY <1>2
  <2>4. iter[1..(k + 1)] = Replayed(iter[1..k], s[k + 1])
    <3> HIDE DEF iter
    <3> QED BY <1>4, <2>1, <2>2, <2>3
  <2> QED BY <1>2, <2>4
<1>7. ReplayedFrom(b, s) = c[n]
  BY <1>2, <1>3
<1>8. InTurn(c, b, s)
  <2> HIDE DEF c
  <2> QED BY <1>5, <1>6, <1>7 DEF InTurn
<1> QED BY <1>8

LEMMA LeadsByReplay ==
    ASSUME NEW b, NEW c, NEW h, NEW g, Leads(b, c, h, g)
    PROVE  ReplayedFrom(b, h) = g
<1>1. PICK d : InTurn(d, b, h)
  BY ReplayedInTurn DEF Leads, IsSequence
<1>2. Len(h) \in Nat
  BY Lengths DEF Leads
<1> DEFINE P == {k \in Nat : k <= Len(h) => c[k] = d[k]}
<1>3. 0 \in P
  BY <1>1 DEF InTurn, Leads
<1>4. ASSUME NEW k \in P PROVE k + 1 \in P
  <2> SUFFICES ASSUME k + 1 <= Len(h) PROVE c[k + 1] = d[k + 1]
    OBVIOUS
  <2>1. k \in 0..(Len(h) - 1) /\ c[k] = d[k]
    BY <1>2
  <2>2. c[k + 1] = Replayed(c[k], h[k + 1])
    BY <2>1 DEF Leads
  <2>3. d[k + 1] = Replayed(d[k], h[k + 1])
    BY <1>1, <2>1 DEF InTurn
  <2> QED BY <2>1, <2>2, <2>3
<1> HIDE DEF P
<1>5. P = Nat
  BY <1>3, <1>4, AllNaturals DEF P
<1>6. c[Len(h)] = d[Len(h)]
  BY <1>2, <1>5 DEF P
<1> QED BY <1>1, <1>6 DEF InTurn, Leads

\* Taking back is exact: board, side, rights, target, fifty-move count and repetition
\* count are those of the plies that are left, however they came to be left.
THEOREM TakenBackIsExact == Spec => []UndoIsExact
<1>1. Played => UndoIsExact
  <2> SUFFICES ASSUME Played PROVE UndoIsExact
    OBVIOUS
  <2>1. ReplayedFrom(Opening(start), history) = Game
    BY LeadsByReplay DEF Played
  <2> QED BY <2>1, Zenon DEF UndoIsExact, ReplayedFrom, Opening, Game
<1> QED BY <1>1, HistoryLeadsHere, PTL
-----------------------------------------------------------------------------
(* The name of a move *)

\* A pawn's move: a step, two steps, or a capture one row on.
LEMMA PawnGoes ==
    ASSUME NEW p, IsPosition(p), NEW s \in Men(p, p.turn), p.board[s].type = "pawn",
           NEW t \in Legal(p, s), NEW ahead, ahead = pawn_forward(p.turn)
    PROVE  \/ /\ t = <<s[1] + ahead, s[2]>> /\ Free(p.board, t)
           \/ /\ t = <<s[1] + 2 * ahead, s[2]>> /\ Free(p.board, t)
              /\ Free(p.board, <<s[1] + ahead, s[2]>>)
           \/ /\ t[1] = s[1] + ahead /\ t[2] \in {s[2] - 1, s[2] + 1}
              /\ Holds(p.board, t, opponent_of(p.turn)) \/ (Free(p.board, t) /\ t = p.ep)
<1>1. s \in DOMAIN p.board /\ p.board[s].color = p.turn
  BY DEF Men
<1>2. t \in PawnMoves(p, s)
  BY DEF Legal, PseudoLegal
<1>3. s[1] \in Int /\ s[2] \in Int /\ ahead \in Int
  BY <1>1, PositionIs DEF Squares, pawn_forward
<1>4. /\ Toward(s, <<ahead, 0>>, 1) = <<s[1] + ahead, s[2]>>
      /\ Toward(s, <<ahead, 0>>, 2) = <<s[1] + 2 * ahead, s[2]>>
      /\ Toward(s, <<ahead, 1>>, 1) = <<s[1] + ahead, s[2] + 1>>
      /\ Toward(s, <<ahead, -1>>, 1) = <<s[1] + ahead, s[2] - 1>>
  BY <1>3 DEF Toward
<1>5. \/ t = Toward(s, <<ahead, 0>>, 1) /\ Free(p.board, t)
      \/ /\ t = Toward(s, <<ahead, 0>>, 2) /\ Free(p.board, t)
         /\ Free(p.board, Toward(s, <<ahead, 0>>, 1))
      \/ /\ \E c \in {-1, 1} : t = Toward(s, <<ahead, c>>, 1)
         /\ Holds(p.board, t, opponent_of(p.turn)) \/ (Free(p.board, t) /\ t = p.ep)
  BY <1>1, <1>2 DEF PawnMoves
<1>6. CASE \E c \in {-1, 1} : t = Toward(s, <<ahead, c>>, 1)
  BY <1>3, <1>4, <1>5, <1>6
<1> QED BY <1>4, <1>5, <1>6

\* The square a pawn would have to pass or stand on to step onto the target is taken.
LEMMA TargetIsBlocked ==
    ASSUME NEW p, IsPosition(p), p.ep # None, NEW ahead, ahead = pawn_forward(p.turn),
           NEW s \in Squares
    PROVE  /\ p.ep = <<s[1] + ahead, s[2]>> => s \notin Men(p, p.turn)
           /\ p.ep = <<s[1] + 2 * ahead, s[2]>> => ~Free(p.board, <<s[1] + ahead, s[2]>>)
<1> DEFINE other == opponent_of(p.turn)
           pawn == Toward(p.ep, <<pawn_forward(other), 0>>, 1)
<1>1. Man(p.board, pawn, "pawn", other)
  BY PositionIs DEF Fits
<1>2. other # p.turn /\ pawn_forward(other) = -ahead /\ ahead \in {-1, 1}
  BY PositionIs DEF opponent_of, pawn_forward, White, Black
<1>3. s[1] \in Int /\ s[2] \in Int /\ s = <<s[1], s[2]>>
  BY DEF Squares
<1>4. p.ep = <<s[1] + ahead, s[2]>> => pawn = s
  BY <1>2, <1>3 DEF Toward
<1>5. p.ep = <<s[1] + 2 * ahead, s[2]>> => pawn = <<s[1] + ahead, s[2]>>
  BY <1>2, <1>3 DEF Toward
<1> HIDE DEF other, pawn
<1>6. pawn \in DOMAIN p.board /\ p.board[pawn].color = other
  BY <1>1 DEF Man
<1>7. pawn \notin Men(p, p.turn) /\ ~Free(p.board, pawn)
  BY <1>2, <1>6 DEF Men, Free
<1> QED BY <1>4, <1>5, <1>7

\* Two pawns of a side reach a square only by captures from different files.
LEMMA PawnsApart ==
    ASSUME NEW p, IsPosition(p), NEW f \in Men(p, p.turn), p.board[f].type = "pawn",
           NEW s \in Men(p, p.turn), p.board[s].type = "pawn",
           NEW t \in Legal(p, f), t \in Legal(p, s), f[2] = t[2] \/ f[2] = s[2]
    PROVE  s = f
<1> DEFINE ahead == pawn_forward(p.turn)
<1>1. f \in Squares /\ s \in Squares /\ f \in DOMAIN p.board /\ s \in DOMAIN p.board
  BY PositionIs DEF Men
<1>2. /\ f[1] \in Int /\ f[2] \in Int /\ s[1] \in Int /\ s[2] \in Int
      /\ f = <<f[1], f[2]>> /\ s = <<s[1], s[2]>> /\ ahead \in {-1, 1}
  BY <1>1 DEF Squares, pawn_forward
<1> DEFINE Takes(x) == /\ t[1] = x[1] + ahead /\ t[2] \in {x[2] - 1, x[2] + 1}
                       /\ Holds(p.board, t, opponent_of(p.turn)) \/ (Free(p.board, t) /\ t = p.ep)
           Once(x) == t = <<x[1] + ahead, x[2]>> /\ Free(p.board, t)
           Twice(x) == /\ t = <<x[1] + 2 * ahead, x[2]>> /\ Free(p.board, t)
                       /\ Free(p.board, <<x[1] + ahead, x[2]>>)
<1> HIDE DEF ahead
<1>3. (Once(f) \/ Twice(f) \/ Takes(f)) /\ (Once(s) \/ Twice(s) \/ Takes(s))
  BY PawnGoes DEF ahead
<1>4. CASE Takes(f) /\ Takes(s)
  <2>1. f[1] = s[1] /\ f[2] # t[2]
    BY <1>2, <1>4
  <2> QED BY <1>2, <2>1
<1>5. ASSUME NEW x \in {f, s}, Once(x) \/ Twice(x), NEW y \in {f, s}, Takes(y) PROVE FALSE
  <2>1. Free(p.board, t)
    BY <1>5
  <2>2. ~Holds(p.board, t, opponent_of(p.turn))
    BY <2>1 DEF Free, Holds
  <2>3. t = p.ep
    BY <1>5, <2>2
  <2>4. p.ep # None
    BY <1>5, <2>3 DEF None
  <2>5. x \in Squares /\ x \in Men(p, p.turn)
    BY <1>1
  <2> QED BY <1>5, <2>3, <2>4, <2>5, TargetIsBlocked DEF ahead
<1>6. CASE Once(f) /\ Once(s)
  BY <1>2, <1>6
<1>7. CASE Twice(f) /\ Twice(s)
  BY <1>2, <1>7
<1>8. ASSUME NEW x \in {f, s}, Once(x), NEW y \in {f, s}, Twice(y) PROVE FALSE
  <2>1. x[1] \in Int /\ y[1] \in Int /\ x = <<x[1], x[2]>>
    BY <1>2
  <2>2. x[1] = y[1] + ahead /\ x[2] = y[2]
    BY <1>2, <1>8, <2>1
  <2>3. Free(p.board, x)
    BY <1>8, <2>1, <2>2
  <2> QED BY <1>1, <2>3 DEF Free
<1> HIDE DEF Takes, Once, Twice
<1> QED BY <1>3, <1>4, <1>5, <1>6, <1>7, <1>8

\* The hint fits the piece it is for, and no rival.
LEMMA HintTells ==
    ASSUME NEW p, IsPosition(p), NEW f \in Men(p, p.turn), NEW t \in Legal(p, f)
    PROVE  LET hint == Disambiguation(p, f, t)
               fits(s) == hint.file \in {None, <<s[2]>>} /\ hint.rank \in {None, <<s[1]>>}
           IN  fits(f) /\ \A s \in Rivals(p, f, t) : ~fits(s)
<1> DEFINE hint == Disambiguation(p, f, t)
           rivals == Rivals(p, f, t)
<1>1. \A n : <<n>> # None
  BY DEF None
<1>2. \A m, n : <<m>> = <<n>> => m = n
  OBVIOUS
<1>3. f = <<f[1], f[2]>>
  BY PositionIs DEF Men, Squares
<1>4. \A s \in rivals : s = <<s[1], s[2]>> /\ s # f
  BY PositionIs DEF Rivals, Men, Squares
<1>5. hint = IF rivals = {} THEN [file |-> None, rank |-> None]
             ELSE IF \A s \in rivals : s[2] # f[2] THEN [file |-> <<f[2]>>, rank |-> None]
             ELSE IF \A s \in rivals : s[1] # f[1] THEN [file |-> None, rank |-> <<f[1]>>]
             ELSE [file |-> <<f[2]>>, rank |-> <<f[1]>>]
  BY DEF Disambiguation
<1> HIDE DEF hint, rivals
<1>6. hint.file \in {None, <<f[2]>>} /\ hint.rank \in {None, <<f[1]>>}
  BY <1>5
<1>7. ASSUME NEW s \in rivals
      PROVE  ~(hint.file \in {None, <<s[2]>>} /\ hint.rank \in {None, <<s[1]>>})
  <2>1. CASE \A r \in rivals : r[2] # f[2]
    <3>1. hint.file = <<f[2]>> /\ f[2] # s[2]
      BY <1>5, <2>1
    <3> QED BY <1>1, <1>2, <3>1
  <2>2. CASE ~(\A r \in rivals : r[2] # f[2]) /\ \A r \in rivals : r[1] # f[1]
    <3>1. hint.rank = <<f[1]>> /\ f[1] # s[1]
      BY <1>5, <2>2
    <3> QED BY <1>1, <1>2, <3>1
  <2>3. CASE ~(\A r \in rivals : r[2] # f[2]) /\ ~(\A r \in rivals : r[1] # f[1])
    <3>1. hint.file = <<f[2]>> /\ hint.rank = <<f[1]>>
      BY <1>5, <2>3
    <3>2. s[1] # f[1] \/ s[2] # f[2]
      BY <1>3, <1>4
    <3> QED BY <1>1, <1>2, <3>1, <3>2
  <2> QED BY <2>1, <2>2, <2>3
<1> QED BY <1>6, <1>7 DEF hint, rivals

\* The name of a legal move finds the man it moves, and no other.
LEMMA NameFinds ==
    ASSUME NEW p, IsPosition(p), NEW f \in Men(p, p.turn), NEW t \in Legal(p, f)
    PROVE  Candidates(p, San(p, f, t)) = {f}
<1> DEFINE san == San(p, f, t)
           hint == IF p.board[f].type # "pawn" THEN Disambiguation(p, f, t)
                   ELSE [file |-> IF f[2] # t[2] THEN <<f[2]>> ELSE None, rank |-> None]
<1>1. san.type = p.board[f].type /\ san.target = t /\ san.hint = hint
  BY DEF San
<1> HIDE DEF san, hint
<1>2. Candidates(p, san) =
        {s \in Men(p, p.turn) :
           /\ p.board[s].type = p.board[f].type
           /\ hint.file \in {None, <<s[2]>>} /\ hint.rank \in {None, <<s[1]>>}
           /\ t \in Legal(p, s)}
  BY <1>1 DEF Candidates
<1>3. CASE p.board[f].type # "pawn"
  <2>1. hint = Disambiguation(p, f, t)
    BY <1>3 DEF hint
  <2>2. /\ hint.file \in {None, <<f[2]>>} /\ hint.rank \in {None, <<f[1]>>}
        /\ \A s \in Rivals(p, f, t) :
             ~(hint.file \in {None, <<s[2]>>} /\ hint.rank \in {None, <<s[1]>>})
    BY <2>1, HintTells
  <2>3. \A s \in Men(p, p.turn) :
          p.board[s].type = p.board[f].type /\ t \in Legal(p, s) /\ s # f
            => s \in Rivals(p, f, t)
    BY DEF Rivals
  <2> QED BY <1>2, <2>2, <2>3 DEF san
<1>4. CASE p.board[f].type = "pawn"
  <2>1. /\ hint.file = IF f[2] # t[2] THEN <<f[2]>> ELSE None
        /\ hint.rank = None
    BY <1>4 DEF hint
  <2>2. ASSUME NEW s \in Men(p, p.turn), p.board[s].type = "pawn", t \in Legal(p, s),
               hint.file \in {None, <<s[2]>>}
        PROVE  s = f
    <3>1. f[2] = t[2] \/ f[2] = s[2]
      BY <2>1, <2>2 DEF None
    <3> QED BY <1>4, <2>2, <3>1, PawnsApart
  <2>3. hint.file \in {None, <<f[2]>>} /\ hint.rank \in {None, <<f[1]>>}
    BY <2>1
  <2> QED BY <1>2, <1>4, <2>1, <2>2, <2>3 DEF san
<1> QED BY <1>3, <1>4

\* Every legal move is named so that its name finds it again, and nothing else.
THEOREM NamesResolve == Spec => []SanResolves
<1>1. Played => SanResolves
  <2> SUFFICES ASSUME Played, ~Pending PROVE SanResolves
    BY DEF SanResolves
  <2>1. IsGame(Game)
    BY PendingIs DEF Played, Leads
  <2>2. IsPosition(pos)
    BY <2>1 DEF IsGame, Game, Sound
  <2> QED BY <2>2, NameFinds DEF SanResolves
<1> QED BY <1>1, HistoryLeadsHere, PTL
=============================================================================
