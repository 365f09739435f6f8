-------------------------------- MODULE Board --------------------------------
(***************************************************************************)
(* The chess engine: a position, the plies that reached it, the repetition *)
(* count and the remembered verdict on whether the side to move is stuck.  *)
(* Moves are generated from the board as the engine does it, a ply is      *)
(* applied, finished and taken back, and a promotion waits in between for  *)
(* its piece.                                                              *)
(*                                                                         *)
(* A board is the function of its occupied squares; row 0 is Black's back  *)
(* rank.  The clock is in ChessClock.  A game starts from a position that  *)
(* was loaded, whose rights and en-passant target fit its board, as those  *)
(* of every position a game has reached do.                                *)
(***************************************************************************)
EXTENDS Integers, SequencesExt, Bags

CONSTANTS
    Positions,      \* positions a game may start from
    MaxPlies        \* bound: plies on the board at once

White == "white"
Black == "black"
opponent_of(color) == IF color = White THEN Black ELSE White
pawn_forward(color) == IF color = White THEN -1 ELSE 1
pawn_start_row(color) == IF color = White THEN 6 ELSE 1
king_home_row(color) == IF color = White THEN 7 ELSE 0

Squares == (0..7) \X (0..7)
None == <<>>
NoPiece == [type |-> "none", color |-> "none"]
Forgotten == [plies |-> -1, stuck |-> FALSE]    \* a _legal_move_memo of None

FIFTY_MOVE_HALFMOVES == 100

\* The square a right is lost with, and whose it is.
Corner == [WK |-> <<7, 7>>, WQ |-> <<7, 0>>, BK |-> <<0, 7>>, BQ |-> <<0, 0>>]
RightsOf(color) == IF color = White THEN {"WK", "WQ"} ELSE {"BK", "BQ"}

Straight == {<<-1, 0>>, <<1, 0>>, <<0, -1>>, <<0, 1>>}
Diagonal == {<<-1, -1>>, <<-1, 1>>, <<1, -1>>, <<1, 1>>}
Jumps == {d \in (-2..2) \X (-2..2) : d[1] * d[1] + d[2] * d[2] = 5}

VARIABLES
    start,      \* observer: the position the game started from
    pos,        \* state, turn, castling_rights, en_passant_target, halfmove_clock
    history,    \* move_history
    counts,     \* position_counts
    memo        \* _legal_move_memo

vars == <<start, pos, history, counts, memo>>

Key(p) == <<p.board, p.turn, p.rights, p.ep>>

-----------------------------------------------------------------------------
(* Where a piece may go *)

Toward(sq, d, n) == <<sq[1] + n * d[1], sq[2] + n * d[2]>>
Free(board, sq) == sq \in Squares /\ sq \notin DOMAIN board
Man(board, sq, type, color) ==
    sq \in DOMAIN board /\ board[sq] = [type |-> type, color |-> color]
Holds(board, sq, color) == sq \in DOMAIN board /\ board[sq].color = color

Stepping(board, sq, D) ==
    {t \in {Toward(sq, d, 1) : d \in D} : t \in Squares /\ ~Holds(board, t, board[sq].color)}

\* Up to the edge, short of a friendly piece, not past a capture.
Sliding(board, sq, D) ==
    LET open(d, n) == /\ Toward(sq, d, n) \in Squares
                      /\ ~Holds(board, Toward(sq, d, n), board[sq].color)
                      /\ \A k \in 1..(n - 1) : Free(board, Toward(sq, d, k))
    IN  UNION {{Toward(sq, d, n) : n \in {k \in 1..7 : open(d, k)}} : d \in D}

PawnMoves(p, sq) ==
    LET color == p.board[sq].color
        ahead(n) == Toward(sq, <<pawn_forward(color), 0>>, n)
        diagonals == {Toward(sq, <<pawn_forward(color), c>>, 1) : c \in {-1, 1}}
    IN  {t \in {ahead(1)} : Free(p.board, t)}
        \cup {t \in {ahead(2)} : sq[1] = pawn_start_row(color)
                                  /\ Free(p.board, ahead(1)) /\ Free(p.board, t)}
        \cup {t \in diagonals : Holds(p.board, t, opponent_of(color))
                                  \/ (Free(p.board, t) /\ t = p.ep)}

\* What a piece other than a pawn attacks; a king's castling is not among it.
Reach(board, sq) ==
    LET type == board[sq].type
    IN  CASE type = "king" -> Stepping(board, sq, Straight \cup Diagonal)
          [] type = "knight" -> Stepping(board, sq, Jumps)
          [] type = "bishop" -> Sliding(board, sq, Diagonal)
          [] type = "rook" -> Sliding(board, sq, Straight)
          [] OTHER -> Sliding(board, sq, Straight \cup Diagonal)

Attacked(board, sq, by) ==
    \E a \in {s \in DOMAIN board : board[s].color = by} :
        IF board[a].type = "pawn"
        THEN \E c \in {-1, 1} : sq = Toward(a, <<pawn_forward(by), c>>, 1)
        ELSE sq \in Reach(board, a)

KingSquare(board, color) == CHOOSE s \in DOMAIN board : Man(board, s, "king", color)
InCheck(board, color) == Attacked(board, KingSquare(board, color), opponent_of(color))

CastlingMoves(p, sq) ==
    LET color == p.board[sq].color
        home == king_home_row(color)
        safe(C) == \A c \in C : ~Attacked(p.board, <<home, c>>, opponent_of(color))
        clear(C) == \A c \in C : Free(p.board, <<home, c>>)
        may(side) == {r \in p.rights \cap RightsOf(color) : r \in side} # {}
    IN  IF sq # <<home, 4>> \/ InCheck(p.board, color) THEN {}
        ELSE {t \in {<<home, 6>>} : may({"WK", "BK"}) /\ clear({5, 6}) /\ safe({5, 6})}
             \cup {t \in {<<home, 2>>} : may({"WQ", "BQ"}) /\ clear({1, 2, 3}) /\ safe({2, 3})}

PseudoLegal(p, sq) ==
    LET type == p.board[sq].type
    IN  CASE type = "pawn" -> PawnMoves(p, sq)
          [] type = "king" -> Reach(p.board, sq) \cup CastlingMoves(p, sq)
          [] OTHER -> Reach(p.board, sq)

IsEnPassant(p, f, t) == p.board[f].type = "pawn" /\ t = p.ep /\ t[2] # f[2]
IsCastling(p, f, t) ==
    /\ p.board[f].type = "king" /\ f = <<king_home_row(p.board[f].color), 4>>
    /\ t[2] - f[2] \in {-2, 2}

Without(board, S) == [s \in DOMAIN board \ S |-> board[s]]
Put(board, sq, piece) == [s \in DOMAIN board \cup {sq} |-> IF s = sq THEN piece ELSE board[s]]
Carry(board, f, t) == Put(Without(board, {f}), t, board[f])

\* The square of the pawn an en-passant capture takes off.
Passed(f, t) == <<f[1], t[2]>>

\* The piece moves, and what it captures comes off, in passing too.
Landed(p, f, t) ==
    LET board == IF IsEnPassant(p, f, t) THEN Without(p.board, {Passed(f, t)}) ELSE p.board
    IN  Carry(board, f, t)

\* Mutant of Tried: the pawn taken in passing is left to block.
TriedBlocked(p, f, t) == Carry(p.board, f, t)

\* The board a move is judged on: a castling rook has not moved yet.
Tried(p, f, t) == Landed(p, f, t)

Legal(p, sq) ==
    {t \in PseudoLegal(p, sq) : ~InCheck(Tried(p, sq, t), p.board[sq].color)}

Men(p, color) == {s \in DOMAIN p.board : p.board[s].color = color}
NoLegalMoves(p) == \A s \in Men(p, p.turn) : Legal(p, s) = {}

-----------------------------------------------------------------------------
(* The name of a move, as it goes into a saved game and to a client that comes back *)

Rivals(p, f, t) ==
    {s \in Men(p, p.turn) \ {f} : p.board[s].type = p.board[f].type /\ t \in Legal(p, s)}

\* Mutant of Disambiguation: the file is enough as soon as one rival is on another.
DisambiguationByOne(p, f, t) ==
    LET rivals == Rivals(p, f, t)
    IN  IF rivals = {} THEN [file |-> None, rank |-> None]
        ELSE IF \E s \in rivals : s[2] # f[2] THEN [file |-> <<f[2]>>, rank |-> None]
        ELSE [file |-> None, rank |-> <<f[1]>>]

\* The file alone if that tells the piece from its rivals, else the rank alone, else both.
Disambiguation(p, f, t) ==
    LET rivals == Rivals(p, f, t)
    IN  IF rivals = {} THEN [file |-> None, rank |-> None]
        ELSE IF \A s \in rivals : s[2] # f[2] THEN [file |-> <<f[2]>>, rank |-> None]
        ELSE IF \A s \in rivals : s[1] # f[1] THEN [file |-> None, rank |-> <<f[1]>>]
        ELSE [file |-> <<f[2]>>, rank |-> <<f[1]>>]

\* A pawn that takes is named by its file, any other pawn by nothing.
San(p, f, t) ==
    [type |-> p.board[f].type, target |-> t,
     hint |-> IF p.board[f].type # "pawn" THEN Disambiguation(p, f, t)
              ELSE [file |-> IF f[2] # t[2] THEN <<f[2]>> ELSE None, rank |-> None]]

\* apply_san: the men a name may mean; it is played if that is one.
Candidates(p, san) ==
    {s \in Men(p, p.turn) :
        /\ p.board[s].type = san.type
        /\ san.hint.file \in {None, <<s[2]>>} /\ san.hint.rank \in {None, <<s[1]>>}
        /\ san.target \in Legal(p, s)}

-----------------------------------------------------------------------------
(* How a position ends the game *)

InsufficientMaterial(board) ==
    LET men == {s \in DOMAIN board : board[s].type # "king"}
        of(color) == {s \in men : board[s].color = color}
        knights(S) == \A s \in S : board[s].type = "knight"
        shade(s) == (s[1] + s[2]) % 2
    IN  \/ men = {}
        \/ Cardinality(men) = 1 /\ \A s \in men : board[s].type \in {"bishop", "knight"}
        \/ Cardinality(men) = 2 /\ knights(men)
        \/ /\ Cardinality(of(White)) = 1 /\ Cardinality(of(Black)) = 1
           /\ \A s \in men : board[s].type = "bishop"
           /\ \A s, u \in men : shade(s) = shade(u)

\* game_result, in the order it asks, the flag left to the clock.
Result ==
    IF NoLegalMoves(pos)
    THEN IF InCheck(pos.board, pos.turn) THEN "checkmate" ELSE "stalemate"
    ELSE IF InsufficientMaterial(pos.board) THEN "material"
    ELSE IF \E k \in BagToSet(counts) : counts[k] >= 3 THEN "repetition"
    ELSE IF pos.half >= FIFTY_MOVE_HALFMOVES THEN "fifty moves"
    ELSE "none"

-----------------------------------------------------------------------------
(* A ply *)

Captured(p, f, t) ==
    LET sq == IF IsEnPassant(p, f, t) THEN Passed(f, t) ELSE t
    IN  IF sq \in DOMAIN p.board THEN p.board[sq] ELSE NoPiece

RookFrom(f, t) == <<f[1], IF t[2] = 6 THEN 7 ELSE 0>>
RookTo(f, t) == <<f[1], IF t[2] = 6 THEN 5 ELSE 3>>

Kind(p, f, t) ==
    IF IsCastling(p, f, t) THEN "castle"
    ELSE IF IsEnPassant(p, f, t) THEN "passant"
    ELSE IF p.board[f].type = "pawn" /\ t[1] \in {0, 7} THEN "promotion" ELSE "normal"

\* A castle moves its rook as well.
Applied(p, f, t) ==
    LET board == Landed(p, f, t)
    IN  IF IsCastling(p, f, t) THEN Carry(board, RookFrom(f, t), RookTo(f, t)) ELSE board

\* Mutant of RightsAfter: a rook taken at home leaves its owner the right.
RightsAfterOwnMove(p, move) ==
    {r \in p.rights : /\ ~(move.piece.type = "king" /\ r \in RightsOf(move.piece.color))
                      /\ Corner[r] # move.from}

RightsAfter(p, move) ==
    {r \in p.rights : /\ ~(move.piece.type = "king" /\ r \in RightsOf(move.piece.color))
                      /\ Corner[r] \notin {move.from, move.to}}

\* What follows from a ply that has landed, the board being p's.
Finished(p, move) ==
    [p EXCEPT
        !.rights = RightsAfter(p, move),
        !.ep = IF move.piece.type = "pawn" /\ move.to[1] - move.from[1] \in {-2, 2}
               THEN <<(move.from[1] + move.to[1]) \div 2, move.from[2]>> ELSE None,
        !.half = IF move.piece.type = "pawn" \/ move.captured # NoPiece THEN 0 ELSE @ + 1,
        !.turn = opponent_of(@)]

\* The history entry of a move that lands on p, with the state before it.
Entry(p, f, t) ==
    [from |-> f, to |-> t, piece |-> p.board[f], captured |-> Captured(p, f, t),
     kind |-> Kind(p, f, t), became |-> NoPiece.type, key |-> None,
     rights |-> p.rights, ep |-> p.ep, half |-> p.half]

Pending == history # <<>> /\ Last(history).key = None

\* _finalize_move, on the board the ply has left.
Finalize(board, earlier, entry) ==
    LET p == Finished([pos EXCEPT !.board = board], entry)
    IN  /\ pos' = p
        /\ history' = Append(earlier, [entry EXCEPT !.key = Key(p)])
        /\ counts' = counts (+) SetToBag({Key(p)})
        /\ memo' = [plies |-> Len(history'), stuck |-> NoLegalMoves(p)]

\* A move of the side to move; who plays names the piece of a promotion before the next.
TryMove ==
    /\ Result = "none" /\ ~Pending /\ Len(history) < MaxPlies
    /\ \E f \in Men(pos, pos.turn) : \E t \in Legal(pos, f) :
         LET entry == Entry(pos, f, t)
         IN  IF entry.kind = "promotion"
             THEN /\ pos' = [pos EXCEPT !.board = Applied(pos, f, t)]
                  /\ history' = Append(history, entry)
                  /\ UNCHANGED <<counts, memo>>
             ELSE Finalize(Applied(pos, f, t), history, entry)
    /\ UNCHANGED start

Promote(type) ==
    /\ Pending
    /\ LET entry == Last(history)
           piece == [type |-> type, color |-> entry.piece.color]
       IN  Finalize(Put(pos.board, entry.to, piece), Front(history),
                    [entry EXCEPT !.became = type])
    /\ UNCHANGED start

\* Mutant of Restored: what was taken comes back where the capturing piece had landed.
RestoredInPlace(board, e) ==
    LET back == Put(Without(board, {e.to}), e.from, e.piece)
    IN  CASE e.kind = "castle" -> Carry(back, RookTo(e.from, e.to), RookFrom(e.from, e.to))
          [] OTHER -> IF e.captured = NoPiece THEN back ELSE Put(back, e.to, e.captured)

\* The pieces as they stood before the ply of an entry.
Restored(board, e) ==
    LET back == Put(Without(board, {e.to}), e.from, e.piece)
    IN  CASE e.kind = "castle" -> Carry(back, RookTo(e.from, e.to), RookFrom(e.from, e.to))
          [] e.kind = "passant" -> Put(back, Passed(e.from, e.to), e.captured)
          [] OTHER -> IF e.captured = NoPiece THEN back ELSE Put(back, e.to, e.captured)

\* Mutant of Undo: the remembered verdict is kept.
UndoRemembering ==
    /\ history # <<>>
    /\ LET e == Last(history)
           board == Restored(pos.board, e)
       IN  /\ history' = Front(history)
           /\ IF e.key = None
              THEN pos' = [pos EXCEPT !.board = board] /\ UNCHANGED counts
              ELSE /\ pos' = [board |-> board, turn |-> opponent_of(pos.turn),
                              rights |-> e.rights, ep |-> e.ep, half |-> e.half]
                   /\ counts' = counts (-) SetToBag({e.key})
    /\ UNCHANGED <<start, memo>>

\* A pending promotion is dropped; a finished ply is unwound with all it settled.
Undo ==
    /\ history # <<>>
    /\ LET e == Last(history)
           board == Restored(pos.board, e)
       IN  /\ history' = Front(history)
           /\ IF e.key = None
              THEN pos' = [pos EXCEPT !.board = board] /\ UNCHANGED counts
              ELSE /\ pos' = [board |-> board, turn |-> opponent_of(pos.turn),
                              rights |-> e.rights, ep |-> e.ep, half |-> e.half]
                   /\ counts' = counts (-) SetToBag({e.key})
    /\ memo' = Forgotten
    /\ UNCHANGED start

\* tick_clock asks whether the side to move is stuck, by the remembered verdict if it is
\* this ply count's.
Tick ==
    /\ memo.plies # Len(history)
    /\ memo' = [plies |-> Len(history), stuck |-> NoLegalMoves(pos)]
    /\ UNCHANGED <<start, pos, history, counts>>

Init ==
    /\ start \in Positions
    /\ pos = start /\ history = <<>>
    /\ counts = SetToBag({Key(start)})
    /\ memo = Forgotten

Next ==
    \/ TryMove
    \/ \E type \in {"queen", "rook", "bishop", "knight"} : Promote(type)
    \/ Undo \/ Tick

Spec == Init /\ [][Next]_vars

-----------------------------------------------------------------------------
(* Properties *)

\* A right has its king and its rook at home; an en-passant target is empty, with the
\* pawn that made it just beyond.
Fits(p) ==
    /\ \A color \in {White, Black} : \A r \in p.rights \cap RightsOf(color) :
         /\ Man(p.board, <<king_home_row(color), 4>>, "king", color)
         /\ Man(p.board, Corner[r], "rook", color)
    /\ p.ep # None =>
         LET mover == opponent_of(p.turn)
         IN  /\ Free(p.board, p.ep)
             /\ Man(p.board, Toward(p.ep, <<pawn_forward(mover), 0>>, 1), "pawn", mover)

Types == {"king", "queen", "rook", "bishop", "knight", "pawn"}
Pieces == [type : Types, color : {White, Black}]

\* A position there is a game from: men on squares, one king on each side.
IsPosition(p) ==
    /\ p \in [board : {p.board}, turn : {White, Black}, rights : SUBSET DOMAIN Corner,
              ep : {None} \cup Squares, half : Nat]
    /\ p.board \in [DOMAIN p.board -> Pieces] /\ DOMAIN p.board \subseteq Squares
    /\ \A color \in {White, Black} : \E k \in DOMAIN p.board :
         \A s \in DOMAIN p.board : Man(p.board, s, "king", color) <=> s = k
    /\ Fits(p)

ASSUME PositionsAssumption ==
    /\ MaxPlies \in Nat
    /\ \A p \in Positions : IsPosition(p) /\ ~InCheck(p.board, opponent_of(p.turn))

\* However plies are played, promoted, left pending and taken back, the rights and the
\* target agree with the pieces on the board.
RightsFitBoard == ~Pending => Fits(pos)

\* Nobody has ever moved into check, or been left in it by a pawn taken in passing.
KingsSafe ==
    ~InCheck(pos.board, IF Pending THEN pos.turn ELSE opponent_of(pos.turn))

\* The game from its start by a ply of the history, nothing ever taken back.
Replayed(g, e) ==
    LET moved == Applied(g.pos, e.from, e.to)
        board == IF e.became = NoPiece.type THEN moved
                 ELSE Put(moved, e.to, [type |-> e.became, color |-> e.piece.color])
        p == Finished([g.pos EXCEPT !.board = board], e)
    IN  IF e.key = None THEN [g EXCEPT !.pos.board = moved]
        ELSE [pos |-> p, counts |-> g.counts (+) SetToBag({Key(p)})]

\* Taking back is exact: board, side, rights, target, fifty-move count and repetition
\* count are those of the plies that are left, however they came to be left.
UndoIsExact ==
    [pos |-> pos, counts |-> counts]
      = FoldLeft(Replayed, [pos |-> start, counts |-> SetToBag({Key(start)})], history)

\* The verdict the clock is charged by is that of the position on the board.
MemoIsFresh ==
    memo.plies = Len(history) => memo.stuck = NoLegalMoves(pos)

\* Every legal move is named so that its name finds it again, and nothing else: saved
\* games and reconnecting clients are rebuilt from names.
SanResolves ==
    ~Pending => \A f \in Men(pos, pos.turn) : \A t \in Legal(pos, f) :
        IsCastling(pos, f, t) \/ Candidates(pos, San(pos, f, t)) = {f}
=============================================================================
