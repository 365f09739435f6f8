----------------------------- MODULE MCSessions -----------------------------
(* Sessions for TLC: two players, two coroutines sending at once. *)
EXTENDS Sessions, TLC

Interchangeable == Permutations(Tasks) \cup Permutations(Players)

\* A ply that decides its board is followed in the first game only: in a rematch a
\* game ends by everything else.
PlainRematch == game = 1 \/ \A t \in Tasks : ~task[t].decided
=============================================================================
