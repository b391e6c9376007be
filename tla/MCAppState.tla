---------------------------- MODULE MCAppState -----------------------------
(* The calls in progress are interchangeable.                               *)
EXTENDS AppState, TLC
TaskSymmetry == Permutations(Tasks)
=============================================================================
