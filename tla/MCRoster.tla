------------------------------ MODULE MCRoster ------------------------------
(* The tasks are interchangeable. *)
EXTENDS Roster, TLC

Symmetry == Permutations(Tasks)
=============================================================================
