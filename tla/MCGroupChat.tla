---------------------------- MODULE MCGroupChat ----------------------------
(* The identities of the sends in progress are interchangeable.             *)
EXTENDS GroupChat, TLC
CallSymmetry == Permutations(Calls)
=============================================================================
