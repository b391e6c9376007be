--------------------------- MODULE MCClientConn ---------------------------
(* ClientConn for TLC: the identities of attempts are interchangeable. *)
EXTENDS ClientConn, TLC

ConnSymmetry == Permutations(Conns)
============================================================================
