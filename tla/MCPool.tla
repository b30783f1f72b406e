------------------------------- MODULE MCPool -------------------------------
(***************************************************************************)
(* Small instances of Pool for TLC.                                        *)
(***************************************************************************)
EXTENDS Pool, TLC

CONSTANTS t1, t2, t3, c1, c2, c3

AnyThreadAnyConn == Permutations(Threads) \cup Permutations(Conns)
=============================================================================
