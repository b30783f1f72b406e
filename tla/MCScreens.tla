------------------------------ MODULE MCScreens ------------------------------
(***************************************************************************)
(* A small instance of Screens for TLC.                                    *)
(***************************************************************************)
EXTENDS Screens, TLC

CONSTANTS c1, c2, o1, o2

OneName    == [p \in Products |-> 1]
OneProduct == [p \in Products |-> IF p = 1 THEN 1 ELSE Absent]

AnyNames == Permutations(Clients) \cup Permutations(OrderIds)
=============================================================================
