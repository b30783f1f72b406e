------------------------------ MODULE MCStoreSQL ------------------------------
(***************************************************************************)
(* Small instances of StoreSQL for TLC.                                    *)
(***************************************************************************)
EXTENDS StoreSQL, TLC

CONSTANTS c1, c2, p1, p2

line(p, q) == [product |-> p, qty |-> q]

OneOfP1  == {<<line(p1, 1)>>}
Singles  == {<<line(p1, 1)>>, <<line(p2, 1)>>}
Crossing == {<<line(p1, 1), line(p2, 1)>>, <<line(p2, 1), line(p1, 1)>>}
Baskets  == {<<line(p1, 1), line(p2, 1)>>, <<line(p1, 1), line(p1, 1)>>,
             <<line(p1, 1), line(p2, 0)>>}

TwoOfP1   == (p1 :> 2) @@ (p2 :> Absent)
OneOfEach == (p1 :> 1) @@ (p2 :> 1)

AnyClient == Permutations(Clients)
=============================================================================
