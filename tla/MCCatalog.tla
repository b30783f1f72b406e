------------------------------ MODULE MCCatalog ------------------------------
(***************************************************************************)
(* A small instance of Catalog for TLC.                                    *)
(***************************************************************************)
EXTENDS Catalog

CONSTANTS c1, c2, NoText

form(n, d) == [category |-> n, defect |-> d]

SomeForms == {form(1, "none"), form(1, "number"), form(NoText, "none")}
SomeFiles == {<<form(2, "name"), form(1, "none")>>}
=============================================================================
