---------------------------- MODULE MCAppSession ----------------------------
(***************************************************************************)
(* Small instances of AppSession for TLC.                                  *)
(***************************************************************************)
EXTENDS AppSession, TLC
=============================================================================
