------------------------------ MODULE MCPackets ------------------------------
(***************************************************************************)
(* Small instances of Packets for TLC.                                     *)
(***************************************************************************)
EXTENDS Packets

Answers == {<<1>>, <<1, 2>>, <<MaxPayload, 0>>, <<MaxPayload, 1>>}
=============================================================================
