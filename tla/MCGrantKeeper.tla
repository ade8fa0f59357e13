---------------------------- MODULE MCGrantKeeper ----------------------------
(***************************************************************************)
(* Small instances of GrantKeeper for TLC.                                 *)
(***************************************************************************)
EXTENDS GrantKeeper
=============================================================================
