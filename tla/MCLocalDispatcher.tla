-------------------------- MODULE MCLocalDispatcher --------------------------
(***************************************************************************)
(* Small instances of LocalDispatcher for TLC.                             *)
(***************************************************************************)
EXTENDS LocalDispatcher
=============================================================================
