--------------------------- MODULE MCDaemonTokens ---------------------------
(***************************************************************************)
(* Small instances of DaemonTokens for TLC.                                *)
(***************************************************************************)
EXTENDS DaemonTokens
=============================================================================
