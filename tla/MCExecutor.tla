----------------------------- MODULE MCExecutor -----------------------------
(***************************************************************************)
(* Small instances of Executor for TLC.                                    *)
(***************************************************************************)
EXTENDS Executor, TLC

Symmetry == Permutations(Waiters) \cup Permutations(Pids) \cup Permutations(Grants)
=============================================================================
