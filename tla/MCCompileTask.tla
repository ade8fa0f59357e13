--------------------------- MODULE MCCompileTask ---------------------------
(***************************************************************************)
(* Two requests for two sources, the first of which uses __TIME__ and may  *)
(* be cached, and for two compilers, the first of which is upgraded to the *)
(* second.                                                                 *)
(***************************************************************************)
EXTENDS CompileTask, TLC

CONSTANTS t1, t2, timed, plain, args1

TwoRequests ==
    (t1 :> [source |-> timed, args |-> args1, digest |-> 1, fill |-> TRUE]) @@
    (t2 :> [source |-> plain, args |-> args1, digest |-> 2, fill |-> FALSE])
====
