------------------------------ MODULE MCClient ------------------------------
(***************************************************************************)
(* Small instances of Client for TLC.                                      *)
(***************************************************************************)
EXTENDS Client

\* c1 may compile in the cloud, c2 links and so compiles here.
OneCloudJob ==
    [c \in Clients |-> [options |-> IF c = "c1" THEN {"-c"} ELSE {},
                        files |-> <<"c++">>, hashed |-> TRUE]]
=============================================================================
