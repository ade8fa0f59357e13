----------------------------- MODULE MCDataPath -----------------------------
(***************************************************************************)
(* Small instances of DataPath for TLC.                                    *)
(***************************************************************************)
EXTENDS DataPath

\* No file (-fsyntax-only), an object, an object after its coverage notes, one
\* with a file whose suffix is empty, and one with a comma in a suffix.
SomeProducts == {<<>>, <<".o">>, <<".gcno", ".o">>, <<"", ".o">>, <<".o", ".a,b">>}

SomeParts ==
    [suffix \in {".o", ".gcno"} |-> <<suffix>>] @@
    ("" :> <<>>) @@ (".a,b" :> <<".a", "b">>)
=============================================================================
