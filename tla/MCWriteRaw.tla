------------------------------ MODULE MCWriteRaw ----------------------------
(* Values for the constants of WriteRaw: a key typed by the user, and printed
   strings that fill a line and that do not fit in one. *)
EXTENDS WriteRaw

MCStrings == {<<"k">>, <<"a", "b">>, <<"p", "q", "r">>}
=============================================================================
