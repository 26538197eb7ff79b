----------------------------- MODULE MCPyEditor -----------------------------
(* Values for the constants of PyEditor. *)
EXTENDS PyEditor, TLC

(* One text has another as its form with plain newlines. *)
MCNormal == [t \in Texts |-> IF t = "t-crlf" THEN "t" ELSE t]

(* No name is special: the editor treats all files alike. *)
MCSymmetry == Permutations(Files)
=============================================================================
