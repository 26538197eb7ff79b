------------------------------- MODULE MCFiles ------------------------------
(* Values for the constants of Files: /1 with /1/1, which as a folder may be
   copied or moved whole into /2, and a read-only and a write-only mode.  The
   path of a file cut short may read as its folder's. *)
EXTENDS Files

MCPaths == {<<1>>, <<2>>, <<1, 1>>, <<2, 1>>, <<2, 1, 1>>}
MCModes == {{"r"}, {"w"}}
MCStems == [p \in MCPaths |-> IF Len(p) > 1 THEN {Parent(p)} ELSE {}]
=============================================================================
