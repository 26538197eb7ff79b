------------------------------ MODULE MCConsole -----------------------------
(* Values for the constants of Console. *)
EXTENDS ConsoleRefines

(* One character is one pixel wide in the small font and two in the large. *)
MCColumns ==
    [fw \in Fonts \X Widths |-> IF fw[1] = "small" THEN fw[2] ELSE fw[2] \div 2]
=============================================================================
