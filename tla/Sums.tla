-------------------------------- MODULE Sums --------------------------------
(***************************************************************************)
(* Finite sums.  The rotating line buffer keeps running totals (bytes of   *)
(* text, rendered rows) that the C code updates line by line; the model    *)
(* states them as sums of a function over an initial segment 0 .. n-1.     *)
(*                                                                         *)
(* SumTo is a recursive function, not a RECURSIVE operator, so that TLAPS  *)
(* can reason about it (module SumTheorems).                               *)
(***************************************************************************)
EXTENDS Integers

(* f[0] + f[1] + ... + f[n-1] *)
SumTo(f, n) ==
    LET s[k \in 0 .. n] == IF k = 0 THEN 0 ELSE s[k - 1] + f[k - 1]
    IN  s[n]

min(a, b) == IF a <= b THEN a ELSE b
max(a, b) == IF a >= b THEN a ELSE b
=============================================================================
