------------------------------ MODULE PathNames -----------------------------
(***************************************************************************)
(* Absolute paths, as sequences of names; names are numbers, ordered.      *)
(* abspath(), _join() and _parent() of the Python modules work on these.   *)
(***************************************************************************)
EXTENDS Integers, Sequences, SequencesExt

Prefix(p, n) == SubSeq(p, 1, n)
Parent(p)    == Prefix(p, Len(p) - 1)

(* p is a path in the folder q, at any depth, or q itself. *)
Within(p, q) == Len(q) <= Len(p) /\ Prefix(p, Len(q)) = q

(* Where p goes when the folder old that it lies in becomes new. *)
Rebase(p, old, new) == new \o SubSeq(p, Len(old) + 1, Len(p))

(* sorted(): a folder before what it holds, names in order. *)
Before(p, q) ==
    \/ Within(q, p) /\ p # q
    \/ \E n \in 1 .. Len(p) :
           n <= Len(q) /\ Prefix(p, n - 1) = Prefix(q, n - 1) /\ p[n] < q[n]
=============================================================================
