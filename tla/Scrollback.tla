------------------------------ MODULE Scrollback ----------------------------
(***************************************************************************)
(* What the console promises: numbered lines of which only the last one    *)
(* changes, and of which the oldest ones are forgotten, whole, to stay     *)
(* within a number of lines and a number of bytes.  No array, no rotation, *)
(* no running totals, no memory; a line is the length of its text.         *)
(***************************************************************************)
EXTENDS Sums

CONSTANTS LineMax, Capacity, BacklogSize

VARIABLES
    first, last,  \* numbers of the oldest and of the last line
    text          \* text[a]: length of line a

svars == <<first, last, text>>

(* Bytes in the lines a .. z of t. *)
Bytes(t, a, z) == SumTo([k \in 0 .. z - a |-> t[a + k]], z - a + 1)

(* Whether the limits allow to keep the lines a .. z of t. *)
Fits(t, a, z) ==
    /\ z - a + 1 <= Capacity
    /\ a = z \/ Bytes(t, a, z) <= BacklogSize

(* The lines of t from a on. *)
Suffix(t, a, z) == [k \in a .. z |-> t[k]]

SInit == first = 1 /\ last = 1 /\ text = [a \in {1} |-> 0]

(* The last line gets any length that fits in a line. *)
EditLast(n) ==
    /\ text' = [text EXCEPT ![last] = n]
    /\ UNCHANGED <<first, last>>

(* The last line ends with n characters, an empty one follows, and of all the
   lines as many are kept as fit. *)
StartLine(n) ==
    LET z == last + 1
        t == [a \in first .. z |-> IF a = z THEN 0
                                   ELSE IF a = last THEN n ELSE text[a]]
    IN  /\ last' = z
        /\ first' \in first .. z
        /\ Fits(t, first', z)
        /\ \A c \in first .. first' - 1 : ~Fits(t, c, z)
        /\ text' = Suffix(t, first', z)

(* Everything is forgotten and an empty line started. *)
Clear ==
    /\ last' = last + 1
    /\ first' = last + 1
    /\ text' = [a \in {last + 1} |-> 0]

(* The console is gone. *)
Close == first' = 1 /\ last' = 0 /\ text' = Suffix(text, 1, 0)

SNext ==
    /\ first <= last
    /\ (\E n \in 0 .. LineMax : EditLast(n) \/ StartLine(n)) \/ Clear \/ Close

SSpec == SInit /\ [][SNext]_svars
=============================================================================
