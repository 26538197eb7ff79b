------------------------------- MODULE WriteRaw -----------------------------
(***************************************************************************)
(* console_write_raw() with the characters that it writes.  Console has    *)
(* only the length of a line, which is all that its memory, its totals and *)
(* its layout depend on; which part of the string ends up on which line is *)
(* a matter of the loop alone, and is looked at here.  The cursor is at    *)
(* the end of the line, where printing leaves it.                          *)
(***************************************************************************)
EXTENDS Naturals, Sequences, SequencesExt, FiniteSetsExt

CONSTANTS
    LineMax,    \* characters in a line, 1024 in the program
    Strings,    \* strings that are written: sequences of characters, not empty
    MaxWrites   \* bound of the model: calls of console_write_raw()

VARIABLES
    lines,   \* the text of every line, the one under edition last
    str, n,  \* the arguments, as the loop leaves them
    given    \* history: the strings given so far

vars == <<lines, str, n, given>>

Init == lines = <<<<>>>> /\ str = <<>> /\ n = 0 /\ given = <<>>

console_write_raw(s) ==
    /\ n = 0 /\ Len(given) < MaxWrites
    /\ str' = s /\ n' = Len(s)
    /\ given' = Append(given, s)
    /\ UNCHANGED lines

(* One iteration: as many characters as the line has room for are inserted,
   and a new line follows if some are left.  str is not moved forward. *)
write_round ==
    LET round_size == Min({n, LineMax - Len(Last(lines))})
        filled     == Front(lines) \o <<Last(lines) \o SubSeq(str, 1, round_size)>>
    IN  /\ n > 0
        /\ lines' = IF round_size < n THEN Append(filled, <<>>) ELSE filled
        /\ n' = n - round_size
        /\ UNCHANGED <<str, given>>

Next == write_round \/ \E s \in Strings : console_write_raw(s)

Spec == Init /\ [][Next]_vars

-----------------------------------------------------------------------------
(* A claim of the sources that the code does not keep (see the findings):
   "Write string at the cursor's position", "Split string into chunks smaller
   than each line's storage capacity".  Read one after the other, the lines
   hold the strings that were written, each character once and in order. *)
TextWritten == n = 0 => FlattenSeq(lines) = FlattenSeq(given)
=============================================================================
