---------------------------- MODULE ConsoleRefines --------------------------
(***************************************************************************)
(* The console implements Scrollback: forget the ring, the memory and the  *)
(* totals, and what is left are the numbered lines and their lengths.      *)
(***************************************************************************)
EXTENDS ConsoleProps

(* The text in the buffer, by absolute line number. *)
StoredText ==
    [a \in buf.absolute .. linebuf_end(buf) - 1 |->
        TextLength(buf, linebuf_get_nth_line(buf, a - buf.absolute))]

Abstract == INSTANCE Scrollback WITH
    first <- buf.absolute, last <- linebuf_end(buf) - 1, text <- StoredText

(* Every step of the console is a step of Scrollback or changes no line:
   lines keep their numbers and the length of their text as the ring rotates,
   only the last one changes, and each new line drops exactly the oldest lines
   that the two limits leave no room for.  Which characters of a string too
   long for a line the next line gets is not said here: see WriteRaw. *)
ImplementsScrollback == Abstract!SSpec
=============================================================================
