------------------------------- MODULE Stredit ------------------------------
(***************************************************************************)
(* The string editor of the console's last line (ports/sh/stredit.c).      *)
(*                                                                         *)
(* An editor is a record with the fields of stredit_t that decide what an  *)
(* operation does: the block that holds the text, the length of the text,  *)
(* the bytes allocated and the length of the protected prefix (the prompt).*)
(* The text itself is abstracted to its length: no operation looks at a    *)
(* character.  max_size and reserved are the same for every line of the    *)
(* console and are constants here.                                         *)
(***************************************************************************)
EXTENDS Sums

CONSTANTS
    LineMax,    \* max_size: PE_CONSOLE_LINE_MAX_LENGTH, 1024 in the program
    Reserved,   \* reserved: CONSOLE_FLINE_SIZE, the 3-byte line header
    Prealloc,   \* characters allocated for a new line, 16 in the program
    Growth      \* smallest increase of an allocation, 16 in the program

ASSUME StreditAssumption ==
    /\ LineMax \in Nat \ {0}
    /\ Reserved \in Nat
    /\ Prealloc \in Nat
    /\ Growth \in Nat

(* The null pointer.  Blocks of memory are named by positive numbers. *)
NULL == 0

-----------------------------------------------------------------------------
stredit_init(raw) ==
    [raw |-> raw, size |-> 0, prefix |-> 0,
     alloc_size |-> Reserved + Prealloc + 1]

(* An editor zeroed by memset: it owns no text. *)
NoEditor == [raw |-> NULL, size |-> 0, prefix |-> 0, alloc_size |-> 0]

stredit_capacity(ed) == LineMax - ed.size

stredit_set_prefix(ed, prefix_size) ==
    [ed EXCEPT !.prefix = min(max(0, prefix_size), ed.size)]

(* Whether room for n characters needs a realloc(), which may fail. *)
NeedsRealloc(ed, n) == ed.alloc_size < Reserved + n + 1

stredit_alloc(ed, n) ==
    IF NeedsRealloc(ed, n)
      THEN [ed EXCEPT !.alloc_size = max(@ + Growth, Reserved + n + 1)]
      ELSE ed

(* The bounds check of stredit_insert(). *)
CanInsert(ed, p, n) == 0 <= p /\ p <= ed.size /\ ed.size + n <= LineMax

stredit_insert(ed, n) ==
    [stredit_alloc(ed, ed.size + n) EXCEPT !.size = @ + n]

(* Mutant: the prefix no longer protects the start of the text. *)
RemovableUnprotected(ed, p, n) == max(0, min(n, ed.size - p))

(* How many of the n characters at p stredit_delete() removes: the prefix is
   skipped and the end of the text bounds the rest. *)
Removable(ed, p, n) ==
    LET unremovable == max(0, ed.prefix - p)
    IN  max(0, min(n - unremovable, ed.size - (p + unremovable)))

stredit_delete(ed, p, n) == [ed EXCEPT !.size = @ - Removable(ed, p, n)]
=============================================================================
