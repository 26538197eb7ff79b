------------------------------- MODULE Linebuf ------------------------------
(***************************************************************************)
(* The rotating line storage of the console (ports/sh/console.c, "Rotating *)
(* line storage").                                                         *)
(*                                                                         *)
(* A buffer b is a record with the fields of linebuf_t.  Memory is part of *)
(* it: every line gets a fresh block from malloc(), named by the absolute  *)
(* number of the line it is allocated for (realloc() keeps the name).      *)
(* b.live is the set of blocks that are allocated and b.heap the header    *)
(* (console_fline_t) at the start of each block.  b.lines holds pointers,  *)
(* which may outlive the block they point to.                              *)
(***************************************************************************)
EXTENDS Stredit

CONSTANTS
    Capacity,      \* capacity of the rotating array, 200 in the program
    BacklogSize,   \* backlog_size, 8192 bytes in the program
    MaxLines       \* bound of the model: how many lines are ever created

(* console_create() raises the two limits it is given to these. *)
ASSUME LinebufAssumption ==
    /\ Capacity \in Nat \ {0}
    /\ BacklogSize \in Nat /\ BacklogSize >= LineMax
    /\ MaxLines \in Nat \ {0}

Slots  == 0 .. Capacity - 1
Blocks == 1 .. MaxLines

(* The header of a block right after stredit_init(); also stands for the
   contents of a block that nobody owns. *)
Zeroed == [size |-> 0, render_lines |-> 0]

linebuf_init ==
    [lines |-> [i \in Slots |-> NULL], edit |-> NoEditor,
     live |-> {}, heap |-> [p \in Blocks |-> Zeroed],
     start |-> 0, size |-> 0, absolute |-> 1,
     total_size_except_last |-> 0, absolute_rendered |-> 0,
     total_rendered |-> 0]

-----------------------------------------------------------------------------
(* Indices (slots), nths and absolute numbers. *)

linebuf_nth_to_index(b, nth) == (b.start + nth) % Capacity

linebuf_index_add(index, diff) == (index + diff + Capacity) % Capacity

linebuf_end(b) == b.absolute + b.size

linebuf_get_nth_line(b, nth) ==
    IF nth < 0 \/ nth >= b.size THEN NULL
    ELSE IF nth = b.size - 1    THEN b.edit.raw
    ELSE b.lines[linebuf_nth_to_index(b, nth)]

(* The header fields of the stored lines, by nth. *)
SizesOf(b) ==
    [n \in 0 .. b.size - 1 |-> b.heap[linebuf_get_nth_line(b, n)].size]
RowsOf(b) ==
    [n \in 0 .. b.size - 1 |-> b.heap[linebuf_get_nth_line(b, n)].render_lines]

-----------------------------------------------------------------------------
(* Mutant: the editable line's header is counted although its bytes are not
   part of total_size_except_last. *)
FreeCountsLast(b, c) ==
    LET gone == {linebuf_get_nth_line(b, n) : n \in 0 .. c - 1}
    IN  [b EXCEPT
          !.total_rendered = @ - SumTo(RowsOf(b), c),
          !.total_size_except_last = @ - SumTo(SizesOf(b), c),
          !.live = @ \ gone,
          !.heap = [p \in Blocks |-> IF p \in gone THEN Zeroed ELSE b.heap[p]],
          !.start = linebuf_index_add(@, c),
          !.size = @ - c,
          !.absolute = @ + c]

(* Free the c oldest lines, 0 < c <= size.  Their slots keep the pointers. *)
FreeOldest(b, c) ==
    LET gone == {linebuf_get_nth_line(b, n) : n \in 0 .. c - 1}
    IN  [b EXCEPT
          !.total_rendered = @ - SumTo(RowsOf(b), c),
          !.total_size_except_last = @ - SumTo(SizesOf(b), min(c, b.size - 1)),
          !.live = @ \ gone,
          !.heap = [p \in Blocks |-> IF p \in gone THEN Zeroed ELSE b.heap[p]],
          !.start = linebuf_index_add(@, c),
          !.size = @ - c,
          !.absolute = @ + c]

linebuf_recycle_oldest_lines(b, count) ==
    IF min(count, b.size) <= 0 THEN b ELSE FreeOldest(b, min(count, b.size))

(* stredit_freeze_and_reset() and the store of the frozen line. *)
FreezeLast(b) ==
    [b EXCEPT
      !.total_size_except_last = @ + b.edit.size,
      !.heap = [@ EXCEPT ![b.edit.raw].size = b.edit.size],
      !.lines = [@ EXCEPT ![linebuf_nth_to_index(b, b.size - 1)] = b.edit.raw],
      !.edit = NoEditor]

(* Mutant: the slot of the new line keeps the pointer of a recycled line. *)
OpenLineStaleSlot(b) ==
    [b EXCEPT
      !.size = @ + 1,
      !.edit = stredit_init(linebuf_end(b)),
      !.live = @ \cup {linebuf_end(b)},
      !.heap = [@ EXCEPT ![linebuf_end(b)] = Zeroed]]

(* The new last line: an empty slot and an editor with a fresh block. *)
OpenLine(b) ==
    [b EXCEPT
      !.size = @ + 1,
      !.lines = [@ EXCEPT ![linebuf_nth_to_index(b, b.size)] = NULL],
      !.edit = stredit_init(linebuf_end(b)),
      !.live = @ \cup {linebuf_end(b)},
      !.heap = [@ EXCEPT ![linebuf_end(b)] = Zeroed]]

linebuf_newline(b) ==
    LET roomy == linebuf_recycle_oldest_lines(b, b.size - Capacity + 1)
    IN  OpenLine(IF roomy.size > 0 THEN FreezeLast(roomy) ELSE roomy)

(* Bytes of text left in the buffer once its r oldest lines are gone. *)
BytesWithout(b, r) ==
    b.total_size_except_last + b.edit.size - SumTo(SizesOf(b), r)

(* Mutant: a text of exactly the backlog size is taken to be too long. *)
clean_backlog_eager(b) ==
    LET exits == {r \in 0 .. b.size - 1 :
                    r = b.size - 1 \/ BytesWithout(b, r) < BacklogSize}
    IN  IF b.size <= 0 THEN b
        ELSE linebuf_recycle_oldest_lines(b, CHOOSE r \in exits :
                                                 \A q \in exits : r <= q)

(* Drop whole lines, oldest first, until the text fits or one line is left. *)
linebuf_clean_backlog(b) ==
    LET exits == {r \in 0 .. b.size - 1 :
                    r = b.size - 1 \/ BytesWithout(b, r) <= BacklogSize}
    IN  IF b.size <= 0 THEN b
        ELSE linebuf_recycle_oldest_lines(b, CHOOSE r \in exits :
                                                 \A q \in exits : r <= q)

(* The blocks that linebuf_deinit() frees through the array of lines: whatever
   any slot points to, in use or not. *)
SlotBlocks(b) == {b.lines[i] : i \in Slots} \ {NULL}

(* Mutant: the editor is not reset. *)
deinit_slots_only(b) == SlotBlocks(b)

linebuf_deinit(b) == SlotBlocks(b) \cup {b.edit.raw}

-----------------------------------------------------------------------------
(* Layout. *)

(* Length of the NUL-terminated text in block p. *)
TextLength(b, p) == IF p = b.edit.raw THEN b.edit.size ELSE b.heap[p].size

(* Rows that a text of this length takes when `columns` characters fit in a
   row (drsize() in gint cuts the text row by row); an empty line has one. *)
console_fline_update_render_lines(length, columns) ==
    IF length = 0 THEN 1 ELSE (length + columns - 1) \div columns

(* Mutant: lazy layout starts after the line that was editable last time. *)
LayoutStartLate(b, lazy) ==
    IF lazy THEN max(b.absolute, b.absolute_rendered + 2) ELSE b.absolute

(* Absolute number of the first line that a layout looks at. *)
LayoutStart(b, lazy) ==
    IF lazy THEN max(b.absolute, b.absolute_rendered + 1) ELSE b.absolute

linebuf_update_render(b, columns, lazy) ==
    LET relaid  == {linebuf_get_nth_line(b, a - b.absolute) :
                      a \in LayoutStart(b, lazy) .. linebuf_end(b) - 1}
        rows(p) == IF p \in relaid
                     THEN console_fline_update_render_lines(TextLength(b, p), columns)
                     ELSE b.heap[p].render_lines
        growth  == [n \in 0 .. b.size - 1 |->
                      rows(linebuf_get_nth_line(b, n)) - RowsOf(b)[n]]
    IN  [b EXCEPT
          !.heap = [p \in Blocks |-> [size |-> b.heap[p].size,
                                      render_lines |-> rows(p)]],
          !.total_rendered = @ + SumTo(growth, b.size),
          !.absolute_rendered = max(@, linebuf_end(b) - 2)]
=============================================================================
