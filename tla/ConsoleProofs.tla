---------------------------- MODULE ConsoleProofs ---------------------------
(***************************************************************************)
(* The console's invariants, for every capacity, backlog size, line length,*)
(* set of fonts and view geometry, and for any number of lines.            *)
(***************************************************************************)
EXTENDS LinebufProofs, ConsoleRefines

Editors == [raw: Nat, size: Nat, prefix: Nat, alloc_size: Nat]

(* The prefix is inside the text and the text inside its allocation. *)
EditorOK(ed) ==
    /\ ed \in Editors
    /\ ed.prefix <= ed.size
    /\ ed.size <= LineMax
    /\ Reserved + ed.size + 1 <= ed.alloc_size

-----------------------------------------------------------------------------
(* What the operations of the editor preserve. *)

LEMMA InitEditor ==
    ASSUME NEW raw \in Nat
    PROVE  EditorOK(stredit_init(raw))
BY StreditAssumption DEF EditorOK, Editors, stredit_init

LEMMA InsertKeeps ==
    ASSUME NEW ed, EditorOK(ed), NEW n \in Nat, ed.size + n <= LineMax
    PROVE  /\ EditorOK(stredit_insert(ed, n))
           /\ stredit_insert(ed, n).raw = ed.raw
           /\ stredit_insert(ed, n).size = ed.size + n
<1>1. /\ ed \in Editors /\ ed.size \in Nat /\ ed.alloc_size \in Nat
      /\ Growth \in Nat /\ Reserved \in Nat /\ ed.prefix \in Nat
  BY StreditAssumption DEF EditorOK, Editors
<1>2. PICK grown : grown = stredit_alloc(ed, ed.size + n)
  OBVIOUS
<1>3. /\ grown \in Editors /\ grown.raw = ed.raw /\ grown.size = ed.size
      /\ grown.prefix = ed.prefix
      /\ Reserved + (ed.size + n) + 1 <= grown.alloc_size
  <2>1. CASE NeedsRealloc(ed, ed.size + n)
    <3> DEFINE a == max(ed.alloc_size + Growth, Reserved + (ed.size + n) + 1)
    <3>1. a \in Nat /\ Reserved + (ed.size + n) + 1 <= a
      BY <1>1 DEF max
    <3>2. grown = [ed EXCEPT !.alloc_size = a]
      BY <1>2, <2>1 DEF stredit_alloc
    <3> HIDE DEF a
    <3> QED BY <1>1, <3>1, <3>2 DEF Editors
  <2>2. CASE ~NeedsRealloc(ed, ed.size + n)
    BY <1>1, <1>2, <2>2 DEF stredit_alloc, NeedsRealloc
  <2> QED BY <2>1, <2>2
<1>4. stredit_insert(ed, n) = [grown EXCEPT !.size = @ + n]
  BY <1>2 DEF stredit_insert
<1> QED BY <1>1, <1>3, <1>4 DEF EditorOK, Editors

(* A deletion leaves at least the prefix and what is left of p. *)
LEMMA DeleteKeeps ==
    ASSUME NEW ed, EditorOK(ed), NEW p \in Int, NEW n \in Int
    PROVE  /\ EditorOK(stredit_delete(ed, p, n))
           /\ stredit_delete(ed, p, n).raw = ed.raw
           /\ stredit_delete(ed, p, n).prefix = ed.prefix
           /\ Removable(ed, p, n) \in Nat
           /\ stredit_delete(ed, p, n).size = ed.size - Removable(ed, p, n)
           /\ p <= ed.size => p <= stredit_delete(ed, p, n).size
           /\ Removable(ed, p, n) <= max(0, n)
           /\ p < 0 => Removable(ed, p, n) <= max(0, n + p)
<1>1. /\ ed \in Editors /\ ed.size \in Nat /\ ed.alloc_size \in Nat
      /\ Reserved \in Nat /\ ed.prefix \in Nat /\ ed.prefix <= ed.size
  BY StreditAssumption DEF EditorOK, Editors
<1> DEFINE k == Removable(ed, p, n)
<1>2. /\ k \in Nat /\ k <= ed.size - ed.prefix /\ (p <= ed.size => p <= ed.size - k)
      /\ k <= max(0, n) /\ (p < 0 => k <= max(0, n + p))
  BY <1>1 DEF Removable, min, max
<1>3. stredit_delete(ed, p, n) = [ed EXCEPT !.size = @ - k]
  BY DEF stredit_delete
<1> HIDE DEF k
<1>4. /\ stredit_delete(ed, p, n) \in Editors
      /\ stredit_delete(ed, p, n).size = ed.size - k
      /\ stredit_delete(ed, p, n).raw = ed.raw
      /\ stredit_delete(ed, p, n).prefix = ed.prefix
      /\ stredit_delete(ed, p, n).alloc_size = ed.alloc_size
  BY <1>1, <1>2, <1>3 DEF Editors
<1>5. EditorOK(stredit_delete(ed, p, n))
  BY <1>1, <1>2, <1>4, StreditAssumption DEF EditorOK
<1> QED BY <1>2, <1>4, <1>5 DEF k

LEMMA PrefixKeeps ==
    ASSUME NEW ed, EditorOK(ed), NEW c \in Int
    PROVE  /\ EditorOK(stredit_set_prefix(ed, c))
           /\ stredit_set_prefix(ed, c).raw = ed.raw
           /\ stredit_set_prefix(ed, c).size = ed.size
<1>1. ed \in Editors /\ ed.size \in Nat /\ ed.alloc_size \in Nat /\ Reserved \in Nat
  BY StreditAssumption DEF EditorOK, Editors
<1> DEFINE k == min(max(0, c), ed.size)
<1>2. k \in Nat /\ k <= ed.size
  BY <1>1 DEF min, max
<1>3. stredit_set_prefix(ed, c) = [ed EXCEPT !.prefix = k]
  BY DEF stredit_set_prefix
<1> HIDE DEF k
<1> QED BY <1>1, <1>2, <1>3 DEF EditorOK, Editors

(* Editing the last line does not touch the ring. *)
LEMMA EditKeepsRing ==
    ASSUME NEW b, WellFormed(b), Summed(b), NEW ed \in Editors, ed.raw = b.edit.raw,
           NEW c, c = [b EXCEPT !.edit = ed]
    PROVE  /\ WellFormed(c) /\ Summed(c)
           /\ c.edit = ed /\ c.size = b.size /\ c.absolute = b.absolute
           /\ c.live = b.live /\ c.heap = b.heap
           /\ c.total_size_except_last = b.total_size_except_last
           /\ c.absolute_rendered = b.absolute_rendered
           /\ linebuf_end(c) = linebuf_end(b)
<1>1. b \in Buffers
  BY DEF WellFormed
<1>2. /\ c \in Buffers /\ c.edit = ed /\ c.lines = b.lines
      /\ c.start = b.start /\ c.size = b.size /\ c.absolute = b.absolute
      /\ c.live = b.live /\ c.heap = b.heap
      /\ c.total_size_except_last = b.total_size_except_last
      /\ c.total_rendered = b.total_rendered
      /\ c.absolute_rendered = b.absolute_rendered
  BY <1>1 DEF Buffers, Editors
<1>3. linebuf_end(c) = linebuf_end(b)
  BY <1>2 DEF linebuf_end
<1>4. \A n : linebuf_nth_to_index(c, n) = linebuf_nth_to_index(b, n)
  BY <1>2 DEF linebuf_nth_to_index
<1>5. WellFormed(c)
  BY <1>2, <1>3, <1>4 DEF WellFormed
<1>6. \A n : linebuf_get_nth_line(c, n) = linebuf_get_nth_line(b, n)
  BY <1>2, <1>4 DEF linebuf_get_nth_line
<1>7. SizesOf(c) = SizesOf(b) /\ RowsOf(c) = RowsOf(b)
  BY <1>2, <1>6 DEF SizesOf, RowsOf
<1>8. Summed(c)
  BY <1>2, <1>7 DEF Summed
<1> QED BY <1>2, <1>3, <1>5, <1>8

-----------------------------------------------------------------------------
(* The inductive invariant: the ring and its totals, which every operation on
   the buffer needs to find the lines it frees, freezes and counts; the editor,
   which inserts only inside its text; and the limit on the frozen text. *)
BufOK(b, c) ==
    /\ WellFormed(b)
    /\ Summed(b)
    /\ b.size > 0
    /\ EditorOK(b.edit)
    /\ c \in Nat /\ c <= b.edit.size
    /\ b.size = 1 \/ b.total_size_except_last <= BacklogSize

IInv ==
    /\ TypeOK
    /\ ~exited => BufOK(buf, cursor)
    /\ NothingLeaked

LEMMA EditStep ==
    ASSUME NEW b, NEW c, BufOK(b, c), NEW ed, EditorOK(ed), ed.raw = b.edit.raw,
           NEW d \in Nat, d <= ed.size
    PROVE  BufOK([b EXCEPT !.edit = ed], d)
<1>1. WellFormed(b) /\ Summed(b) /\ ed \in Editors
  BY DEF BufOK, EditorOK
<1>2. PICK e : e = [b EXCEPT !.edit = ed]
  OBVIOUS
<1>3. /\ WellFormed(e) /\ Summed(e) /\ e.edit = ed /\ e.size = b.size
      /\ e.total_size_except_last = b.total_size_except_last
  BY <1>1, <1>2, EditKeepsRing
<1> QED BY <1>2, <1>3 DEF BufOK

LEMMA NewlineStep ==
    ASSUME NEW b, WellFormed(b), Summed(b), RoomForLine(b)
    PROVE  BufOK(NewlineBuf(b), 0)
<1>1. linebuf_end(b) <= MaxLines
  BY DEF RoomForLine
<1>2. PICK q : q = NewlineBuf(b)
  OBVIOUS
<1>3. /\ WellFormed(q) /\ Summed(q) /\ q.size > 0
      /\ q.edit = stredit_init(linebuf_end(b))
      /\ q.size = 1 \/ q.total_size_except_last <= BacklogSize
  BY <1>1, <1>2, NewlineAndClean
<1>4. linebuf_end(b) \in Nat
  BY DEF WellFormed, Buffers, linebuf_end
<1>5. EditorOK(q.edit) /\ 0 <= q.edit.size
  <2>1. EditorOK(q.edit)
    BY <1>3, <1>4, InitEditor
  <2> QED BY <1>3, <2>1 DEF stredit_init
<1> QED BY <1>2, <1>3, <1>5 DEF BufOK

(* The empty buffer of console_create(). *)
LEMMA EmptyBuffer ==
    /\ WellFormed(linebuf_init) /\ Summed(linebuf_init)
    /\ linebuf_end(linebuf_init) = 1
<1>1. Capacity \in Nat \ {0} /\ MaxLines \in Nat \ {0}
  BY LinebufAssumption
<1>2. linebuf_init \in Buffers
  BY <1>1 DEF linebuf_init, Buffers, Slots, Blocks, NoEditor, NULL, Zeroed
<1>3. linebuf_init.size = 0 /\ linebuf_init.absolute = 1 /\ linebuf_init.live = {}
      /\ linebuf_init.total_size_except_last = 0 /\ linebuf_init.total_rendered = 0
  BY DEF linebuf_init
<1>4. linebuf_end(linebuf_init) = 1
  BY <1>3 DEF linebuf_end
<1>5. WellFormed(linebuf_init)
  BY <1>1, <1>2, <1>3, <1>4 DEF WellFormed
<1>6. max(0, linebuf_init.size - 1) = 0
  BY <1>3 DEF max
<1>7. Summed(linebuf_init)
  BY <1>3, <1>6, SumEmpty DEF Summed
<1> QED BY <1>4, <1>5, <1>7

LEMMA InitIInv == Init => IInv
<1> SUFFICES ASSUME Init PROVE IInv
  OBVIOUS
<1>1. RoomForLine(linebuf_init)
  BY EmptyBuffer, LinebufAssumption DEF RoomForLine
<1>2. BufOK(buf, cursor)
  BY <1>1, EmptyBuffer, NewlineStep DEF Init
<1>3. TypeOK
  <2>1. buf \in Buffers
    BY <1>2 DEF BufOK, WellFormed
  <2> QED BY <2>1 DEF Init, TypeOK
<1> QED BY <1>2, <1>3 DEF IInv, NothingLeaked, Init

(* The buffer after each action of a running console. *)
LEMMA NextBufOK ==
    ASSUME IInv, Next, ~exited'
    PROVE  BufOK(buf', cursor')
<1>1. ~exited
  BY DEF Next, console_newline, console_write_raw, write_raw_fails, write_backspace,
         write_erase_to_end, write_cursor_escape, console_lock_prefix,
         console_set_cursor, console_delete_at_cursor, console_clear_current_line,
         console_clear, render,
         pe_enter_graphics_mode, console_destroy, Idle
<1>2. BufOK(buf, cursor)
  BY <1>1 DEF IInv
<1>3. WellFormed(buf) /\ Summed(buf) /\ buf.size > 0 /\ EditorOK(buf.edit)
      /\ cursor \in Nat /\ cursor <= buf.edit.size
  BY <1>2 DEF BufOK
<1>4. /\ buf.edit.size \in Nat /\ buf.edit.prefix \in Nat
      /\ buf.edit.prefix <= buf.edit.size /\ buf.edit.size <= LineMax
      /\ LineMax \in Nat
  BY <1>3, StreditAssumption DEF EditorOK, Editors
<1>5. CASE console_newline
  BY <1>3, <1>5, NewlineStep DEF console_newline
<1>6. ASSUME NEW n \in 1 .. MaxWrite, console_write_raw(n)
      PROVE  BufOK(buf', cursor')
  <2> DEFINE round_size == min(n, stredit_capacity(buf.edit))
             filled == [buf EXCEPT !.edit = stredit_insert(buf.edit, round_size)]
  <2>1. n \in Nat /\ round_size \in Nat /\ buf.edit.size + round_size <= LineMax
    BY <1>4, ConsoleAssumption DEF stredit_capacity, min
  <2>2. /\ EditorOK(stredit_insert(buf.edit, round_size))
        /\ stredit_insert(buf.edit, round_size).raw = buf.edit.raw
        /\ stredit_insert(buf.edit, round_size).size = buf.edit.size + round_size
    BY <1>3, <2>1, InsertKeeps
  <2>3. /\ buf' = IF round_size < n THEN NewlineBuf(filled) ELSE filled
        /\ cursor' = IF round_size < n THEN 0 ELSE cursor + round_size
        /\ round_size < n => RoomForLine(buf)
    BY <1>6 DEF console_write_raw, WriteRound
  <2>4. /\ WellFormed(filled) /\ Summed(filled)
        /\ linebuf_end(filled) = linebuf_end(buf)
    <3>1. stredit_insert(buf.edit, round_size) \in Editors
      BY <2>2 DEF EditorOK
    <3> QED BY <1>3, <2>2, <3>1, EditKeepsRing
  <2> HIDE DEF round_size
  <2>5. BufOK(filled, cursor + round_size)
    <3>1. cursor + round_size \in Nat /\ cursor + round_size <= buf.edit.size + round_size
      BY <1>3, <1>4, <2>1
    <3> QED BY <1>2, <2>2, <3>1, EditStep
  <2>6. round_size < n => BufOK(NewlineBuf(filled), 0)
    <3>1. round_size < n => RoomForLine(filled)
      BY <2>3, <2>4 DEF RoomForLine
    <3> HIDE DEF filled
    <3> QED BY <2>4, <3>1, NewlineStep
  <2> QED BY <2>3, <2>5, <2>6
<1>7. ASSUME NEW n \in 1 .. MaxWrite, write_raw_fails(n)
      PROVE  BufOK(buf', cursor')
  BY <1>2, <1>7 DEF write_raw_fails
<1>8. CASE write_backspace
  <2>1. CASE cursor > 0
    <3> DEFINE ed == stredit_delete(buf.edit, cursor - 1, 1)
    <3>1. EditorOK(ed) /\ ed.raw = buf.edit.raw /\ cursor - 1 <= ed.size
      BY <1>3, <1>4, DeleteKeeps
    <3>2. buf' = [buf EXCEPT !.edit = ed] /\ cursor' = cursor - 1 /\ cursor - 1 \in Nat
      BY <1>3, <1>8, <2>1 DEF write_backspace, AfterBackspace
    <3> HIDE DEF ed
    <3> QED BY <1>2, <3>1, <3>2, EditStep
  <2>2. CASE ~(cursor > 0)
    BY <1>2, <1>8, <2>2 DEF write_backspace, AfterBackspace
  <2> QED BY <2>1, <2>2
<1>9. CASE write_erase_to_end
  <2> DEFINE ed == stredit_delete(buf.edit, cursor, buf.edit.size - cursor)
  <2>1. EditorOK(ed) /\ ed.raw = buf.edit.raw /\ cursor <= ed.size
    BY <1>3, <1>4, DeleteKeeps
  <2>2. buf' = [buf EXCEPT !.edit = ed] /\ cursor' = cursor
    BY <1>9 DEF write_erase_to_end
  <2> HIDE DEF ed
  <2> QED BY <1>2, <1>3, <2>1, <2>2, EditStep
<1>10. CASE write_cursor_escape
  <2>1. cursor' \in Nat /\ cursor' <= buf.edit.size /\ buf' = buf
    BY <1>3, <1>4, <1>10 DEF write_cursor_escape
  <2> QED BY <1>2, <2>1 DEF BufOK
<1>11. CASE console_lock_prefix
  <2> DEFINE ed == stredit_set_prefix(buf.edit, cursor)
  <2>1. EditorOK(ed) /\ ed.raw = buf.edit.raw /\ cursor <= ed.size
    BY <1>3, PrefixKeeps
  <2>2. buf' = [buf EXCEPT !.edit = ed] /\ cursor' = cursor
    BY <1>11 DEF console_lock_prefix
  <2> HIDE DEF ed
  <2> QED BY <1>2, <1>3, <2>1, <2>2, EditStep
<1>12. ASSUME NEW pos \in Int, console_set_cursor(pos)
       PROVE  BufOK(buf', cursor')
  <2>1. cursor' \in Nat /\ cursor' <= buf.edit.size /\ buf' = buf
    BY <1>4, <1>12 DEF console_set_cursor
  <2> QED BY <1>2, <2>1 DEF BufOK
<1>13. CASE console_delete_at_cursor(1)
  <2> DEFINE ed == stredit_delete(buf.edit, cursor - 1, 1)
             k  == Removable(buf.edit, cursor - 1, 1)
  <2>1. /\ EditorOK(ed) /\ ed.raw = buf.edit.raw
        /\ ed.size = buf.edit.size - k /\ k \in Nat
        /\ cursor - 1 < 0 => k <= max(0, 1 + (cursor - 1))
        /\ k <= max(0, 1)
    BY <1>3, DeleteKeeps
  <2>2. buf' = [buf EXCEPT !.edit = ed] /\ cursor' = cursor - k
    BY <1>13 DEF console_delete_at_cursor
  <2> HIDE DEF ed, k
  <2>3. cursor - k \in Nat /\ cursor - k <= ed.size
    BY <1>3, <1>4, <2>1 DEF max
  <2> QED BY <1>2, <2>1, <2>2, <2>3, EditStep
<1>14. CASE console_clear_current_line
  <2> DEFINE ed == stredit_delete(buf.edit, buf.edit.prefix, buf.edit.size - buf.edit.prefix)
  <2>1. EditorOK(ed) /\ ed.raw = buf.edit.raw /\ buf.edit.prefix <= ed.size
    BY <1>3, <1>4, DeleteKeeps
  <2>2. buf' = [buf EXCEPT !.edit = ed] /\ cursor' = buf.edit.prefix
    BY <1>14 DEF console_clear_current_line
  <2> HIDE DEF ed
  <2> QED BY <1>2, <1>4, <2>1, <2>2, EditStep
<1>15. CASE console_clear
  <2>1. PICK r : r = linebuf_recycle_oldest_lines(buf, buf.size)
    OBVIOUS
  <2>2. buf.size \in Nat /\ buf.absolute \in Nat
    BY <1>3 DEF WellFormed, Buffers
  <2>3. /\ WellFormed(r) /\ Summed(r)
        /\ r.size = buf.size - max(0, min(buf.size, buf.size))
        /\ r.absolute = buf.absolute + max(0, min(buf.size, buf.size))
    <3>1. WellFormed(buf) /\ Summed(buf) /\ buf.size \in Int
      BY <1>3, <2>2
    <3>2. WellFormed(r) /\ Summed(r)
      BY <2>1, <3>1, Recycle
    <3>3. /\ r.size = buf.size - max(0, min(buf.size, buf.size))
          /\ r.absolute = buf.absolute + max(0, min(buf.size, buf.size))
      BY <2>1, <3>1, Recycle
    <3> QED BY <3>2, <3>3
  <2>4. linebuf_end(r) = linebuf_end(buf)
    BY <2>2, <2>3 DEF linebuf_end, max, min
  <2>5. RoomForLine(r) /\ buf' = NewlineBuf(r) /\ cursor' = 0
    BY <1>15, <2>1, <2>4 DEF console_clear, RoomForLine
  <2> QED BY <2>3, <2>5, NewlineStep
<1>16. ASSUME NEW v \in Views, render(v)
       PROVE  BufOK(buf', cursor')
  <2>1. ColumnsOf(v) \in Nat \ {0}
    BY ConsoleAssumption DEF ColumnsOf, Views
  <2>2. buf' = RenderedBuf(buf, ColumnsOf(v), IsLazy(v)) /\ cursor' = cursor
    BY <1>16 DEF render
  <2>3. /\ WellFormed(buf') /\ Summed(buf')
        /\ buf'.edit = buf.edit /\ buf'.size = buf.size
        /\ buf'.total_size_except_last = buf.total_size_except_last
    BY <1>3, <2>1, <2>2, Rendered
  <2> QED BY <1>2, <2>2, <2>3 DEF BufOK
<1>17. CASE console_destroy
  BY <1>17 DEF console_destroy
<1>18. CASE pe_enter_graphics_mode
  BY <1>2, <1>18 DEF pe_enter_graphics_mode
<1> QED
  BY <1>3, <1>5, <1>6, <1>7, <1>8, <1>9, <1>10, <1>11, <1>12, <1>13, <1>14,
     <1>15, <1>16, <1>17, <1>18 DEF Next

(* console_destroy() finds every block of a well-formed ring. *)
LEMMA DestroyFrees ==
    ASSUME IInv, console_destroy
    PROVE  buf'.live = {} /\ buf' \in Buffers
<1> DEFINE freed == {buf.lines[i] : i \in Slots} \ {NULL}
           rest  == buf.live \ (freed \cup {buf.edit.raw})
<1>1. WellFormed(buf) /\ buf.size > 0
  BY DEF IInv, BufOK, console_destroy, Idle
<1>2. buf \in Buffers /\ buf.live = buf.absolute .. linebuf_end(buf) - 1
  BY <1>1 DEF WellFormed
<1>3. buf.size \in Nat /\ buf.absolute \in Nat \ {0} /\ Capacity \in Nat \ {0}
  BY <1>2, LinebufAssumption DEF Buffers
<1>4. ASSUME NEW a \in buf.live PROVE a \in freed \cup {buf.edit.raw}
  <2>1. a - buf.absolute \in 0 .. buf.size - 1 /\ a \in Nat /\ a # 0
    BY <1>2, <1>3 DEF linebuf_end
  <2>2. CASE a - buf.absolute = buf.size - 1
    <3>1. buf.edit.raw = linebuf_end(buf) - 1
      BY <1>1 DEF WellFormed
    <3>2. a = buf.edit.raw
      BY <1>3, <2>1, <2>2, <3>1 DEF linebuf_end
    <3> QED BY <3>2
  <2>3. CASE a - buf.absolute # buf.size - 1
    <3>1. a - buf.absolute \in 0 .. buf.size - 2
      BY <1>3, <2>1, <2>3
    <3>2. buf.lines[linebuf_nth_to_index(buf, a - buf.absolute)]
            = buf.absolute + (a - buf.absolute)
      BY <1>1, <3>1 DEF WellFormed
    <3>3. linebuf_nth_to_index(buf, a - buf.absolute) \in Slots
      <4>1. a - buf.absolute \in 0 .. Capacity - 1
        BY <1>1, <1>3, <2>1 DEF WellFormed
      <4> QED BY <1>2, <4>1, IndexValue
    <3>4. buf.absolute + (a - buf.absolute) = a
      BY <1>3, <2>1
    <3> QED BY <2>1, <3>2, <3>3, <3>4 DEF NULL
  <2> QED BY <2>2, <2>3
<1>5. rest = {}
  BY <1>4
<1>6. buf' = [linebuf_init EXCEPT !.live = rest]
  BY DEF console_destroy, linebuf_deinit, SlotBlocks
<1>7. linebuf_init \in Buffers
  BY EmptyBuffer DEF WellFormed
<1> HIDE DEF rest
<1> QED BY <1>5, <1>6, <1>7 DEF Buffers

LEMMA NextIInv == IInv /\ [Next]_vars => IInv'
<1> SUFFICES ASSUME IInv, [Next]_vars PROVE IInv'
  OBVIOUS
<1>1. CASE UNCHANGED vars
  BY <1>1 DEF vars, IInv, TypeOK, NothingLeaked
<1>2. CASE Next
  <2>1. ~exited' => BufOK(buf', cursor')
    BY <1>2, NextBufOK
  <2>2. exited' => console_destroy
    BY <1>2 DEF Next, console_newline, console_write_raw, write_raw_fails,
         write_backspace, write_erase_to_end, write_cursor_escape,
         console_lock_prefix, console_set_cursor, console_delete_at_cursor,
         console_clear_current_line, console_clear, render, pe_enter_graphics_mode, Idle
  <2>3. NothingLeaked'
    BY <2>2, DestroyFrees DEF NothingLeaked
  <2>4. buf' \in Buffers
    BY <2>1, <2>2, DestroyFrees DEF BufOK, WellFormed
  <2>5. cursor' \in Nat
    BY <2>1, <2>2 DEF BufOK, console_destroy, IInv, TypeOK
  <2>6. pending' \in Nat
    <3>1. ASSUME NEW n \in 1 .. MaxWrite, console_write_raw(n), ~exited
          PROVE  pending' \in Nat
      <4>1. buf.edit.size \in Nat /\ buf.edit.size <= LineMax /\ LineMax \in Nat
        BY <3>1, StreditAssumption DEF IInv, BufOK, EditorOK, Editors
      <4>2. n \in Nat
        BY ConsoleAssumption
      <4> QED BY <3>1, <4>1, <4>2 DEF console_write_raw, min, stredit_capacity
    <3>2. pending \in Nat
      BY DEF IInv, TypeOK
    <3>3. \/ pending' \in {0, pending}
          \/ \E n \in 1 .. MaxWrite : console_write_raw(n)
      BY <1>2, Zenon DEF Next, console_newline, write_raw_fails,
           write_backspace, write_erase_to_end, write_cursor_escape,
           console_lock_prefix, console_set_cursor, console_delete_at_cursor,
           console_clear_current_line, console_clear, render,
         pe_enter_graphics_mode, console_destroy
    <3>4. (\E n \in 1 .. MaxWrite : console_write_raw(n)) => ~exited
      BY DEF console_write_raw
    <3> QED BY <3>1, <3>2, <3>3, <3>4
  <2>7. /\ render_needed' \in BOOLEAN /\ cancelled' \in BOOLEAN /\ exited' \in BOOLEAN
        /\ double_free' \in BOOLEAN /\ view' \in Views \cup {NoView}
    <3>1. /\ render_needed \in BOOLEAN /\ cancelled \in BOOLEAN /\ exited \in BOOLEAN
          /\ double_free \in BOOLEAN /\ view \in Views \cup {NoView}
      BY DEF IInv, TypeOK
    <3>2. render_needed' \in {TRUE, FALSE, render_needed} /\ exited' \in {TRUE, exited}
      BY <1>2, Zenon DEF Next, console_newline, console_write_raw, write_raw_fails,
           write_backspace, write_erase_to_end, write_cursor_escape,
           console_lock_prefix, console_set_cursor, console_delete_at_cursor,
           console_clear_current_line, console_clear, render,
         pe_enter_graphics_mode, console_destroy
    <3>3. double_free' = double_free \/ double_free' \in BOOLEAN
      BY <1>2, Zenon DEF Next, console_newline, console_write_raw, write_raw_fails,
           write_backspace, write_erase_to_end, write_cursor_escape,
           console_lock_prefix, console_set_cursor, console_delete_at_cursor,
           console_clear_current_line, console_clear, render,
         pe_enter_graphics_mode, console_destroy
    <3>4. view' = view \/ view' \in Views
      BY <1>2, Zenon DEF Next, console_newline, console_write_raw, write_raw_fails,
           write_backspace, write_erase_to_end, write_cursor_escape,
           console_lock_prefix, console_set_cursor, console_delete_at_cursor,
           console_clear_current_line, console_clear, render,
         pe_enter_graphics_mode, console_destroy
    <3>5. cancelled' \in {cancelled, FALSE} \/ cancelled' = (cancelled \/ render_needed)
      BY <1>2, Zenon DEF Next, console_newline, console_write_raw, write_raw_fails,
           write_backspace, write_erase_to_end, write_cursor_escape,
           console_lock_prefix, console_set_cursor, console_delete_at_cursor,
           console_clear_current_line, console_clear, render,
           pe_enter_graphics_mode, console_destroy
    <3> QED BY <3>1, <3>2, <3>3, <3>4, <3>5
  <2> QED BY <2>1, <2>3, <2>4, <2>5, <2>6, <2>7 DEF IInv, TypeOK
<1> QED BY <1>1, <1>2

-----------------------------------------------------------------------------
(* The inductive invariant holds in every state of the console. *)
THEOREM Invariance == Spec => []IInv
BY InitIInv, NextIInv, PTL DEF Spec

(* The fields of the console keep their types through every call. *)
THEOREM TypeCorrect == Spec => []TypeOK
<1>1. IInv => TypeOK
  BY DEF IInv
<1> QED BY <1>1, Invariance, PTL

(* The rotating array: after any sequence of writes, clears and frames the
   slots point to the blocks of the lines they stand for, the last slot is
   NULL as linebuf_newline() asserts, and exactly the stored lines are
   allocated. *)
THEOREM RingCorrect == Spec => []Ring
<1>1. IInv => Ring
  <2> SUFFICES ASSUME IInv, ~exited PROVE RingOK(buf)
    BY DEF Ring
  <2>1. WellFormed(buf) /\ buf.size > 0
    BY DEF IInv, BufOK
  <2>2. buf.size \in 1 .. Capacity
    BY <2>1, LinebufAssumption DEF WellFormed
  <2> QED BY <2>1, <2>2 DEF WellFormed, RingOK
<1> QED BY <1>1, Invariance, PTL

(* The running totals of linebuf_t are the sums they stand for, however lines
   are frozen, recycled, cleared and laid out. *)
THEOREM TotalsCorrect == Spec => []Totals
<1>1. IInv => Totals
  <2> SUFFICES ASSUME IInv, ~exited PROVE TotalsOK(buf)
    BY DEF Totals
  <2>1. Summed(buf) /\ buf.size > 0 /\ buf \in Buffers
    BY DEF IInv, BufOK, TypeOK
  <2>2. buf.size \in Nat
    BY <2>1 DEF Buffers
  <2>3. max(0, buf.size - 1) = buf.size - 1
    BY <2>1, <2>2 DEF max
  <2> QED BY <2>1, <2>3 DEF Summed, TotalsOK
<1> QED BY <1>1, Invariance, PTL

(* The cursor and the prompt stay inside the text, the text inside its line
   and its allocation: no stredit_insert() of the console is refused for a
   position out of range. *)
THEOREM EditCorrect == Spec => []Edit
<1>1. IInv => Edit
  <2> SUFFICES ASSUME IInv, ~exited PROVE EditOK(buf.edit, cursor)
    BY DEF Edit
  <2>1. EditorOK(buf.edit) /\ cursor \in Nat /\ cursor <= buf.edit.size
    BY DEF IInv, BufOK
  <2>2. buf.edit.size \in Nat /\ buf.edit.prefix \in Nat
    BY <2>1 DEF EditorOK, Editors
  <2> QED BY <2>1, <2>2 DEF EditOK, EditorOK
<1> QED BY <1>1, Invariance, PTL

(* linebuf_clean_backlog() bounds the frozen text after every new line. *)
THEOREM BacklogBounded == Spec => []Backlog
<1>1. IInv => Backlog
  BY DEF IInv, BufOK, Backlog
<1> QED BY <1>1, Invariance, PTL

(* console_destroy() leaves no block allocated. *)
THEOREM AllFreed == Spec => []NothingLeaked
<1>1. IInv => NothingLeaked
  BY DEF IInv
<1> QED BY <1>1, Invariance, PTL

-----------------------------------------------------------------------------
(***************************************************************************)
(* Lazy layout.  linebuf_update_render() skips the lines that were frozen  *)
(* before the last frame, and console_compute_view() lets it do so when    *)
(* the width has not changed.  The theorem says under which condition on   *)
(* the caller that is right: the font does not change either.  Run         *)
(* console_font shows what happens without the condition.                  *)
(***************************************************************************)

(* The caller renders every frame in the font of the frame before. *)
FontKept == view = NoView \/ view'[1] = view[1]

RowsFor(length, v) == console_fline_update_render_lines(length, ColumnsOf(v))

(* LayoutOK, through the blocks instead of the ring, and what makes it
   inductive: nothing past the last frozen line counts as laid out. *)
LaidOut(b, v) ==
    /\ b.absolute_rendered <= linebuf_end(b) - 2
    /\ v # NoView =>
         \A a \in b.live \ {b.edit.raw} :
            a <= b.absolute_rendered => b.heap[a].render_lines = RowsFor(b.heap[a].size, v)

(* FrameCurrent, through the blocks. *)
Current(b, v) ==
    \A a \in b.live : b.heap[a].render_lines = RowsFor(TextLength(b, a), v)

(* A frame is due, or was and has been cancelled. *)
Due == render_needed \/ cancelled

LInv ==
    ~exited => /\ LaidOut(buf, view)
               /\ ~Due => Current(buf, view)

-----------------------------------------------------------------------------
(* The two views of the layout agree. *)
LEMMA LaidOutMeaning ==
    ASSUME NEW b, WellFormed(b), b.size > 0, NEW v
    PROVE  /\ (LaidOut(b, v) /\ v # NoView) => LayoutOK(b, v)
           /\ Current(b, v) =>
                \A n \in 0 .. b.size - 1 :
                    RowsOf(b)[n] = RowsFor(TextLength(b, linebuf_get_nth_line(b, n)), v)
<1>1. b.size \in Nat /\ b.absolute \in Nat
  BY DEF WellFormed, Buffers
<1>2. b.edit.raw = b.absolute + b.size - 1
  <2>1. b.edit.raw = linebuf_end(b) - 1
    BY DEF WellFormed
  <2> QED BY <1>1, <2>1 DEF linebuf_end
<1>3. \A n \in 0 .. b.size - 1 :
        /\ linebuf_get_nth_line(b, n) = b.absolute + n
        /\ b.absolute + n \in b.live
        /\ RowsOf(b)[n] = b.heap[b.absolute + n].render_lines
        /\ SizesOf(b)[n] = b.heap[b.absolute + n].size
  BY NthLine, Headers
<1>4. ASSUME LaidOut(b, v), v # NoView PROVE LayoutOK(b, v)
  <2> SUFFICES ASSUME NEW n \in 0 .. b.size - 2, b.absolute + n <= b.absolute_rendered
               PROVE  RowsOf(b)[n] = RowsFor(SizesOf(b)[n], v)
    BY DEF LayoutOK, RowsFor
  <2>1. n \in 0 .. b.size - 1 /\ b.absolute + n # b.edit.raw
    BY <1>1, <1>2
  <2> QED BY <1>3, <1>4, <2>1 DEF LaidOut
<1>5. ASSUME Current(b, v), NEW n \in 0 .. b.size - 1
      PROVE  RowsOf(b)[n] = RowsFor(TextLength(b, linebuf_get_nth_line(b, n)), v)
  BY <1>3, <1>5 DEF Current
<1> QED BY <1>4, <1>5

(* Editing the last line changes no layout. *)
LEMMA EditLaidOut ==
    ASSUME NEW b, WellFormed(b), Summed(b), NEW v, LaidOut(b, v),
           NEW ed \in Editors, ed.raw = b.edit.raw
    PROVE  /\ LaidOut([b EXCEPT !.edit = ed], v)
           /\ ed.size = b.edit.size /\ Current(b, v) => Current([b EXCEPT !.edit = ed], v)
<1>1. PICK c : c = [b EXCEPT !.edit = ed]
  OBVIOUS
<1>2. /\ c.edit = ed /\ c.live = b.live /\ c.heap = b.heap
      /\ c.absolute_rendered = b.absolute_rendered
      /\ linebuf_end(c) = linebuf_end(b)
  BY <1>1, EditKeepsRing
<1>3. LaidOut(c, v)
  BY <1>2 DEF LaidOut
<1>4. ed.size = b.edit.size /\ Current(b, v) => Current(c, v)
  BY <1>2 DEF Current, TextLength
<1> QED BY <1>1, <1>3, <1>4

(* A new line freezes a line that no layout has counted yet. *)
LEMMA NewlineLaidOut ==
    ASSUME NEW b, WellFormed(b), Summed(b), RoomForLine(b), NEW v, LaidOut(b, v)
    PROVE  LaidOut(NewlineBuf(b), v)
<1>1. PICK q : q = NewlineBuf(b)
  OBVIOUS
<1>2. linebuf_end(b) <= MaxLines
  BY DEF RoomForLine
<1>3. /\ WellFormed(q) /\ q.size > 0
      /\ linebuf_end(q) = linebuf_end(b) + 1
      /\ q.edit = stredit_init(linebuf_end(b))
      /\ q.absolute_rendered = b.absolute_rendered
  BY <1>1, <1>2, NewlineAndClean
<1>4. \A p \in q.live \ {linebuf_end(b)} :
        /\ p \in b.live
        /\ q.heap[p].render_lines = b.heap[p].render_lines
        /\ q.heap[p].size = IF p = linebuf_end(b) - 1 THEN b.edit.size
                                                      ELSE b.heap[p].size
  BY <1>1, <1>2, NewlineAndClean
<1>5. /\ linebuf_end(b) \in Int /\ b.absolute_rendered \in Int
      /\ b.live = b.absolute .. linebuf_end(b) - 1 /\ b.absolute \in Nat
      /\ b.size > 0 => b.edit.raw = linebuf_end(b) - 1
      /\ b.size \in Nat
  <2>1. b \in Buffers
    BY DEF WellFormed
  <2>2. b.absolute \in Nat /\ b.size \in Nat /\ b.absolute_rendered \in Int
    BY <2>1 DEF Buffers
  <2> QED BY <2>2 DEF WellFormed, linebuf_end
<1>6. b.absolute_rendered <= linebuf_end(b) - 2
  BY DEF LaidOut
<1>7. q.absolute_rendered <= linebuf_end(q) - 2
  BY <1>3, <1>5, <1>6
<1>8. ASSUME v # NoView, NEW a \in q.live \ {q.edit.raw}, a <= q.absolute_rendered
      PROVE  q.heap[a].render_lines = RowsFor(q.heap[a].size, v)
  <2>1. a \in q.live \ {linebuf_end(b)}
    BY <1>3 DEF stredit_init
  <2>2. a \in b.live /\ a \in Int /\ a <= b.absolute_rendered
    BY <1>3, <1>4, <1>5, <1>8, <2>1
  <2>3. a # linebuf_end(b) - 1 /\ b.size > 0
    BY <1>5, <1>6, <2>2 DEF linebuf_end
  <2>4. b.heap[a].render_lines = RowsFor(b.heap[a].size, v)
    BY <1>5, <1>8, <2>2, <2>3 DEF LaidOut
  <2> QED BY <1>4, <2>1, <2>3, <2>4
<1> QED BY <1>1, <1>7, <1>8 DEF LaidOut

(* A frame lays out what lazy layout did not skip; the rest was right. *)
LEMMA RenderLaidOut ==
    ASSUME NEW b, WellFormed(b), Summed(b), b.size > 0,
           NEW w \in Views \cup {NoView}, LaidOut(b, w), NEW v \in Views, NEW lazy,
           lazy => w # NoView /\ ColumnsOf(w) = ColumnsOf(v)
    PROVE  /\ LaidOut(RenderedBuf(b, ColumnsOf(v), lazy), v)
           /\ Current(RenderedBuf(b, ColumnsOf(v), lazy), v)
<1>1. PICK r : r = RenderedBuf(b, ColumnsOf(v), lazy)
  OBVIOUS
<1>2. ColumnsOf(v) \in Nat \ {0}
  BY ConsoleAssumption DEF ColumnsOf, Views
<1>3. /\ r.edit = b.edit /\ r.size = b.size /\ r.absolute = b.absolute
      /\ r.live = b.live
      /\ r.absolute_rendered = max(b.absolute_rendered, linebuf_end(b) - 2)
  BY <1>1, <1>2, Rendered
<1>4. \A a \in b.live :
        /\ r.heap[a].size = IF a = b.edit.raw THEN b.edit.size ELSE b.heap[a].size
        /\ r.heap[a].render_lines =
             IF a >= LayoutStart(b, lazy) THEN RowsFor(TextLength(b, a), v)
                                          ELSE b.heap[a].render_lines
  BY <1>1, <1>2, Rendered DEF RowsFor
<1>5. b \in Buffers /\ b.live = b.absolute .. linebuf_end(b) - 1
      /\ b.edit.raw = linebuf_end(b) - 1
  BY DEF WellFormed
<1>6. b.absolute \in Nat /\ b.size \in Nat /\ b.absolute_rendered \in Int
      /\ linebuf_end(b) \in Nat /\ linebuf_end(b) > b.absolute
      /\ b.absolute_rendered <= linebuf_end(b) - 2
  <2>1. b.absolute \in Nat /\ b.size \in Nat /\ b.absolute_rendered \in Int
    BY <1>5 DEF Buffers
  <2> QED BY <2>1 DEF linebuf_end, LaidOut
<1>7. r.absolute_rendered = linebuf_end(b) - 2 /\ linebuf_end(r) = linebuf_end(b)
  BY <1>3, <1>6 DEF max, linebuf_end
<1>8. ASSUME NEW a \in b.live
      PROVE  r.heap[a].render_lines = RowsFor(TextLength(b, a), v)
  <2>1. a \in Nat /\ b.absolute <= a /\ a <= linebuf_end(b) - 1
    BY <1>5, <1>6
  <2>2. CASE a >= LayoutStart(b, lazy)
    BY <1>4, <2>2
  <2>3. CASE ~(a >= LayoutStart(b, lazy))
    <3>1. lazy /\ a <= b.absolute_rendered /\ a # b.edit.raw
      BY <1>5, <1>6, <2>1, <2>3 DEF LayoutStart, max
    <3>2. b.heap[a].render_lines = RowsFor(b.heap[a].size, w)
      BY <3>1 DEF LaidOut
    <3>3. RowsFor(b.heap[a].size, w) = RowsFor(b.heap[a].size, v)
      BY <3>1 DEF RowsFor
    <3>4. TextLength(b, a) = b.heap[a].size
      BY <3>1 DEF TextLength
    <3> QED BY <1>4, <2>3, <3>2, <3>3, <3>4
  <2> QED BY <2>2, <2>3
<1>9. \A a \in b.live : TextLength(r, a) = TextLength(b, a)
  BY <1>3, <1>4 DEF TextLength
<1>10. Current(r, v)
  BY <1>3, <1>8, <1>9 DEF Current
<1>11. \A a \in b.live \ {b.edit.raw} : r.heap[a].render_lines = RowsFor(r.heap[a].size, v)
  BY <1>4, <1>8 DEF TextLength
<1>12. LaidOut(r, v)
  BY <1>3, <1>6, <1>7, <1>11 DEF LaidOut
<1> QED BY <1>1, <1>10, <1>12

-----------------------------------------------------------------------------
LEMMA InitLInv == Init => LInv
<1> SUFFICES ASSUME Init PROVE LInv
  OBVIOUS
<1>2. WellFormed(linebuf_init) /\ Summed(linebuf_init)
      /\ linebuf_end(linebuf_init) = 1 /\ 1 <= MaxLines
  BY EmptyBuffer, LinebufAssumption
<1>3. /\ linebuf_end(NewlineBuf(linebuf_init)) = 2
      /\ NewlineBuf(linebuf_init).absolute_rendered = 0
  <2>1. PICK q : q = NewlineBuf(linebuf_init)
    OBVIOUS
  <2>2. /\ linebuf_end(q) = linebuf_end(linebuf_init) + 1
        /\ q.absolute_rendered = linebuf_init.absolute_rendered
    BY <1>2, <2>1, NewlineAndClean
  <2> QED BY <1>2, <2>1, <2>2 DEF linebuf_init
<1> QED BY <1>3 DEF Init, LInv, LaidOut, Due

LEMMA NextLInv ==
    ASSUME IInv, LInv, Next, FontKept, ~exited'
    PROVE  LaidOut(buf', view') /\ (~Due' => Current(buf', view'))
<1>1. ~exited
  BY DEF Next, console_newline, console_write_raw, write_raw_fails, write_backspace,
         write_erase_to_end, write_cursor_escape, console_lock_prefix,
         console_set_cursor, console_delete_at_cursor, console_clear_current_line,
         console_clear, render,
         pe_enter_graphics_mode, console_destroy, Idle
<1>2. /\ WellFormed(buf) /\ Summed(buf) /\ buf.size > 0 /\ EditorOK(buf.edit)
      /\ cursor \in Nat /\ cursor <= buf.edit.size
      /\ view \in Views \cup {NoView}
  BY <1>1 DEF IInv, BufOK, TypeOK
<1>3. /\ buf.edit.size \in Nat /\ buf.edit.prefix \in Nat
      /\ buf.edit.size <= LineMax /\ LineMax \in Nat
  BY <1>2, StreditAssumption DEF EditorOK, Editors
<1>4. LaidOut(buf, view) /\ (~Due => Current(buf, view))
  BY <1>1 DEF LInv
<1>5. CASE console_newline
  BY <1>2, <1>4, <1>5, NewlineLaidOut DEF console_newline, Due
<1>6. ASSUME NEW n \in 1 .. MaxWrite, console_write_raw(n)
      PROVE  LaidOut(buf', view') /\ (~Due' => Current(buf', view'))
  <2> DEFINE round_size == min(n, stredit_capacity(buf.edit))
             ed == stredit_insert(buf.edit, round_size)
             filled == [buf EXCEPT !.edit = ed]
  <2>1. n \in Nat /\ round_size \in Nat /\ buf.edit.size + round_size <= LineMax
    BY <1>3, ConsoleAssumption DEF stredit_capacity, min
  <2>2. ed \in Editors /\ ed.raw = buf.edit.raw
    BY <1>2, <2>1, InsertKeeps DEF EditorOK
  <2>3. /\ buf' = IF round_size < n THEN NewlineBuf(filled) ELSE filled
        /\ round_size < n => RoomForLine(buf)
        /\ view' = view /\ Due'
    BY <1>6 DEF console_write_raw, WriteRound, Due
  <2> HIDE DEF ed, round_size
  <2>4. /\ WellFormed(filled) /\ Summed(filled)
        /\ linebuf_end(filled) = linebuf_end(buf)
    BY <1>2, <2>2, EditKeepsRing
  <2>5. LaidOut(filled, view)
    BY <1>2, <1>4, <2>2, EditLaidOut
  <2>6. round_size < n => LaidOut(NewlineBuf(filled), view)
    <3>1. round_size < n => RoomForLine(filled)
      BY <2>3, <2>4 DEF RoomForLine
    <3> HIDE DEF filled
    <3> QED BY <2>4, <2>5, <3>1, NewlineLaidOut
  <2> QED BY <2>3, <2>5, <2>6
<1>7. ASSUME NEW ed \in Editors, ed.raw = buf.edit.raw,
             buf' = [buf EXCEPT !.edit = ed], view' = view,
             Due' \/ (Due' = Due /\ ed.size = buf.edit.size)
      PROVE  LaidOut(buf', view') /\ (~Due' => Current(buf', view'))
  BY <1>2, <1>4, <1>7, EditLaidOut
<1>8. CASE write_backspace
  <2>1. CASE cursor > 0
    <3> DEFINE ed == stredit_delete(buf.edit, cursor - 1, 1)
    <3>1. ed \in Editors /\ ed.raw = buf.edit.raw
      BY <1>2, DeleteKeeps DEF EditorOK
    <3>2. buf' = [buf EXCEPT !.edit = ed] /\ view' = view /\ Due'
      BY <1>8, <2>1 DEF write_backspace, Due
    <3> HIDE DEF ed
    <3> QED BY <1>7, <3>1, <3>2
  <2>2. CASE ~(cursor > 0)
    BY <1>4, <1>8, <2>2 DEF write_backspace, Due
  <2> QED BY <2>1, <2>2
<1>9. CASE write_erase_to_end
  <2> DEFINE ed == stredit_delete(buf.edit, cursor, buf.edit.size - cursor)
  <2>1. ed \in Editors /\ ed.raw = buf.edit.raw
    BY <1>2, <1>3, DeleteKeeps DEF EditorOK
  <2>2. buf' = [buf EXCEPT !.edit = ed] /\ view' = view /\ Due'
    BY <1>9 DEF write_erase_to_end, Due
  <2> HIDE DEF ed
  <2> QED BY <1>7, <2>1, <2>2
<1>10. CASE console_lock_prefix
  <2> DEFINE ed == stredit_set_prefix(buf.edit, cursor)
  <2>1. ed \in Editors /\ ed.raw = buf.edit.raw /\ ed.size = buf.edit.size
    BY <1>2, PrefixKeeps DEF EditorOK
  <2>2. buf' = [buf EXCEPT !.edit = ed] /\ view' = view /\ Due' = Due
    BY <1>10 DEF console_lock_prefix, Due
  <2> HIDE DEF ed
  <2> QED BY <1>7, <2>1, <2>2
<1>11. CASE console_delete_at_cursor(1)
  <2> DEFINE ed == stredit_delete(buf.edit, cursor - 1, 1)
  <2>1. ed \in Editors /\ ed.raw = buf.edit.raw
    BY <1>2, DeleteKeeps DEF EditorOK
  <2>2. buf' = [buf EXCEPT !.edit = ed] /\ view' = view /\ Due'
    BY <1>11 DEF console_delete_at_cursor, Due
  <2> HIDE DEF ed
  <2> QED BY <1>7, <2>1, <2>2
<1>12. CASE console_clear_current_line
  <2> DEFINE ed == stredit_delete(buf.edit, buf.edit.prefix, buf.edit.size - buf.edit.prefix)
  <2>1. ed \in Editors /\ ed.raw = buf.edit.raw
    BY <1>2, <1>3, DeleteKeeps DEF EditorOK
  <2>2. buf' = [buf EXCEPT !.edit = ed] /\ view' = view /\ Due'
    BY <1>12 DEF console_clear_current_line, Due
  <2> HIDE DEF ed
  <2> QED BY <1>7, <2>1, <2>2
<1>13. CASE console_clear
  <2>1. PICK r : r = linebuf_recycle_oldest_lines(buf, buf.size)
    OBVIOUS
  <2>2. buf.size \in Nat /\ buf.absolute \in Nat
    BY <1>2 DEF WellFormed, Buffers
  <2>3. WellFormed(r) /\ Summed(r) /\ r.absolute_rendered = buf.absolute_rendered
    <3>1. WellFormed(buf) /\ Summed(buf) /\ buf.size \in Int
      BY <1>2, <2>2
    <3> QED BY <2>1, <3>1, Recycle
  <2>4. /\ r.size = buf.size - max(0, min(buf.size, buf.size))
        /\ r.absolute = buf.absolute + max(0, min(buf.size, buf.size))
    <3>1. WellFormed(buf) /\ Summed(buf) /\ buf.size \in Int
      BY <1>2, <2>2
    <3> QED BY <2>1, <3>1, Recycle
  <2>5. linebuf_end(r) = linebuf_end(buf) /\ r.size = 0 /\ r.absolute \in Nat
    BY <2>2, <2>4 DEF linebuf_end, max, min
  <2>6. r.live = {}
    BY <2>3, <2>5 DEF WellFormed, linebuf_end
  <2>7. LaidOut(r, view)
    BY <1>4, <2>3, <2>5, <2>6 DEF LaidOut
  <2>8. /\ RoomForLine(r) /\ buf' = NewlineBuf(r) /\ view' = view /\ Due'
    BY <1>13, <2>1, <2>5 DEF console_clear, RoomForLine, Due
  <2> QED BY <2>3, <2>7, <2>8, NewlineLaidOut
<1>14. ASSUME NEW v \in Views, render(v)
       PROVE  LaidOut(buf', view') /\ (~Due' => Current(buf', view'))
  <2>1. buf' = RenderedBuf(buf, ColumnsOf(v), IsLazy(v)) /\ view' = v
    BY <1>14 DEF render
  <2>2. ASSUME IsLazy(v) PROVE view # NoView /\ ColumnsOf(view) = ColumnsOf(v)
    <3>1. view[2] = v[2] /\ view[2] # 0
      BY <2>2 DEF IsLazy
    <3>2. view # NoView
      BY <3>1 DEF NoView
    <3>3. view[1] = v[1]
      BY <2>1, <3>2 DEF FontKept
    <3> QED BY <3>1, <3>2, <3>3 DEF ColumnsOf
  <2> QED BY <1>2, <1>4, <2>1, <2>2, RenderLaidOut
<1>15. ASSUME \/ \E n \in 1 .. MaxWrite : write_raw_fails(n)
              \/ \E pos : console_set_cursor(pos)
       PROVE  LaidOut(buf', view') /\ (~Due' => Current(buf', view'))
  BY <1>4, <1>15 DEF write_raw_fails, console_set_cursor, Due
<1>16. CASE write_cursor_escape
  BY <1>4, <1>16 DEF write_cursor_escape, Due
<1>17. CASE console_destroy
  BY <1>17 DEF console_destroy
<1>18. CASE pe_enter_graphics_mode
  BY <1>4, <1>18 DEF pe_enter_graphics_mode, Due
<1> QED
  BY <1>5, <1>6, <1>8, <1>9, <1>10, <1>11, <1>12, <1>13, <1>14, <1>15, <1>16, <1>17, <1>18
     DEF Next

LEMMA LInvMeaning == IInv /\ LInv => Layout /\ FrameCurrent
<1> SUFFICES ASSUME IInv, LInv, ~exited
             PROVE  /\ view # NoView => LayoutOK(buf, view)
                    /\ ~Due =>
                         \A n \in 0 .. buf.size - 1 :
                            RowsOf(buf)[n] = RowsFor(
                                TextLength(buf, linebuf_get_nth_line(buf, n)), view)
  BY DEF Layout, FrameCurrent, RowsFor, Due
<1>1. WellFormed(buf) /\ buf.size > 0
  BY DEF IInv, BufOK
<1>2. LaidOut(buf, view) /\ (~Due => Current(buf, view))
  BY DEF LInv
<1> QED BY <1>1, <1>2, LaidOutMeaning

LEMMA LInvHolds == Spec /\ [][FontKept]_vars => []LInv
<1>1. IInv /\ LInv /\ [Next]_vars /\ [FontKept]_vars => LInv'
  <2> SUFFICES ASSUME IInv, LInv, [Next]_vars, [FontKept]_vars PROVE LInv'
    OBVIOUS
  <2>1. CASE UNCHANGED vars
    BY <2>1 DEF vars, LInv, Due
  <2>2. CASE Next /\ FontKept
    BY <2>2, NextLInv DEF LInv
  <2> QED BY <2>1, <2>2
<1> QED BY <1>1, InitLInv, Invariance, PTL DEF Spec

(* As long as the shell keeps its font, the lines that lazy layout skips have
   the row counts of the current view. *)
THEOREM LayoutWhileFontKept == Spec /\ [][FontKept]_vars => []Layout
BY LInvHolds, LInvMeaning, Invariance, PTL

(* Under the same condition: a console that asks for no frame, and of which no
   program has cancelled one, has every line, also the one being edited, laid
   out for the frame that is on the screen. *)
THEOREM FrameWhileFontKept == Spec /\ [][FontKept]_vars => []FrameCurrent
BY LInvHolds, LInvMeaning, Invariance, PTL

-----------------------------------------------------------------------------
(***************************************************************************)
(* The refinement.  Scrollback speaks of numbered lines, the buffer of a   *)
(* ring of pointers and running totals; Stored relates them.  The step     *)
(* that needs work is a new line: linebuf_newline() drops the lines that   *)
(* the capacity leaves no room for, linebuf_clean_backlog() counts bytes   *)
(* down from its running total, and together they keep exactly the lines   *)
(* that StartLine keeps.                                                   *)
(***************************************************************************)
(* The two modules mean the same sum. *)
LEMMA SameSum ==
    ASSUME NEW f, NEW n
    PROVE  Abstract!SumTo(f, n) = SumTo(f, n)
BY DEF Abstract!SumTo, SumTo

(* The bytes of the lines a .. z of t. *)
LEMMA BytesOf ==
    ASSUME NEW t, NEW a, NEW z
    PROVE  Abstract!Bytes(t, a, z) = SumTo([k \in 0 .. z - a |-> t[a + k]], z - a + 1)
BY SameSum DEF Abstract!Bytes

(* The text of a buffer by line number, with the blocks instead of the ring. *)
Stored(b) ==
    [a \in b.absolute .. linebuf_end(b) - 1 |->
        TextLength(b, linebuf_get_nth_line(b, a - b.absolute))]

LEMMA StoredLine ==
    ASSUME NEW b, WellFormed(b), NEW a \in b.absolute .. linebuf_end(b) - 1
    PROVE  Stored(b)[a] = TextLength(b, a) /\ a \in b.live
<1>1. b.size \in Nat /\ b.absolute \in Nat
  BY DEF WellFormed, Buffers
<1>2. a - b.absolute \in 0 .. b.size - 1 /\ b.absolute + (a - b.absolute) = a
  BY <1>1 DEF linebuf_end
<1>3. linebuf_get_nth_line(b, a - b.absolute) = a /\ a \in b.live
  BY <1>2, NthLine
<1> QED BY <1>3 DEF Stored

(* A step that leaves the lines but the last one alone. *)
LEMMA EditRefines ==
    ASSUME NEW b, WellFormed(b), b.size > 0, NEW c, WellFormed(c),
           c.absolute = b.absolute, c.size = b.size,
           \A a \in b.live \ {b.edit.raw} : c.heap[a].size = b.heap[a].size
    PROVE  Stored(c) = [Stored(b) EXCEPT ![linebuf_end(b) - 1] = c.edit.size]
<1>1. /\ linebuf_end(c) = linebuf_end(b)
      /\ b.edit.raw = linebuf_end(b) - 1 /\ c.edit.raw = linebuf_end(b) - 1
  BY DEF WellFormed, linebuf_end
<1>2. ASSUME NEW a \in b.absolute .. linebuf_end(b) - 1
      PROVE  Stored(c)[a] = IF a = linebuf_end(b) - 1 THEN c.edit.size ELSE Stored(b)[a]
  <2>1. /\ Stored(b)[a] = TextLength(b, a) /\ a \in b.live
        /\ Stored(c)[a] = TextLength(c, a)
    BY <1>1, StoredLine
  <2> QED BY <1>1, <2>1 DEF TextLength
<1>3. /\ Stored(c) = [a \in b.absolute .. linebuf_end(b) - 1 |-> Stored(c)[a]]
      /\ DOMAIN Stored(b) = b.absolute .. linebuf_end(b) - 1
      /\ Stored(b) = [a \in b.absolute .. linebuf_end(b) - 1 |-> Stored(b)[a]]
  BY <1>1 DEF Stored
<1> QED BY <1>2, <1>3

(* The bytes that the loop of linebuf_clean_backlog() counts, r lines dropped,
   are those of the lines that stay; t is the text with the new, empty line. *)
LEMMA BytesLeft ==
    ASSUME NEW n, WellFormed(n), Summed(n), n.size > 0, n.edit.size = 0,
           NEW t, t[linebuf_end(n) - 1] = 0,
           \A a \in n.absolute .. linebuf_end(n) - 2 : t[a] = n.heap[a].size,
           NEW r \in 0 .. n.size - 1
    PROVE  Abstract!Bytes(t, n.absolute + r, linebuf_end(n) - 1) = BytesWithout(n, r)
<1> DEFINE z  == linebuf_end(n) - 1
           f  == [k \in 0 .. n.size - 1 |-> t[n.absolute + k]]
           g  == [k \in 0 .. z - (n.absolute + r) |-> t[(n.absolute + r) + k]]
           sz == SizesOf(n)
<1>1. n.size \in Nat /\ n.absolute \in Nat /\ n.total_size_except_last \in Int
  BY DEF WellFormed, Buffers
<1>2. z - (n.absolute + r) + 1 = n.size - r /\ n.size - r \in Nat /\ r \in Nat
  BY <1>1 DEF linebuf_end
<1>3. \A k \in 0 .. n.size - 1 : sz[k] = n.heap[n.absolute + k].size /\ sz[k] \in Nat
  BY Headers
<1>4. \A k \in 0 .. n.size - 2 : f[k] = sz[k]
  <2> TAKE k \in 0 .. n.size - 2
  <2>1. /\ k \in 0 .. n.size - 1
        /\ n.absolute + k \in n.absolute .. linebuf_end(n) - 2
    BY <1>1 DEF linebuf_end
  <2> QED BY <1>3, <2>1
<1>5. f[n.size - 1] = 0
  <2>1. n.absolute + (n.size - 1) = linebuf_end(n) - 1 /\ n.size - 1 \in 0 .. n.size - 1
    BY <1>1 DEF linebuf_end
  <2> QED BY <2>1
<1>6. \A k \in 0 .. n.size - r - 1 : g[k] = f[r + k]
  <2> TAKE k \in 0 .. n.size - r - 1
  <2>1. /\ k \in 0 .. z - (n.absolute + r) /\ r + k \in 0 .. n.size - 1
        /\ (n.absolute + r) + k = n.absolute + (r + k)
    BY <1>1, <1>2 DEF linebuf_end
  <2> QED BY <2>1
<1>7. Abstract!Bytes(t, n.absolute + r, z) = SumTo(g, n.size - r)
  BY <1>2, BytesOf
<1>8. n.total_size_except_last = SumTo(sz, n.size - 1)
  BY <1>1 DEF Summed, max
<1> HIDE DEF f, g, sz, z
<1>9. \A k \in 0 .. n.size - 1 : f[k] \in Int
  <2> TAKE k \in 0 .. n.size - 1
  <2>1. CASE k = n.size - 1
    BY <1>5, <2>1
  <2>2. CASE k # n.size - 1
    <3>1. k \in 0 .. n.size - 2
      BY <1>1, <2>2
    <3> QED BY <1>3, <1>4, <3>1
  <2> QED BY <2>1, <2>2
<1>10. SumTo(f, r + (n.size - r)) = SumTo(f, r) + SumTo(g, n.size - r)
  <2>1. \A k \in 0 .. r + (n.size - r) - 1 : f[k] \in Int
    BY <1>1, <1>2, <1>9
  <2> QED BY <1>2, <1>6, <2>1, SumSplit
<1>11. SumTo(f, r) = SumTo(sz, r)
  <2>1. \A k \in 0 .. r - 1 : f[k] = sz[k]
    BY <1>1, <1>4
  <2> QED BY <1>2, <2>1, SumEqual
<1>12. SumTo(f, n.size - 1) = SumTo(sz, n.size - 1)
  <2>1. n.size - 1 \in Nat /\ \A k \in 0 .. (n.size - 1) - 1 : f[k] = sz[k]
    BY <1>1, <1>4
  <2> QED BY <2>1, SumEqual
<1>13. SumTo(f, n.size) = SumTo(f, n.size - 1) + f[n.size - 1]
  <2>1. n.size - 1 \in Nat /\ (n.size - 1) + 1 = n.size
    BY <1>1
  <2>2. SumTo(f, (n.size - 1) + 1) = SumTo(f, n.size - 1) + f[n.size - 1]
    BY <2>1, SumNext
  <2> QED BY <2>1, <2>2
<1>14. /\ SumTo(sz, r) \in Int /\ SumTo(sz, n.size - 1) \in Int
  BY <1>1, Headers DEF sz
<1>15. SumTo(g, n.size - r) \in Int
  <2>1. \A k \in 0 .. (n.size - r) - 1 : g[k] \in Int
    <3> TAKE k \in 0 .. (n.size - r) - 1
    <3>1. r + k \in 0 .. n.size - 1
      BY <1>1, <1>2
    <3> QED BY <1>6, <1>9, <3>1
  <2>2. n.size - r \in 0 .. n.size - r
    BY <1>2
  <2> QED BY <1>2, <2>1, <2>2, SumInt
<1>16. r + (n.size - r) = n.size
  BY <1>1, <1>2
<1>17. SumTo(g, n.size - r) = SumTo(sz, n.size - 1) - SumTo(sz, r)
  BY <1>5, <1>10, <1>11, <1>12, <1>13, <1>14, <1>15, <1>16
<1>18. BytesWithout(n, r) = SumTo(sz, n.size - 1) - SumTo(sz, r)
  BY <1>8, <1>14 DEF BytesWithout, sz
<1> QED BY <1>7, <1>17, <1>18 DEF z

(* A new line keeps of the text t what StartLine keeps of it. *)
LEMMA NewlineRefines ==
    ASSUME NEW b, WellFormed(b), Summed(b), b.size > 0, linebuf_end(b) <= MaxLines,
           NEW q, q = NewlineBuf(b),
           NEW t, t[linebuf_end(b)] = 0,
           \A a \in b.absolute .. linebuf_end(b) - 1 : t[a] = TextLength(b, a)
    PROVE  /\ WellFormed(q)
           /\ linebuf_end(q) - 1 = linebuf_end(b)
           /\ q.absolute \in b.absolute .. linebuf_end(b)
           /\ Abstract!Fits(t, q.absolute, linebuf_end(b))
           /\ \A c \in b.absolute .. q.absolute - 1 : ~Abstract!Fits(t, c, linebuf_end(b))
           /\ \A a \in q.absolute .. linebuf_end(b) : Stored(q)[a] = t[a]
<1> DEFINE e == linebuf_end(b)
<1>1. PICK n : n = linebuf_newline(b)
  OBVIOUS
<1>2. /\ WellFormed(n) /\ Summed(n) /\ n.size > 0
      /\ n.absolute >= b.absolute
      /\ n.absolute = b.absolute + max(0, b.size - Capacity + 1)
      /\ linebuf_end(n) = e + 1
      /\ n.edit = stredit_init(e)
  BY <1>1, Newline
<1>3. \A p \in n.live \ {e} :
            /\ p \in b.live
            /\ n.heap[p].size = IF p = e - 1 THEN b.edit.size ELSE b.heap[p].size
  BY <1>1, Newline
<1>4. q = linebuf_clean_backlog(n)
  BY <1>1 DEF NewlineBuf
<1>5. PICK m \in 0 .. n.size - 1 :
        /\ q = linebuf_recycle_oldest_lines(n, m)
        /\ m = n.size - 1 \/ BytesWithout(n, m) <= BacklogSize
        /\ \A k \in 0 .. m - 1 : ~(BytesWithout(n, k) <= BacklogSize)
  BY <1>2, <1>4, CleanBacklog
<1>6. /\ n.size \in Nat /\ n.absolute \in Nat /\ n.edit.size = 0
      /\ b.absolute \in Nat /\ b.size \in Nat /\ e \in Nat
      /\ Capacity \in Nat /\ n.size <= Capacity
      /\ m \in Nat /\ m <= n.size - 1 /\ m \in Int
      /\ b.edit.raw = e - 1
      /\ n.live = n.absolute .. e
      /\ n.absolute + n.size = e + 1 /\ b.absolute + b.size = e
  <2>1. n.edit.size = 0
    BY <1>2 DEF stredit_init
  <2>2. n \in Buffers /\ b \in Buffers /\ n.size \in 0 .. Capacity
    BY <1>2 DEF WellFormed
  <2>3. b.absolute \in Nat /\ b.size \in Nat
    BY <2>2 DEF Buffers
  <2>4. n.size \in Nat /\ n.absolute \in Nat
    BY <2>2 DEF Buffers
  <2>5. Capacity \in Nat
    BY LinebufAssumption
  <2>6. b.edit.raw = e - 1 /\ n.live = n.absolute .. linebuf_end(n) - 1
    BY <1>2 DEF WellFormed
  <2>7. n.absolute + n.size = e + 1 /\ b.absolute + b.size = e
    BY <1>2 DEF linebuf_end
  <2>8. m \in Nat /\ m <= n.size - 1 /\ m \in Int
    BY <1>5, <2>4
  <2> QED BY <1>2, <2>1, <2>2, <2>3, <2>4, <2>5, <2>6, <2>7, <2>8, SMTT(40)
<1>7. /\ WellFormed(q) /\ q.edit = n.edit
      /\ q.size = n.size - m /\ q.absolute = n.absolute + m
  <2>1. WellFormed(n) /\ Summed(n) /\ q = linebuf_recycle_oldest_lines(n, m) /\ m \in Int
    BY <1>2, <1>5, <1>6
  <2>2. WellFormed(q) /\ q.edit = n.edit
    BY <2>1, Recycle
  <2>3. /\ q.size = n.size - max(0, min(m, n.size))
        /\ q.absolute = n.absolute + max(0, min(m, n.size))
    BY <2>1, Recycle
  <2> QED BY <1>6, <2>2, <2>3 DEF max, min
<1>8. \A p \in q.live : p \in n.live /\ q.heap[p] = n.heap[p]
  <2>1. WellFormed(n) /\ Summed(n) /\ m \in Int /\ q = linebuf_recycle_oldest_lines(n, m)
    BY <1>2, <1>5, <1>6
  <2> QED BY <2>1, RecycleKeeps
<1>9. /\ n.size \in Nat /\ n.absolute \in Nat /\ b.absolute \in Nat /\ e \in Nat
       /\ m \in Nat /\ m <= n.size - 1 /\ n.absolute + n.size = e + 1
       /\ q.size = n.size - m /\ q.absolute = n.absolute + m
       /\ n.absolute >= b.absolute
  BY <1>2, <1>6, <1>7, Zenon
<1>10. linebuf_end(q) - 1 = e /\ q.absolute \in b.absolute .. e
  BY <1>9 DEF linebuf_end
<1>11. \A a \in n.absolute .. e - 1 : t[a] = n.heap[a].size
  <2> TAKE a \in n.absolute .. e - 1
  <2>1. a \in n.live \ {e} /\ a \in b.absolute .. e - 1
    BY <1>2, <1>6, SMTT(40)
  <2>2. t[a] = TextLength(b, a)
    BY <2>1
  <2> QED BY <1>3, <1>6, <2>1, <2>2 DEF TextLength
<1>12. \A r \in 0 .. n.size - 1 : Abstract!Bytes(t, n.absolute + r, e) = BytesWithout(n, r)
  <2> TAKE r \in 0 .. n.size - 1
  <2>1. linebuf_end(n) - 1 = e /\ linebuf_end(n) - 2 = e - 1
    BY <1>2, <1>6, SMTT(40)
  <2> HIDE DEF e
  <2>2. /\ t[linebuf_end(n) - 1] = 0
        /\ \A a \in n.absolute .. linebuf_end(n) - 2 : t[a] = n.heap[a].size
    BY <1>11, <2>1 DEF e
  <2>3. Abstract!Bytes(t, n.absolute + r, linebuf_end(n) - 1) = BytesWithout(n, r)
    BY <1>2, <1>6, <2>2, BytesLeft
  <2> QED BY <2>1, <2>3
<1> HIDE DEF e
<1>13. Abstract!Fits(t, q.absolute, e)
  <2>1. e - q.absolute + 1 <= Capacity
    BY <1>6, <1>7
  <2>2. CASE m = n.size - 1
    <3>1. q.absolute = e
      BY <1>9, <2>2
    <3> QED BY <2>1, <3>1 DEF Abstract!Fits
  <2>3. CASE BytesWithout(n, m) <= BacklogSize
    BY <1>7, <1>12, <2>1, <2>3 DEF Abstract!Fits
  <2> QED BY <1>5, <2>2, <2>3
<1>14. ASSUME NEW c \in b.absolute .. q.absolute - 1
       PROVE  ~Abstract!Fits(t, c, e)
  <2>1. c \in Nat /\ b.absolute <= c /\ c < q.absolute
    BY <1>9
  <2>2. CASE c < n.absolute
    <3>1. e - c + 1 > Capacity
      BY <1>2, <1>6, <2>1, <2>2, SMTT(40) DEF max
    <3>2. ~(e - c + 1 <= Capacity)
      BY <1>6, <2>1, <3>1
    <3> QED BY <3>2 DEF Abstract!Fits
  <2>3. CASE ~(c < n.absolute)
    <3>1. PICK k : k = c - n.absolute
      OBVIOUS
    <3>2. k \in 0 .. m - 1 /\ k \in 0 .. n.size - 1 /\ c = n.absolute + k /\ c # e
      BY <1>9, <2>1, <2>3, <3>1
    <3>3. ~(Abstract!Bytes(t, c, e) <= BacklogSize)
      BY <1>5, <1>12, <3>2
    <3> QED BY <3>2, <3>3 DEF Abstract!Fits
  <2> QED BY <2>2, <2>3
<1>15. ASSUME NEW a \in q.absolute .. e
       PROVE  Stored(q)[a] = t[a]
  <2>1. Stored(q)[a] = TextLength(q, a) /\ a \in q.live
    BY <1>7, <1>10, StoredLine
  <2>2. q.edit.raw = e /\ q.edit.size = 0
    BY <1>2, <1>7 DEF stredit_init, e
  <2>3. CASE a = e
    BY <2>1, <2>2, <2>3 DEF TextLength, e
  <2>4. CASE a # e
    <3>1. a \in n.absolute .. e - 1
      BY <1>6, <1>7, <2>4
    <3> QED BY <1>8, <1>11, <2>1, <2>2, <2>4, <3>1 DEF TextLength
  <2> QED BY <2>3, <2>4
<1> QED BY <1>7, <1>10, <1>13, <1>14, <1>15 DEF e

(* The console starts with one empty line. *)
LEMMA InitRefines == Init => Abstract!SInit
<1> SUFFICES ASSUME Init PROVE Abstract!SInit
  OBVIOUS
<1>1. WellFormed(linebuf_init) /\ Summed(linebuf_init)
      /\ linebuf_end(linebuf_init) = 1 /\ 1 <= MaxLines
      /\ linebuf_init.absolute = 1
  BY EmptyBuffer, LinebufAssumption DEF linebuf_init
<1>2. buf = NewlineBuf(linebuf_init)
  BY DEF Init
<1>3. /\ WellFormed(buf) /\ buf.size > 0 /\ buf.absolute >= 1
      /\ linebuf_end(buf) = 1 + 1 /\ buf.edit = stredit_init(1)
  BY <1>1, <1>2, NewlineAndClean
<1>4. buf.size \in Nat /\ buf.absolute \in Nat
  BY <1>3 DEF WellFormed, Buffers
<1>5. buf.absolute = 1 /\ linebuf_end(buf) - 1 = 1
  BY <1>3, <1>4 DEF linebuf_end
<1>6. Stored(buf)[1] = 0
  BY <1>3, <1>5, StoredLine DEF TextLength, stredit_init
<1>7. Stored(buf) = [a \in {1} |-> 0]
  <2>1. Stored(buf) = [a \in 1 .. 1 |-> Stored(buf)[a]]
    BY <1>5 DEF Stored
  <2>2. 1 .. 1 = {1}
    OBVIOUS
  <2> QED BY <1>6, <2>1, <2>2
<1> QED BY <1>5, <1>7 DEF Abstract!SInit, StoredText, Stored

(* Every step of the console is a step of Scrollback, or leaves the lines
   alone. *)
LEMMA NextRefines ==
    ASSUME IInv, Next
    PROVE  Abstract!SNext \/ UNCHANGED buf
<1>1. ~exited
  BY DEF Next, console_newline, console_write_raw, write_raw_fails, write_backspace,
         write_erase_to_end, write_cursor_escape, console_lock_prefix,
         console_set_cursor, console_delete_at_cursor, console_clear_current_line,
         console_clear, render,
         pe_enter_graphics_mode, console_destroy, Idle
<1>2. WellFormed(buf) /\ Summed(buf) /\ buf.size > 0 /\ EditorOK(buf.edit)
      /\ cursor \in Nat /\ cursor <= buf.edit.size
  BY <1>1 DEF IInv, BufOK
<1>3. /\ buf.edit.size \in Nat /\ buf.edit.prefix \in Nat
      /\ buf.edit.prefix <= buf.edit.size /\ buf.edit.size <= LineMax
      /\ LineMax \in Nat /\ buf.absolute \in Nat /\ buf.size \in Nat
      /\ linebuf_end(buf) \in Nat /\ buf.absolute <= linebuf_end(buf) - 1
  <2>1. /\ buf.edit.size \in Nat /\ buf.edit.prefix \in Nat
        /\ buf.edit.prefix <= buf.edit.size /\ buf.edit.size <= LineMax
        /\ LineMax \in Nat
    BY <1>2, StreditAssumption DEF EditorOK, Editors
  <2>2. buf.absolute \in Nat /\ buf.size \in Nat
    BY <1>2 DEF WellFormed, Buffers
  <2> QED BY <1>2, <2>1, <2>2 DEF linebuf_end
<1>4. StoredText = Stored(buf) /\ StoredText' = Stored(buf')
  BY DEF StoredText, Stored
<1>5. ASSUME WellFormed(buf'), buf'.absolute = buf.absolute, buf'.size = buf.size,
             \A a \in buf.live \ {buf.edit.raw} : buf'.heap[a].size = buf.heap[a].size,
             buf'.edit.size \in 0 .. LineMax
      PROVE  Abstract!SNext
  <2>1. Stored(buf') = [Stored(buf) EXCEPT ![linebuf_end(buf) - 1] = buf'.edit.size]
    BY <1>2, <1>5, EditRefines
  <2>2. linebuf_end(buf)' = linebuf_end(buf)
    BY <1>5 DEF linebuf_end
  <2>3. Abstract!EditLast(buf'.edit.size)
    BY <1>4, <1>5, <2>1, <2>2 DEF Abstract!EditLast
  <2> QED BY <1>3, <1>5, <2>3 DEF Abstract!SNext
<1>6. ASSUME NEW ed, EditorOK(ed), ed.raw = buf.edit.raw, buf' = [buf EXCEPT !.edit = ed]
      PROVE  Abstract!SNext
  <2>1. ed \in Editors /\ ed.size \in 0 .. LineMax
    BY <1>3, <1>6 DEF EditorOK, Editors
  <2>2. /\ WellFormed(buf') /\ buf'.absolute = buf.absolute /\ buf'.size = buf.size
        /\ buf'.heap = buf.heap /\ buf'.edit = ed
    BY <1>2, <1>6, <2>1, EditKeepsRing
  <2> QED BY <1>5, <2>1, <2>2
(* The line ends with the text of b, which is that of buf but for the last. *)
<1>7. ASSUME NEW b, WellFormed(b), Summed(b), RoomForLine(b), buf' = NewlineBuf(b),
             b.absolute = buf.absolute, b.size = buf.size, b.heap = buf.heap,
             b.edit.raw = buf.edit.raw, b.edit.size \in 0 .. LineMax
      PROVE  Abstract!SNext
  <2> DEFINE z == linebuf_end(buf)
             n == b.edit.size
             t == [a \in buf.absolute .. z |->
                     IF a = z THEN 0 ELSE IF a = z - 1 THEN n ELSE Stored(buf)[a]]
  <2>1. linebuf_end(b) = z /\ b.size > 0 /\ z <= MaxLines /\ buf.edit.raw = z - 1
    BY <1>2, <1>7 DEF linebuf_end, RoomForLine, WellFormed
  <2>2. t[z] = 0 /\ \A a \in buf.absolute .. z - 1 : t[a] = TextLength(b, a)
    <3>1. t[z] = 0
      BY <1>3
    <3>2. ASSUME NEW a \in buf.absolute .. z - 1 PROVE t[a] = TextLength(b, a)
      <4>1. Stored(buf)[a] = TextLength(buf, a)
        BY <1>2, StoredLine
      <4>2. a \in buf.absolute .. z /\ a # z
        BY <1>3
      <4> QED BY <1>7, <2>1, <4>1, <4>2 DEF TextLength
    <3> QED BY <3>1, <3>2
  <2> HIDE DEF t
  <2>3. /\ WellFormed(buf') /\ linebuf_end(buf') - 1 = z
        /\ buf'.absolute \in buf.absolute .. z
        /\ Abstract!Fits(t, buf'.absolute, z)
        /\ \A c \in buf.absolute .. buf'.absolute - 1 : ~Abstract!Fits(t, c, z)
        /\ \A a \in buf'.absolute .. z : Stored(buf')[a] = t[a]
    <3>1. PICK q : q = buf'
      OBVIOUS
    <3>2. /\ WellFormed(q) /\ linebuf_end(q) - 1 = z
          /\ q.absolute \in buf.absolute .. z
          /\ Abstract!Fits(t, q.absolute, z)
          /\ \A c \in buf.absolute .. q.absolute - 1 : ~Abstract!Fits(t, c, z)
          /\ \A a \in q.absolute .. z : Stored(q)[a] = t[a]
      BY <1>7, <2>1, <2>2, <3>1, NewlineRefines
    <3> QED BY <3>1, <3>2
  <2>4. StoredText' = Abstract!Suffix(t, buf'.absolute, z)
    <3>1. Stored(buf') = [a \in buf'.absolute .. z |-> Stored(buf')[a]]
      BY <2>3 DEF Stored
    <3>2. Stored(buf') = [a \in buf'.absolute .. z |-> t[a]]
      BY <2>3, <3>1
    <3> QED BY <1>4, <3>2 DEF Abstract!Suffix
  <2>5. Abstract!StartLine(n)
    <3>1. (z - 1) + 1 = z /\ linebuf_end(buf)' - 1 = z
      BY <1>3, <2>3 DEF linebuf_end
    <3>2. t = [a \in buf.absolute .. z |->
                 IF a = z THEN 0 ELSE IF a = z - 1 THEN n ELSE StoredText[a]]
      BY <1>4 DEF t
    <3> QED BY <2>3, <2>4, <3>1, <3>2 DEF Abstract!StartLine
  <2> QED BY <1>3, <1>7, <2>5 DEF Abstract!SNext
<1>8. CASE console_newline
  BY <1>2, <1>3, <1>7, <1>8 DEF console_newline
<1>9. ASSUME NEW n \in 1 .. MaxWrite, console_write_raw(n)
      PROVE  Abstract!SNext
  <2> DEFINE round_size == min(n, stredit_capacity(buf.edit))
             ed == stredit_insert(buf.edit, round_size)
             filled == [buf EXCEPT !.edit = ed]
  <2>1. n \in Nat /\ round_size \in Nat /\ buf.edit.size + round_size <= LineMax
    BY <1>3, ConsoleAssumption DEF stredit_capacity, min
  <2>2. EditorOK(ed) /\ ed.raw = buf.edit.raw /\ ed.size = buf.edit.size + round_size
    BY <1>2, <2>1, InsertKeeps
  <2>3. /\ buf' = IF round_size < n THEN NewlineBuf(filled) ELSE filled
        /\ round_size < n => RoomForLine(buf)
    BY <1>9 DEF console_write_raw, WriteRound
  <2>4. ed \in Editors
    BY <2>2 DEF EditorOK
  <2> HIDE DEF ed, round_size
  <2>5. /\ WellFormed(filled) /\ Summed(filled) /\ linebuf_end(filled) = linebuf_end(buf)
        /\ filled.absolute = buf.absolute /\ filled.size = buf.size
        /\ filled.heap = buf.heap /\ filled.edit = ed
    BY <1>2, <2>2, <2>4, EditKeepsRing
  <2>6. CASE round_size < n
    <3>1. RoomForLine(filled) /\ buf' = NewlineBuf(filled)
      BY <2>3, <2>5, <2>6 DEF RoomForLine
    <3>2. filled.edit.raw = buf.edit.raw /\ filled.edit.size \in 0 .. LineMax
      BY <1>3, <2>1, <2>2, <2>5
    <3> HIDE DEF filled
    <3> QED BY <1>7, <2>5, <3>1, <3>2
  <2>7. CASE ~(round_size < n)
    BY <1>6, <2>2, <2>3, <2>7
  <2> QED BY <2>6, <2>7
<1>10. CASE write_backspace
  <2>1. CASE cursor > 0
    <3> DEFINE ed == stredit_delete(buf.edit, cursor - 1, 1)
    <3>1. EditorOK(ed) /\ ed.raw = buf.edit.raw
      BY <1>2, <1>3, DeleteKeeps
    <3>2. buf' = [buf EXCEPT !.edit = ed]
      BY <1>10, <2>1 DEF write_backspace
    <3> HIDE DEF ed
    <3> QED BY <1>6, <3>1, <3>2
  <2>2. CASE ~(cursor > 0)
    BY <1>10, <2>2 DEF write_backspace
  <2> QED BY <2>1, <2>2
<1>11. CASE write_erase_to_end
  <2> DEFINE ed == stredit_delete(buf.edit, cursor, buf.edit.size - cursor)
  <2>1. EditorOK(ed) /\ ed.raw = buf.edit.raw
    BY <1>2, <1>3, DeleteKeeps
  <2>2. buf' = [buf EXCEPT !.edit = ed]
    BY <1>11 DEF write_erase_to_end
  <2> HIDE DEF ed
  <2> QED BY <1>6, <2>1, <2>2
<1>12. CASE console_lock_prefix
  <2> DEFINE ed == stredit_set_prefix(buf.edit, cursor)
  <2>1. EditorOK(ed) /\ ed.raw = buf.edit.raw
    BY <1>2, PrefixKeeps
  <2>2. buf' = [buf EXCEPT !.edit = ed]
    BY <1>12 DEF console_lock_prefix
  <2> HIDE DEF ed
  <2> QED BY <1>6, <2>1, <2>2
<1>13. CASE console_delete_at_cursor(1)
  <2> DEFINE ed == stredit_delete(buf.edit, cursor - 1, 1)
  <2>1. EditorOK(ed) /\ ed.raw = buf.edit.raw
    BY <1>2, <1>3, DeleteKeeps
  <2>2. buf' = [buf EXCEPT !.edit = ed]
    BY <1>13 DEF console_delete_at_cursor
  <2> HIDE DEF ed
  <2> QED BY <1>6, <2>1, <2>2
<1>14. CASE console_clear_current_line
  <2> DEFINE ed == stredit_delete(buf.edit, buf.edit.prefix, buf.edit.size - buf.edit.prefix)
  <2>1. EditorOK(ed) /\ ed.raw = buf.edit.raw
    BY <1>2, <1>3, DeleteKeeps
  <2>2. buf' = [buf EXCEPT !.edit = ed]
    BY <1>14 DEF console_clear_current_line
  <2> HIDE DEF ed
  <2> QED BY <1>6, <2>1, <2>2
<1>15. CASE console_clear
  <2>1. PICK r : r = linebuf_recycle_oldest_lines(buf, buf.size)
    OBVIOUS
  <2>2. WellFormed(buf) /\ Summed(buf) /\ buf.size \in Int
    BY <1>2, <1>3
  <2>3. WellFormed(r) /\ Summed(r)
    BY <2>1, <2>2, Recycle
  <2>4. /\ r.size = buf.size - max(0, min(buf.size, buf.size))
        /\ r.absolute = buf.absolute + max(0, min(buf.size, buf.size))
    BY <2>1, <2>2, Recycle
  <2>5. linebuf_end(r) = linebuf_end(buf) /\ r.absolute = linebuf_end(buf)
    BY <1>3, <2>4 DEF linebuf_end, max, min
  <2>6. linebuf_end(r) <= MaxLines /\ buf' = NewlineBuf(r)
    BY <1>15, <2>1, <2>5 DEF console_clear, RoomForLine
  <2>7. PICK q : q = buf'
    OBVIOUS
  <2>8. /\ WellFormed(q) /\ q.size > 0 /\ q.absolute >= r.absolute
        /\ linebuf_end(q) = linebuf_end(r) + 1
        /\ q.edit = stredit_init(linebuf_end(r))
    BY <2>3, <2>6, <2>7, NewlineAndClean
  <2>9. q.size \in Nat /\ q.absolute \in Nat
    BY <2>8 DEF WellFormed, Buffers
  <2>10. PICK z : z = linebuf_end(buf)
    OBVIOUS
  <2>11. z \in Nat /\ q.absolute = z /\ linebuf_end(q) - 1 = z /\ (z - 1) + 1 = z
    BY <1>3, <2>5, <2>8, <2>9, <2>10 DEF linebuf_end
  <2>12. Stored(q) = [a \in {z} |-> 0]
    <3>1. Stored(q) = [a \in z .. z |-> Stored(q)[a]] /\ z .. z = {z}
      BY <2>11 DEF Stored
    <3>2. q.edit.raw = z /\ q.edit.size = 0
      BY <2>5, <2>8, <2>10 DEF stredit_init
    <3>3. Stored(q)[z] = 0
      BY <2>8, <2>11, <3>2, StoredLine DEF TextLength
    <3> QED BY <3>1, <3>3
  <2>13. linebuf_end(buf)' = linebuf_end(q) /\ buf.absolute' = z
    BY <2>7, <2>11 DEF linebuf_end
  <2>14. Abstract!Clear
    BY <1>4, <2>7, <2>10, <2>11, <2>12, <2>13 DEF Abstract!Clear
  <2> QED BY <1>3, <2>14 DEF Abstract!SNext
<1>16. ASSUME NEW v \in Views, render(v)
       PROVE  Abstract!SNext
  <2>1. ColumnsOf(v) \in Nat \ {0}
    BY ConsoleAssumption DEF ColumnsOf, Views
  <2>2. buf' = RenderedBuf(buf, ColumnsOf(v), IsLazy(v))
    BY <1>16 DEF render
  <2>3. PICK w : w = buf'
    OBVIOUS
  <2>4. /\ WellFormed(w) /\ w.edit = buf.edit /\ w.size = buf.size
        /\ w.absolute = buf.absolute
        /\ \A a \in buf.live : w.heap[a].size =
              IF a = buf.edit.raw THEN buf.edit.size ELSE buf.heap[a].size
    BY <1>2, <2>1, <2>2, <2>3, Rendered
  <2> QED BY <1>3, <1>5, <2>3, <2>4
<1>17. CASE console_destroy
  <2>1. buf'.absolute = 1 /\ buf'.size = 0
    BY <1>17 DEF console_destroy, linebuf_init
  <2>2. linebuf_end(buf)' - 1 = 0
    BY <2>1 DEF linebuf_end
  <2>3. linebuf_end(buf') - 1 = 0
    BY <2>1 DEF linebuf_end
  <2>4. Stored(buf') = Abstract!Suffix(StoredText, 1, 0)
    <3>1. 1 .. 0 = {}
      OBVIOUS
    <3> QED BY <2>1, <2>3, <3>1 DEF Stored, Abstract!Suffix
  <2>5. Abstract!Close
    BY <1>4, <2>1, <2>2, <2>4 DEF Abstract!Close
  <2> QED BY <1>3, <2>5 DEF Abstract!SNext
<1>18. ASSUME \/ \E n \in 1 .. MaxWrite : write_raw_fails(n)
              \/ \E pos : console_set_cursor(pos)
              \/ write_cursor_escape \/ pe_enter_graphics_mode
       PROVE  UNCHANGED buf
  BY <1>18 DEF write_raw_fails, console_set_cursor, write_cursor_escape,
               pe_enter_graphics_mode
<1> QED
  BY <1>8, <1>9, <1>10, <1>11, <1>12, <1>13, <1>14, <1>15, <1>16, <1>17, <1>18 DEF Next

(* The console implements Scrollback: its ring, its running totals and its
   memory never show in the numbered lines that a reader of the buffer sees. *)
THEOREM ScrollbackImplemented == Spec => ImplementsScrollback
<1>1. IInv /\ [Next]_vars => [Abstract!SNext]_(Abstract!svars)
  <2> SUFFICES ASSUME IInv, [Next]_vars
               PROVE  Abstract!SNext \/ UNCHANGED Abstract!svars
    OBVIOUS
  <2>1. UNCHANGED buf => UNCHANGED Abstract!svars
    BY DEF Abstract!svars, StoredText, linebuf_end, TextLength, linebuf_get_nth_line,
           linebuf_nth_to_index
  <2>2. CASE UNCHANGED vars
    BY <2>1, <2>2 DEF vars
  <2>3. CASE Next
    BY <2>1, <2>3, NextRefines
  <2> QED BY <2>2, <2>3
<1> QED BY <1>1, InitRefines, Invariance, PTL DEF Spec, ImplementsScrollback, Abstract!SSpec

-----------------------------------------------------------------------------
(***************************************************************************)
(* The frame.  console_render() searches from the bottom for the first     *)
(* line to draw and clips every line on its own; Window says which rows    *)
(* belong on the screen.  They agree when no line draws more rows than the *)
(* layout gave it, which is what lazy layout keeps with one font.          *)
(***************************************************************************)
(* No line is longer than LineMax. *)
Short == \A a \in buf.absolute .. linebuf_end(buf) - 1 : StoredText[a] \in 0 .. LineMax

LEMMA StepShort ==
    ASSUME IInv, Short, Abstract!SNext
    PROVE  Short'
<1> DEFINE lo == buf.absolute
           hi == linebuf_end(buf) - 1
<1>1. lo \in Int /\ hi \in Int /\ LineMax \in Nat
  BY StreditAssumption DEF IInv, TypeOK, Buffers, linebuf_end
<1>2. DOMAIN StoredText = lo .. hi
  BY DEF StoredText
<1>3. ASSUME NEW n \in 0 .. LineMax, Abstract!EditLast(n) PROVE Short'
  <2>1. /\ StoredText' = [StoredText EXCEPT ![hi] = n]
        /\ buf'.absolute = lo /\ linebuf_end(buf)' - 1 = hi
    BY <1>3 DEF Abstract!EditLast
  <2>2. ASSUME NEW a \in lo .. hi PROVE StoredText'[a] \in 0 .. LineMax
    BY <1>2, <2>1 DEF Short
  <2> QED BY <2>1, <2>2 DEF Short
<1>4. ASSUME NEW n \in 0 .. LineMax, Abstract!StartLine(n) PROVE Short'
  <2> DEFINE t == [a \in lo .. hi + 1 |-> IF a = hi + 1 THEN 0
                                        ELSE IF a = hi THEN n ELSE StoredText[a]]
  <2>1. /\ linebuf_end(buf)' - 1 = hi + 1 /\ buf'.absolute \in lo .. hi + 1
        /\ StoredText' = Abstract!Suffix(t, buf'.absolute, hi + 1)
    BY <1>4 DEF Abstract!StartLine
  <2>2. ASSUME NEW a \in lo .. hi + 1 PROVE t[a] \in 0 .. LineMax
    <3>1. a # hi + 1 => a \in lo .. hi
      BY <1>1
    <3> QED BY <1>1, <3>1 DEF Short
  <2> HIDE DEF t
  <2>3. ASSUME NEW a \in buf'.absolute .. hi + 1 PROVE StoredText'[a] \in 0 .. LineMax
    <3>1. a \in lo .. hi + 1
      BY <1>1, <2>1
    <3>2. StoredText'[a] = t[a]
      BY <2>1 DEF Abstract!Suffix
    <3> QED BY <2>2, <3>1, <3>2
  <2> QED BY <2>1, <2>3 DEF Short
<1>5. CASE Abstract!Clear
  <2>1. /\ linebuf_end(buf)' - 1 = hi + 1 /\ buf'.absolute = hi + 1
        /\ StoredText' = [a \in {hi + 1} |-> 0]
    BY <1>5 DEF Abstract!Clear
  <2>2. (hi + 1) .. (hi + 1) = {hi + 1}
    BY <1>1
  <2> QED BY <1>1, <2>1, <2>2 DEF Short
<1>6. CASE Abstract!Close
  <2>1. buf'.absolute .. (linebuf_end(buf)' - 1) = {}
    BY <1>6 DEF Abstract!Close
  <2> QED BY <2>1 DEF Short
<1> QED BY <1>3, <1>4, <1>5, <1>6 DEF Abstract!SNext

(* A line has no more rows than characters, and one when it is empty. *)
LEMMA RowsBounded ==
    ASSUME NEW length \in Nat, NEW columns \in Nat \ {0}
    PROVE  /\ DrawnRows(length, columns) \in Nat
           /\ DrawnRows(length, columns) <= length
           /\ DrawnRows(length, columns) <=
                 console_fline_update_render_lines(length, columns)
<1>1. CASE length = 0
  BY <1>1 DEF DrawnRows, console_fline_update_render_lines
<1>2. CASE length # 0
  <2>1. PICK q : q = (length + columns - 1) \div columns
    OBVIOUS
  <2>2. q \in Nat
    BY <1>2, <2>1, RowsType DEF console_fline_update_render_lines
  <2>3. DrawnRows(length, columns) = q
        /\ console_fline_update_render_lines(length, columns) = q
    BY <1>2, <2>1 DEF DrawnRows, console_fline_update_render_lines
  <2>4. q * columns <= length + columns - 1
    BY <2>1
  <2>5. q <= length
    <3> SUFFICES ASSUME q >= length + 1 PROVE FALSE
      BY <2>2
    <3>1. q * columns >= (length + 1) * columns
      BY <2>2
    <3>2. (length + 1) * columns = length * columns + columns
      OBVIOUS
    <3>3. length * columns >= length
      OBVIOUS
    <3>4. length * columns \in Nat /\ q * columns \in Nat
      BY <2>2
    <3> QED BY <2>4, <3>1, <3>2, <3>3, <3>4
  <2> QED BY <2>2, <2>3, <2>5
<1> QED BY <1>1, <1>2

(* The search from the bottom stops. *)
LEMMA FirstLineFound ==
    ASSUME NEW b, WellFormed(b), NEW want \in Int
    PROVE  /\ FirstLine(b, want) \in 0 .. b.size
           /\ \/ FirstLine(b, want) = 0
              \/ SumTo(RowsOf(b), b.size) - SumTo(RowsOf(b), FirstLine(b, want)) >= want
<1> DEFINE rows == RowsOf(b)
           Stop(k) == k = 0 \/ SumTo(rows, b.size) - SumTo(rows, k) >= want
           Last(k) == \A j \in k + 1 .. b.size : SumTo(rows, b.size) - SumTo(rows, j) < want
           D == {d \in 0 .. b.size : Stop(b.size - d)}
<1>1. b.size \in Nat
  BY DEF WellFormed, Buffers
<1>2. \A k \in 0 .. b.size : SumTo(rows, k) \in Int
  BY Headers
<1> HIDE DEF rows
<1>3. b.size \in D /\ D \in SUBSET Nat
  BY <1>1
<1>4. PICK d \in D : \A x \in D : d <= x
  <2> HIDE DEF D
  <2> QED BY <1>3, LeastNat
<1>5. b.size - d \in 0 .. b.size /\ Stop(b.size - d) /\ d \in Nat
  BY <1>1, <1>3, <1>4
<1>6. Last(b.size - d)
  <2> SUFFICES ASSUME NEW j \in b.size - d + 1 .. b.size
               PROVE  SumTo(rows, b.size) - SumTo(rows, j) < want
    OBVIOUS
  <2>1. j \in 0 .. b.size /\ b.size - j \in 0 .. b.size /\ b.size - (b.size - j) = j
        /\ ~(d <= b.size - j)
    BY <1>1, <1>5
  <2>2. ~Stop(j)
    BY <1>4, <2>1
  <2>3. b.size \in 0 .. b.size
    BY <1>1
  <2> QED BY <1>2, <2>1, <2>2, <2>3
<1>7. FirstLine(b, want) = CHOOSE k \in 0 .. b.size : Stop(k) /\ Last(k)
  BY DEF FirstLine, rows
<1> HIDE DEF Stop, Last
<1>8. FirstLine(b, want) \in 0 .. b.size /\ Stop(FirstLine(b, want))
  BY <1>5, <1>6, <1>7
<1> QED BY <1>8 DEF Stop, rows

(* Drawing from the line that the search finds, clipped line by line, shows
   the rows of the window, if no line draws more rows than it was given. *)
LEMMA WindowDrawn ==
    ASSUME NEW b, WellFormed(b), b.total_rendered = SumTo(RowsOf(b), b.size),
           NEW columns \in Nat \ {0}, NEW visible \in Nat, NEW pos \in Nat,
           NEW p, p = console_clamp_scrollpos(b, visible, pos),
           \A a \in b.live : /\ DrawnRows(TextLength(b, a), columns) \in 0 .. LineMax
                             /\ DrawnRows(TextLength(b, a), columns) <= b.heap[a].render_lines
    PROVE  console_render(b, columns, visible, p) = Window(b, columns, visible, p)
<1> DEFINE rows     == RowsOf(b)
           want     == visible + p
           first    == FirstLine(b, want)
           total    == SumTo(rows, b.size)
           y        == min(want - (total - SumTo(rows, first)), p)
           line_y(k) == y + SumTo(rows, k) - SumTo(rows, first)
           drawn(k) == DrawnRows(TextLength(b, linebuf_get_nth_line(b, k)), columns)
           top      == max(0, total - visible - p)
           R == UNION {{<<k, r>> : r \in {r \in 0 .. drawn(k) - 1 :
                                            r >= -line_y(k) /\ r < visible - line_y(k)}} :
                       k \in {k \in first .. b.size - 1 : line_y(k) < visible}}
           W == {d \in (0 .. b.size - 1) \X (0 .. LineMax) :
                   /\ d[2] < drawn(d[1])
                   /\ top <= SumTo(rows, d[1]) + d[2]
                   /\ SumTo(rows, d[1]) + d[2] < top + visible}
<1>1. b.size \in Nat /\ LineMax \in Nat
  BY StreditAssumption DEF WellFormed, Buffers
<1>2. \A k \in 0 .. b.size : SumTo(rows, k) \in Int
  BY Headers
<1>3. \A k \in 0 .. b.size - 1 : /\ rows[k] \in Nat /\ drawn(k) \in 0 .. LineMax
                                 /\ drawn(k) <= rows[k]
  BY Headers, NthLine
<1>4. total \in Int /\ SumTo(rows, 0) = 0
  BY <1>1, <1>2, SumEmpty
<1>5. \A i \in 0 .. b.size : \A j \in i .. b.size : SumTo(rows, i) <= SumTo(rows, j)
  <2> HIDE DEF rows
  <2> QED BY <1>1, <1>3, SumMonotone
<1>6. total >= 0
  <2>1. 0 \in 0 .. b.size /\ b.size \in 0 .. b.size
    BY <1>1
  <2> QED BY <1>4, <1>5, <2>1
<1>7. /\ p \in Nat
      /\ \/ total < visible /\ p = 0
         \/ total >= visible /\ p <= total - visible
  <2>1. p = IF total < visible THEN 0 ELSE max(0, min(pos, total - visible))
    BY DEF console_clamp_scrollpos
  <2> HIDE DEF total
  <2> QED BY <1>4, <1>6, <2>1 DEF max, min
<1>8. want \in Int
  BY <1>7
<1>9. first \in 0 .. b.size /\ (first = 0 \/ total - SumTo(rows, first) >= want)
  <2>1. FirstLine(b, want) \in 0 .. b.size
    BY <1>8, FirstLineFound
  <2>2. \/ FirstLine(b, want) = 0
        \/ SumTo(RowsOf(b), b.size) - SumTo(RowsOf(b), FirstLine(b, want)) >= want
    BY <1>8, FirstLineFound
  <2> QED BY <2>1, <2>2
<1>10. console_render(b, columns, visible, p) = R
  BY DEF console_render
<1>11. Window(b, columns, visible, p) = W
  BY DEF Window
<1> HIDE DEF rows, total, first, drawn
<1>12. /\ SumTo(rows, first) \in Int /\ SumTo(rows, first) >= 0
  <2>1. 0 \in 0 .. b.size /\ first \in 0 .. b.size
    BY <1>1, <1>9
  <2> QED BY <1>2, <1>4, <1>5, <2>1
<1>13. /\ y = SumTo(rows, first) - top
       /\ first # 0 => SumTo(rows, first) <= top
       /\ top \in Nat
  <2>1. CASE total < visible
    <3>1. p = 0 /\ first = 0
      BY <1>4, <1>7, <1>9, <1>12, <2>1
    <3>2. SumTo(rows, first) = 0
      BY <1>4, <3>1
    <3> QED BY <1>4, <1>6, <2>1, <3>1, <3>2 DEF min, max
  <2>2. CASE ~(total < visible)
    <3>1. p <= total - visible /\ total - visible - p >= 0
      BY <1>4, <1>7, <2>2
    <3>2. total - SumTo(rows, first) >= want
      BY <1>4, <1>7, <1>9, <3>1
    <3> QED BY <1>4, <1>7, <1>12, <3>1, <3>2 DEF min, max
  <2> QED BY <2>1, <2>2
<1> HIDE DEF top, y
<1>14. \A k \in 0 .. b.size - 1 : line_y(k) = SumTo(rows, k) - top /\ line_y(k) \in Int
  <2> TAKE k \in 0 .. b.size - 1
  <2>1. k \in 0 .. b.size
    BY <1>1
  <2>2. SumTo(rows, k) \in Int
    BY <1>2, <2>1
  <2> QED BY <1>12, <1>13, <2>2
<1>15. \A k \in 0 .. first - 1 : SumTo(rows, k) + drawn(k) <= top
  <2> TAKE k \in 0 .. first - 1
  <2>1. k \in 0 .. b.size - 1 /\ k \in 0 .. b.size /\ k + 1 \in 0 .. b.size
        /\ first \in k + 1 .. b.size /\ k \in Nat /\ first # 0
    BY <1>1, <1>9
  <2>2. SumTo(rows, k + 1) = SumTo(rows, k) + rows[k]
    BY <2>1, SumNext
  <2>3. SumTo(rows, k + 1) <= SumTo(rows, first)
    BY <1>5, <2>1
  <2>4. SumTo(rows, k) \in Int /\ drawn(k) \in Nat /\ rows[k] \in Nat /\ drawn(k) <= rows[k]
    BY <1>1, <1>2, <1>3, <2>1
  <2> QED BY <1>12, <1>13, <2>1, <2>2, <2>3, <2>4
<1> HIDE DEF line_y
<1>16. ASSUME NEW k \in 0 .. b.size - 1, NEW r \in 0 .. LineMax
       PROVE  <<k, r>> \in R <=> <<k, r>> \in W
  <2>1. /\ SumTo(rows, k) \in Int /\ drawn(k) \in Nat /\ r \in Nat /\ k \in Nat
        /\ line_y(k) = SumTo(rows, k) - top /\ first \in Nat
    <3>1. k \in 0 .. b.size
      BY <1>1
    <3> QED BY <1>1, <1>2, <1>3, <1>9, <1>14, <3>1
  <2>2. <<k, r>> \in W <=> /\ r < drawn(k) /\ top <= SumTo(rows, k) + r
                           /\ SumTo(rows, k) + r < top + visible
    OBVIOUS
  <2>3. <<k, r>> \in R <=> /\ k \in first .. b.size - 1 /\ line_y(k) < visible
                           /\ r \in 0 .. drawn(k) - 1
                           /\ r >= -line_y(k) /\ r < visible - line_y(k)
    OBVIOUS
  <2> HIDE DEF R, W
  <2>4. k < first => ~(r < drawn(k) /\ top <= SumTo(rows, k) + r)
    <3> SUFFICES ASSUME k < first PROVE ~(r < drawn(k) /\ top <= SumTo(rows, k) + r)
      OBVIOUS
    <3>1. SumTo(rows, k) + drawn(k) <= top
      BY <1>15, <2>1
    <3> QED BY <1>13, <2>1, <3>1
  <2> QED BY <1>1, <1>13, <2>1, <2>2, <2>3, <2>4
<1>17. ASSUME NEW d \in R
       PROVE  \E k \in 0 .. b.size - 1, r \in 0 .. LineMax : d = <<k, r>>
  <2>1. PICK k \in first .. b.size - 1 : \E r \in 0 .. drawn(k) - 1 : d = <<k, r>>
    OBVIOUS
  <2>2. PICK r \in 0 .. drawn(k) - 1 : d = <<k, r>>
    BY <2>1
  <2>3. k \in 0 .. b.size - 1
    BY <1>1, <1>9, <2>1
  <2>4. drawn(k) \in 0 .. LineMax
    BY <1>3, <2>3
  <2>5. r \in 0 .. LineMax
    BY <1>1, <2>2, <2>4
  <2> QED BY <2>2, <2>3, <2>5
<1>18. ASSUME NEW d \in W
       PROVE  \E k \in 0 .. b.size - 1, r \in 0 .. LineMax : d = <<k, r>>
  OBVIOUS
<1> HIDE DEF R, W
<1>19. R = W
  BY <1>16, <1>17, <1>18
<1> QED BY <1>10, <1>11, <1>19

(* The buffer between console_compute_view() and the header that
   console_render() writes: the rows and the text of the frame. *)
LEMMA FrameLaidOut ==
    ASSUME NEW b, WellFormed(b), Summed(b), b.size > 0,
           NEW columns \in Nat \ {0}, NEW lazy,
           NEW u, u = linebuf_update_render(b, columns, lazy),
           NEW w, w = RenderedBuf(b, columns, lazy)
    PROVE  /\ WellFormed(u)
           /\ u.live = b.live
           /\ u.total_rendered = SumTo(RowsOf(u), u.size)
           /\ \A a \in b.live : /\ u.heap[a].render_lines = w.heap[a].render_lines
                                /\ TextLength(u, a) = TextLength(b, a)
                                /\ TextLength(w, a) = TextLength(b, a)
<1>1. /\ u \in Buffers
      /\ u.lines = b.lines /\ u.edit = b.edit /\ u.live = b.live
      /\ u.start = b.start /\ u.size = b.size /\ u.absolute = b.absolute
  BY UpdateRenderFields
<1>2. \A p \in Blocks : u.heap[p].size = b.heap[p].size
  BY UpdateRenderFields
<1>3. /\ WellFormed(w) /\ Summed(w) /\ w.edit = b.edit /\ w.live = b.live
      /\ w.size = b.size /\ w.absolute = b.absolute
      /\ \A a \in b.live : w.heap[a].size = IF a = b.edit.raw THEN b.edit.size
                                                              ELSE b.heap[a].size
  BY Rendered
<1>4. w = [u EXCEPT !.heap = [@ EXCEPT ![b.edit.raw].size = b.edit.size]]
  BY DEF RenderedBuf
<1>5. u.heap \in [Blocks -> [size: Nat, render_lines: Nat]] /\ b.live \in SUBSET Blocks
  BY <1>1 DEF Buffers
<1>6. /\ w.total_rendered = u.total_rendered
      /\ \A p \in Blocks : w.heap[p].render_lines = u.heap[p].render_lines
  <2>1. /\ w.total_rendered = u.total_rendered
        /\ w.heap = [u.heap EXCEPT ![b.edit.raw].size = b.edit.size]
    BY <1>1, <1>4 DEF Buffers
  <2> QED BY <1>5, <2>1
<1>7. WellFormed(u)
  <2>1. /\ \A n : linebuf_nth_to_index(u, n) = linebuf_nth_to_index(b, n)
        /\ linebuf_end(u) = linebuf_end(b)
    BY <1>1 DEF linebuf_nth_to_index, linebuf_end
  <2> QED BY <1>1, <2>1 DEF WellFormed
<1>8. u.total_rendered = SumTo(RowsOf(u), u.size)
  <2> DEFINE ru == RowsOf(u)  rw == RowsOf(w)
  <2>1. \A n \in 0 .. b.size - 1 : ru[n] = rw[n]
    <3> TAKE n \in 0 .. b.size - 1
    <3>1. /\ ru[n] = u.heap[b.absolute + n].render_lines
          /\ b.absolute + n \in Blocks
      BY <1>1, <1>7, Headers, NthLine
    <3>2. rw[n] = w.heap[b.absolute + n].render_lines
      BY <1>3, Headers
    <3> QED BY <1>6, <3>1, <3>2
  <2>2. b.size \in Nat /\ w.total_rendered = SumTo(rw, b.size)
    BY <1>3 DEF Summed, WellFormed, Buffers
  <2> HIDE DEF ru, rw
  <2>3. SumTo(ru, b.size) = SumTo(rw, b.size)
    BY <2>1, <2>2, SumEqual
  <2> QED BY <1>1, <1>6, <2>2, <2>3 DEF ru
<1>9. ASSUME NEW a \in b.live
      PROVE  /\ u.heap[a].render_lines = w.heap[a].render_lines
             /\ TextLength(u, a) = TextLength(b, a)
             /\ TextLength(w, a) = TextLength(b, a)
  BY <1>1, <1>2, <1>3, <1>5, <1>6 DEF TextLength
<1> QED BY <1>1, <1>7, <1>8, <1>9

(* What the drawing relies on: exact totals, rows that lazy layout has kept
   up to date, and lines that are not too long. *)
LEMMA WindowMeaning ==
    ASSUME \A f, g \in Fonts : f = g, IInv, LInv, Short
    PROVE  RenderWindow
<1> SUFFICES ASSUME ~exited, NEW v \in Views, NEW pos \in 0 .. MaxLines,
                    NEW u, u = linebuf_update_render(buf, ColumnsOf(v), IsLazy(v)),
                    NEW p, p = console_clamp_scrollpos(u, v[3], pos)
             PROVE  console_render(u, ColumnsOf(v), v[3], p) = Window(u, ColumnsOf(v), v[3], p)
  BY DEF RenderWindow
<1>1. /\ WellFormed(buf) /\ Summed(buf) /\ buf.size > 0
      /\ view \in Views \cup {NoView}
  BY DEF IInv, BufOK, TypeOK
<1>2. LaidOut(buf, view)
  BY DEF LInv
<1>3. ColumnsOf(v) \in Nat \ {0} /\ v[3] \in Nat /\ pos \in Nat
  BY ConsoleAssumption, LinebufAssumption DEF ColumnsOf, Views
<1>4. ASSUME IsLazy(v) PROVE view # NoView /\ ColumnsOf(view) = ColumnsOf(v)
  <2>1. view[2] = v[2] /\ view[2] # 0
    BY <1>4 DEF IsLazy
  <2>2. view # NoView
    BY <2>1 DEF NoView
  <2>3. view[1] = v[1]
    BY <1>1, <2>2 DEF Views
  <2> QED BY <2>1, <2>2, <2>3 DEF ColumnsOf
<1>5. PICK w : w = RenderedBuf(buf, ColumnsOf(v), IsLazy(v))
  OBVIOUS
<1>6. Current(w, v)
  BY <1>1, <1>2, <1>4, <1>5, RenderLaidOut
<1>7. w.live = buf.live
  BY <1>1, <1>3, <1>5, Rendered
<1>8. /\ WellFormed(u) /\ u.live = buf.live
      /\ u.total_rendered = SumTo(RowsOf(u), u.size)
  BY <1>1, <1>3, <1>5, FrameLaidOut
<1>9. \A a \in buf.live : /\ u.heap[a].render_lines = w.heap[a].render_lines
                          /\ TextLength(u, a) = TextLength(buf, a)
                          /\ TextLength(w, a) = TextLength(buf, a)
  BY <1>1, <1>3, <1>5, FrameLaidOut
<1>10. ASSUME NEW a \in buf.live
       PROVE  /\ DrawnRows(TextLength(u, a), ColumnsOf(v)) \in 0 .. LineMax
              /\ DrawnRows(TextLength(u, a), ColumnsOf(v)) <= u.heap[a].render_lines
  <2>1. a \in buf.absolute .. linebuf_end(buf) - 1
    BY <1>1 DEF WellFormed
  <2>2. TextLength(buf, a) \in 0 .. LineMax
    BY <1>1, <2>1, StoredLine DEF Short, Stored, StoredText
  <2>3. PICK length : length = TextLength(u, a)
    OBVIOUS
  <2>4. length \in Nat /\ length <= LineMax /\ LineMax \in Nat
    BY <1>9, <2>2, <2>3, StreditAssumption
  <2>5. u.heap[a].render_lines = console_fline_update_render_lines(length, ColumnsOf(v))
    BY <1>6, <1>7, <1>9, <2>3 DEF Current, RowsFor
  <2>6. /\ DrawnRows(length, ColumnsOf(v)) \in Nat
        /\ DrawnRows(length, ColumnsOf(v)) <= length
        /\ DrawnRows(length, ColumnsOf(v)) <= u.heap[a].render_lines
    BY <1>3, <2>4, <2>5, RowsBounded
  <2> QED BY <2>3, <2>4, <2>6
<1> QED BY <1>3, <1>8, <1>10, WindowDrawn

(* With one font, a frame at any moment and any scroll position draws exactly
   the rows of the text between the top of the view and the scroll position:
   what console_render() finds searching from the bottom and clipping line by
   line, over a layout that console_compute_view() only brought up to date. *)
THEOREM WindowWithOneFont ==
    ASSUME \A f, g \in Fonts : f = g
    PROVE  Spec => []RenderWindow
<1>1. IInv /\ [Next]_vars => [FontKept]_vars
  <2> SUFFICES ASSUME IInv, Next PROVE FontKept \/ UNCHANGED vars
    OBVIOUS
  <2>1. view \in Views \cup {NoView} /\ view' \in Views \cup {view}
    <3>1. view' = view \/ view' \in Views
      BY Zenon DEF Next, console_newline, console_write_raw, write_raw_fails,
           write_backspace, write_erase_to_end, write_cursor_escape,
           console_lock_prefix, console_set_cursor, console_delete_at_cursor,
           console_clear_current_line, console_clear, render,
         pe_enter_graphics_mode, console_destroy
    <3> QED BY <3>1 DEF IInv, TypeOK
  <2> QED BY <2>1 DEF FontKept, Views
<1>2. IInv /\ LInv /\ [Next]_vars => LInv'
  <2> SUFFICES ASSUME IInv, LInv, [Next]_vars PROVE LInv'
    OBVIOUS
  <2>1. CASE UNCHANGED vars
    BY <2>1 DEF vars, LInv, Due
  <2>2. CASE Next /\ FontKept
    BY <2>2, NextLInv DEF LInv
  <2> QED BY <1>1, <2>1, <2>2
<1>3. Init => Short
  <2> SUFFICES ASSUME Init PROVE Short
    OBVIOUS
  <2>1. /\ buf.absolute = 1 /\ linebuf_end(buf) - 1 = 1
        /\ StoredText = [a \in {1} |-> 0]
    BY InitRefines DEF Abstract!SInit
  <2> QED BY <2>1, StreditAssumption DEF Short
<1>4. IInv /\ Short /\ [Next]_vars => Short'
  <2> SUFFICES ASSUME IInv, Short, [Next]_vars PROVE Short'
    OBVIOUS
  <2>1. CASE UNCHANGED buf
    BY <2>1, Zenon DEF Short, StoredText, linebuf_end, TextLength, linebuf_get_nth_line,
           linebuf_nth_to_index
  <2>2. UNCHANGED vars => UNCHANGED buf
    BY DEF vars
  <2>3. Next => Abstract!SNext \/ UNCHANGED buf
    BY NextRefines
  <2>4. Abstract!SNext => Short'
    BY StepShort
  <2> QED BY <2>1, <2>2, <2>3, <2>4
<1>5. IInv /\ LInv /\ Short => RenderWindow
  BY WindowMeaning
<1> QED BY <1>2, <1>3, <1>4, <1>5, InitLInv, Invariance, PTL DEF Spec
=============================================================================
