------------------------------- MODULE Console ------------------------------
(***************************************************************************)
(* The terminal emulator of the shell (ports/sh/console.c with the         *)
(* console_clear() that apply_pythonultra_ui2.py adds before compiling).   *)
(*                                                                         *)
(* Everything runs on the main thread, so one C call is one action.  The   *)
(* exception is console_write_raw(), whose loop puts a long string on      *)
(* several lines: one action is one iteration, `pending` counts the        *)
(* characters that are left, and nothing else happens while it is not 0.   *)
(* A line is its length; WriteRaw looks at the characters.                 *)
(* console_write() is a sequence of raw strings and control characters and *)
(* needs no action of its own: each of its iterations is an action here.   *)
(***************************************************************************)
EXTENDS Linebuf, FiniteSets

CONSTANTS
    Fonts,      \* fonts that the shell can be given
    Widths,     \* view widths in pixels
    ViewLines,  \* numbers of text rows that a view can show
    Columns,    \* Columns[<<f, w>>]: characters of font f that fit in width w
    MaxWrite    \* bound of the model: longest string written at once

ASSUME ConsoleAssumption ==
    /\ Fonts # {}
    /\ Widths \subseteq Nat \ {0} /\ Widths # {}
    /\ ViewLines \subseteq Nat \ {0} /\ ViewLines # {}
    /\ Columns \in [Fonts \X Widths -> Nat \ {0}]
    /\ MaxWrite \in Nat

VARIABLES
    buf,            \* console_t.lines
    cursor,         \* position in the last line
    pending,        \* characters that console_write_raw() has left to write
    render_needed,  \* set when a frame should be rendered
    cancelled,      \* history: a program cancelled a frame that was due
    view,           \* render_font, render_width, render_lines
    exited,         \* console_destroy() was called
    double_free     \* console_destroy() freed a block that was not allocated

vars == <<buf, cursor, pending, render_needed, cancelled, view, exited, double_free>>

Views == {<<f, w, l>> : f \in Fonts, w \in Widths, l \in ViewLines}

(* The geometry before the first console_compute_view(): no font, width 0. *)
NoView == <<"none", 0, 0>>

ColumnsOf(v) == Columns[<<v[1], v[2]>>]

-----------------------------------------------------------------------------
(* Mutant: the backlog is not cleaned when a line is added. *)
newline_without_cleaning(b) == linebuf_newline(b)

(* console_newline(), the part that concerns the line buffer. *)
NewlineBuf(b) == linebuf_clean_backlog(linebuf_newline(b))

(* console_create() ends with console_newline(). *)
Init ==
    /\ buf = NewlineBuf(linebuf_init)
    /\ cursor = 0
    /\ pending = 0
    /\ render_needed = TRUE
    /\ cancelled = FALSE
    /\ view = NoView
    /\ exited = FALSE
    /\ double_free = FALSE

(* Between two C calls of a running program. *)
Idle == ~exited /\ pending = 0

(* The bound on the lines that are ever created. *)
RoomForLine(b) == linebuf_end(b) <= MaxLines

console_newline ==
    /\ Idle
    /\ RoomForLine(buf)
    /\ buf' = NewlineBuf(buf)
    /\ cursor' = 0
    /\ render_needed' = TRUE
    /\ UNCHANGED <<pending, cancelled, view, exited, double_free>>

(* The buffer after one iteration with n characters left: as many as the line
   has room for go at the cursor, and a new line follows if some are left.
   The code takes them from the start of the string each time. *)
WriteRound(b, n) ==
    LET round_size == min(n, stredit_capacity(b.edit))
        filled     == [b EXCEPT !.edit = stredit_insert(b.edit, round_size)]
    IN  IF round_size < n THEN NewlineBuf(filled) ELSE filled

console_write_raw(n) ==
    LET round_size == min(n, stredit_capacity(buf.edit))
    IN  /\ ~exited
        /\ pending \in {0, n}
        /\ CanInsert(buf.edit, cursor, round_size)
        /\ round_size < n => RoomForLine(buf)
        /\ buf' = WriteRound(buf, n)
        /\ cursor' = IF round_size < n THEN 0 ELSE cursor + round_size
        /\ pending' = n - round_size
        /\ render_needed' = TRUE
        /\ UNCHANGED <<cancelled, view, exited, double_free>>

(* realloc() returns NULL: the rest of the string is dropped. *)
write_raw_fails(n) ==
    LET round_size == min(n, stredit_capacity(buf.edit))
    IN  /\ ~exited
        /\ pending = n
        /\ \/ ~CanInsert(buf.edit, cursor, round_size)
           \/ NeedsRealloc(buf.edit, buf.edit.size + round_size)
        /\ pending' = 0
        /\ UNCHANGED <<buf, cursor, render_needed, cancelled, view, exited, double_free>>

(* Mutant: nothing stops the cursor at the start of the line. *)
BackspaceUnguarded(c) == c - 1

(* console_write() moves the cursor left of a backspace even when the prefix
   kept the character. *)
AfterBackspace(c) == IF c > 0 THEN c - 1 ELSE c

(* Character 8 in the output. *)
write_backspace ==
    /\ Idle
    /\ buf' = IF cursor > 0
                THEN [buf EXCEPT !.edit = stredit_delete(@, cursor - 1, 1)]
                ELSE buf
    /\ cursor' = AfterBackspace(cursor)
    /\ render_needed' = TRUE
    /\ UNCHANGED <<pending, cancelled, view, exited, double_free>>

(* ESC [ K in the output: delete up to the end of the line. *)
write_erase_to_end ==
    /\ Idle
    /\ buf' = [buf EXCEPT !.edit = stredit_delete(@, cursor, @.size - cursor)]
    /\ render_needed' = TRUE
    /\ UNCHANGED <<cursor, pending, cancelled, view, exited, double_free>>

(* ESC 1 D and ESC 1 C in the output: move the cursor within the text. *)
write_cursor_escape ==
    /\ Idle
    /\ cursor' \in {cursor - (IF cursor > 0 THEN 1 ELSE 0),
                    cursor + (IF cursor < buf.edit.size THEN 1 ELSE 0)}
    /\ render_needed' = TRUE
    /\ UNCHANGED <<buf, pending, cancelled, view, exited, double_free>>

console_lock_prefix ==
    /\ Idle
    /\ buf' = [buf EXCEPT !.edit = stredit_set_prefix(@, cursor)]
    /\ UNCHANGED <<cursor, pending, render_needed, cancelled, view, exited, double_free>>

(* console_move_cursor(): refused left of the prefix and past the end. *)
console_set_cursor(pos) ==
    /\ Idle
    /\ buf.edit.prefix <= pos /\ pos <= buf.edit.size
    /\ cursor' = pos
    /\ UNCHANGED <<buf, pending, render_needed, cancelled, view, exited, double_free>>

console_delete_at_cursor(n) ==
    /\ Idle
    /\ buf' = [buf EXCEPT !.edit = stredit_delete(@, cursor - n, n)]
    /\ cursor' = cursor - Removable(buf.edit, cursor - n, n)
    /\ render_needed' = TRUE
    /\ UNCHANGED <<pending, cancelled, view, exited, double_free>>

console_clear_current_line ==
    /\ Idle
    /\ buf' = [buf EXCEPT !.edit = stredit_delete(@, @.prefix, @.size - @.prefix)]
    /\ cursor' = buf.edit.prefix
    /\ render_needed' = TRUE
    /\ UNCHANGED <<pending, cancelled, view, exited, double_free>>

(* Drop the whole scrollback, the line being edited included. *)
console_clear ==
    /\ Idle
    /\ RoomForLine(buf)
    /\ buf' = NewlineBuf(linebuf_recycle_oldest_lines(buf, buf.size))
    /\ cursor' = 0
    /\ render_needed' = TRUE
    /\ UNCHANGED <<pending, cancelled, view, exited, double_free>>

(* Mutant: a frame is taken to be lazy from the first one on. *)
LazyAlways(v) == TRUE

(* console_compute_view() is lazy when the width is the one of the last view. *)
IsLazy(v) == v[2] # 0 /\ view[2] = v[2]

(* The buffer after a frame: console_compute_view() lays it out, then
   console_render() writes the size of the last line to its header. *)
RenderedBuf(b, columns, lazy) ==
    [linebuf_update_render(b, columns, lazy)
       EXCEPT !.heap = [@ EXCEPT ![b.edit.raw].size = b.edit.size]]

(* widget_shell_poly_render(): compute the view, render, clear the flag. *)
render(v) ==
    /\ Idle
    /\ buf' = RenderedBuf(buf, ColumnsOf(v), IsLazy(v))
    /\ view' = v
    /\ render_needed' = FALSE /\ cancelled' = FALSE
    /\ UNCHANGED <<cursor, pending, exited, double_free>>

(* pe_enter_graphics_mode(): a program that draws takes the screen over, and
   a frame that was due is not drawn.  Kandinsky calls it from a timer, also
   in the middle of a long write. *)
pe_enter_graphics_mode ==
    /\ ~exited
    /\ render_needed' = FALSE
    /\ cancelled' = (cancelled \/ render_needed)
    /\ UNCHANGED <<buf, cursor, pending, view, exited, double_free>>

(* linebuf_deinit(), after which the console is zeroed. *)
console_destroy ==
    /\ Idle
    /\ exited' = TRUE
    /\ double_free' = ~(SlotBlocks(buf) \subseteq buf.live)
    /\ buf' = [linebuf_init EXCEPT !.live = buf.live \ linebuf_deinit(buf)]
    /\ UNCHANGED <<cursor, pending, render_needed, cancelled, view>>

Next ==
    \/ console_newline
    \/ \E n \in 1 .. MaxWrite : console_write_raw(n) \/ write_raw_fails(n)
    \/ write_backspace
    \/ write_erase_to_end
    \/ write_cursor_escape
    \/ console_lock_prefix
    \/ console_set_cursor(cursor - 1) \/ console_set_cursor(cursor + 1)
    \/ console_delete_at_cursor(1)
    \/ console_clear_current_line
    \/ console_clear
    \/ \E v \in Views : render(v)
    \/ pe_enter_graphics_mode
    \/ console_destroy

Spec == Init /\ [][Next]_vars

-----------------------------------------------------------------------------
(* What a frame shows: console_clamp_scrollpos() and console_render(). *)

console_clamp_scrollpos(b, visible, pos) ==
    IF b.total_rendered < visible THEN 0
    ELSE max(0, min(pos, b.total_rendered - visible))

(* Rows that console_fline_render() draws: none for an empty line. *)
DrawnRows(length, columns) ==
    IF length = 0 THEN 0 ELSE console_fline_update_render_lines(length, columns)

(* Mutant: the search stops one row short of the top of the view. *)
FirstLineLate(b, want) ==
    CHOOSE k \in 0 .. b.size :
        /\ k = 0 \/ SumTo(RowsOf(b), b.size) - SumTo(RowsOf(b), k) >= want - 1
        /\ \A j \in k + 1 .. b.size :
               SumTo(RowsOf(b), b.size) - SumTo(RowsOf(b), j) < want - 1

(* The nth at which the search from the bottom stops: the last one with at
   least `want` rows from it to the end, or the first line. *)
FirstLine(b, want) ==
    CHOOSE k \in 0 .. b.size :
        /\ k = 0 \/ SumTo(RowsOf(b), b.size) - SumTo(RowsOf(b), k) >= want
        /\ \A j \in k + 1 .. b.size :
               SumTo(RowsOf(b), b.size) - SumTo(RowsOf(b), j) < want

(* The <<nth, row>> pairs that console_render() draws, at scroll position
   pos, of a buffer laid out with this many columns. *)
console_render(b, columns, visible, pos) ==
    LET rows     == RowsOf(b)
        want     == visible + pos
        first    == FirstLine(b, want)
        top      == min(want - (SumTo(rows, b.size) - SumTo(rows, first)), pos)
        line_y(k) == top + SumTo(rows, k) - SumTo(rows, first)
        length(k) == TextLength(b, linebuf_get_nth_line(b, k))
    IN  UNION {{<<k, r>> : r \in {r \in 0 .. DrawnRows(length(k), columns) - 1 :
                                    r >= -line_y(k) /\ r < visible - line_y(k)}} :
               k \in {k \in first .. b.size - 1 : line_y(k) < visible}}

(* The screen row at which <<k, r>> appears: rows are drawn top to bottom,
   each right below the one drawn before it. *)
ScreenRow(drawn, k, r) ==
    Cardinality({d \in drawn : d[1] < k \/ (d[1] = k /\ d[2] < r)})
=============================================================================
