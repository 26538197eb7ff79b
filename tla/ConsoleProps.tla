----------------------------- MODULE ConsoleProps ---------------------------
(***************************************************************************)
(* What makes the console correct.                                         *)
(***************************************************************************)
EXTENDS Console

(* Values of linebuf_t, with the memory it points to. *)
Buffers ==
    [lines: [Slots -> Nat], live: SUBSET Blocks,
     heap: [Blocks -> [size: Nat, render_lines: Nat]],
     edit: [raw: Nat, size: Nat, prefix: Nat, alloc_size: Nat],
     start: Slots, size: Nat, absolute: Nat \ {0},
     total_size_except_last: Int, absolute_rendered: Int, total_rendered: Int]

(* Every variable has the type of the C field it stands for. *)
TypeOK ==
    /\ buf \in Buffers
    /\ cursor \in Nat
    /\ pending \in Nat
    /\ render_needed \in BOOLEAN /\ cancelled \in BOOLEAN
    /\ view \in Views \cup {NoView}
    /\ exited \in BOOLEAN
    /\ double_free \in BOOLEAN

-----------------------------------------------------------------------------
(* The rotating array after any sequence of calls (console.h, the comments of
   linebuf_t): it holds 1 .. Capacity lines; the nth slot from `start` points
   to the block of line absolute + n, except the last one, which is NULL (what
   linebuf_newline() asserts) because the editor owns that block; and the
   blocks of the lines in the buffer are exactly the ones allocated, so none
   is read after it is freed and none is leaked. *)
RingOK(b) ==
    /\ b.size \in 1 .. Capacity
    /\ \A n \in 0 .. b.size - 2 :
           b.lines[linebuf_nth_to_index(b, n)] = b.absolute + n
    /\ b.lines[linebuf_nth_to_index(b, b.size - 1)] = NULL
    /\ b.edit.raw = linebuf_end(b) - 1
    /\ b.live = b.absolute .. linebuf_end(b) - 1

Ring == ~exited => RingOK(buf)

(* The running totals that the code updates line by line are the sums they
   stand for: total_size_except_last decides which lines the backlog loses,
   total_rendered where scrolling stops. *)
TotalsOK(b) ==
    /\ b.total_size_except_last = SumTo(SizesOf(b), b.size - 1)
    /\ b.total_rendered = SumTo(RowsOf(b), b.size)

Totals == ~exited => TotalsOK(buf)

(* The editor of the last line: the cursor and the prefix stay inside the
   text whatever mix of output, control characters and edition keys comes,
   otherwise stredit_insert() refuses every later character; the text fits
   in a line and, with its header and NUL, in its allocation. *)
EditOK(ed, c) ==
    /\ c \in 0 .. ed.size
    /\ ed.prefix \in 0 .. ed.size
    /\ ed.size <= LineMax
    /\ Reserved + ed.size + 1 <= ed.alloc_size

Edit == ~exited => EditOK(buf.edit, cursor)

(* Frozen text is bounded: past the backlog size only the last line is kept. *)
Backlog ==
    ~exited => buf.size = 1 \/ buf.total_size_except_last <= BacklogSize

(* Lazy layout skips only lines whose row count is right for the current
   view: a line up to absolute_rendered keeps a layout that a change of width
   or of its text would have made stale. *)
LayoutOK(b, v) ==
    \A n \in 0 .. b.size - 2 :
        b.absolute + n <= b.absolute_rendered =>
            RowsOf(b)[n] =
                console_fline_update_render_lines(SizesOf(b)[n], ColumnsOf(v))

Layout ==
    (~exited /\ view # NoView) => LayoutOK(buf, view)

(* As long as no frame is asked for, the layout behind the last frame is that
   of the text the console holds now, the editable line included.  Excepted
   is the time after a program cancelled a frame by drawing itself: what was
   printed before stays undrawn until something asks for a frame again. *)
FrameCurrent ==
    (~exited /\ ~render_needed /\ ~cancelled) =>
        \A n \in 0 .. buf.size - 1 :
            RowsOf(buf)[n] = console_fline_update_render_lines(
                TextLength(buf, linebuf_get_nth_line(buf, n)), ColumnsOf(view))

(* The rows that belong on the screen: those of the text between the top of
   the view and the scroll position, counted over the whole scrollback. *)
Window(b, columns, visible, pos) ==
    LET rows  == RowsOf(b)
        total == SumTo(rows, b.size)
        top   == max(0, total - visible - pos)
        drawn(k) == DrawnRows(TextLength(b, linebuf_get_nth_line(b, k)), columns)
    IN  {d \in (0 .. b.size - 1) \X (0 .. LineMax) :
            /\ d[2] < drawn(d[1])
            /\ top <= SumTo(rows, d[1]) + d[2]
            /\ SumTo(rows, d[1]) + d[2] < top + visible}

(* Rendering at any moment, scrolled anywhere, draws the rows of the window
   and no other: the search from the bottom and the line-by-line clipping of
   console_render() agree with the definition. *)
RenderWindow ==
    ~exited =>
        \A v \in Views, pos \in 0 .. MaxLines :
            LET b == linebuf_update_render(buf, ColumnsOf(v), IsLazy(v))
                p == console_clamp_scrollpos(b, v[3], pos)
            IN  console_render(b, ColumnsOf(v), v[3], p) =
                    Window(b, ColumnsOf(v), v[3], p)

(* console_destroy() frees all the memory of the console. *)
NothingLeaked == exited => buf.live = {}

-----------------------------------------------------------------------------
(* Claims of the sources that the code does not keep (see the findings). *)

(* "Destroy the console and free all associated memory": each block once. *)
FreedOnce == ~double_free

(* "Number of render lines occupied by the line": a row of text is drawn as
   many rows below the top of the view as there are laid out above it. *)
RowsOccupied ==
    ~exited =>
        \A v \in Views :
            LET b     == linebuf_update_render(buf, ColumnsOf(v), IsLazy(v))
                rows  == RowsOf(b)
                top   == max(0, SumTo(rows, b.size) - v[3])
                drawn == console_render(b, ColumnsOf(v), v[3], 0)
            IN  \A d \in drawn : ScreenRow(drawn, d[1], d[2]) =
                                     SumTo(rows, d[1]) + d[2] - top
=============================================================================
