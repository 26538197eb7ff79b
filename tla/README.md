# PythonUltra: TLA+ models, checks and proofs

PythonUltra is a MicroPython for CASIO calculators (fx-CG50).  Its own logic is the
port in `src/ports/sh`: a terminal emulator and shell in C around the interpreter, and
an editor, a file manager, a terminal and utilities written in Python under
`src/ports/sh/modules`.  This directory holds the TLA+ models of that logic, the TLC
configurations that check them, and the proofs that TLAPS checks.

The fx-CG50 build edits some C sources before it compiles them
(`src/ports/fxcg50/Makefile`, target `pythonultra-runtime-fixes`, which runs the
`src/ports/sh/apply_*.py` scripts).  The modules model the *prepared* sources.  Where a
piece of code exists only in a script (for example `console_clear()` in
`apply_pythonultra_ui2.py`), `PROJECT.json` maps the definition to the script's lines.

## 1. Inventory

| Part | State | Operations | Interacts with | Hard about it |
|---|---|---|---|---|
| String editor, `stredit.c` | text, size, allocation, protected prefix | init, freeze, insert, delete, set prefix | owned by the line buffer | bounds of cursor and prefix; growth; failing `realloc()` |
| Rotating line buffer, `console.c` | ring of line pointers, editor of the last line, byte and row totals, lazy-layout mark | new line, recycle, clean backlog, layout, deinit | called by the terminal emulator only | wrap-around, who owns which block, running totals, limits met exactly |
| Terminal emulator, `console.c` | cursor, view geometry, render flag | write (text, newline, backspace, escapes), edition calls, compute view, render, clear, destroy | stdout of every program, keys, the shell widget | output and edition mixed in any order; lazy layout; scroll window |
| Shell widget, `widget_shell.c` | modifiers, scroll, history, update flags and timer | key events, layout, render, timer | console, JustUI scene | timer callback against main loop; modifiers |
| Main loop, `main.c` | scene, prompt, graphics mode, pending refresh | handle event, readline, prompt, dispatch of commands | all | modal input inside a running program; actions that run Python while a prompt is edited |
| Execution, `pyexec.c` | interrupt character | parse, compile, run | AC/ON filter of the keyboard driver | interrupts at any branch of the VM |
| Timers, `resources.c` | set of owned timers | configure, stop, autofree | `gint` timers | ownership after autofree |
| Paths, `pathutil.c`, `modos.c` | virtual working directory | resolve, chdir | every file operation | `..`, length limits |
| Editor, `modules/pyeditor` | buffer, file name, dirty and load-failed flags | open, new, load, edit, save, run, exit | storage, permissions, interpreter | failure, interrupt or reset between the steps of a save |
| Permissions, `modules/pyperm` | table, cached and in a file | chmod, move, remove, require | editor, files, terminal | table rewritten in place; stale entries after moves |
| File manager, `modules/pyfiles` | directory, clipboard | delete, copy, cut, paste | permissions, storage | one step of several failing |
| Terminal commands, `modules/pyterm` | history, aliases, configuration | dispatch of about 40 commands | permissions, main loop | copy onto itself, history limits |
| ZIP, `modules/zipfile` | archive being read or written | extract, compress | storage | clean-up after a failure half-way |

What makes them correct, in a sentence each.  *Console*: no line is lost, duplicated,
freed twice or read after it is freed; the limits are respected to the byte; what is
drawn is the text that is there.  *Editor*: no failure loses a stored program, and what
is shown as saved is saved.  *Shell*: the user edits behind the prompt of the current mode, AC/ON
reaches the program that runs and nothing else, and a program leaves nothing behind.
*Shell widget*: what is printed is shown, what a program draws is not drawn over.
*Permissions*: the modes follow the files.  *ZIP*: an extraction that fails leaves the
directory as it was, and one that succeeds gives back what was compressed.

The hazards found while reading are listed, with their lines, in `PROJECT.json`.

## 2. Modules

### Console

* `Sums` has finite sums as a recursive function, so that TLAPS can use it.
* `Stredit`, `Linebuf`: the C functions of `stredit.c` and of the line buffer as
  operators on records with the C field names.  A text is abstracted to
  its length: memory, totals and layout depend on nothing else.  **Memory is modelled**: each line gets a
  fresh block, named by the absolute number of its line; `live` is the set of allocated
  blocks and `heap` the headers at their start.  Pointers in the ring may dangle.
* `Console`: the terminal emulator.  One C call is one action, since everything runs on
  the main thread.  The loop of `console_write_raw()` is one action per iteration
  (`pending` counts what is left), because each iteration may end in a failed
  allocation.  `console_write()` is a sequence of raw strings and control characters and
  is covered by `console_write_raw`, `console_newline`, `write_backspace`,
  `write_erase_to_end` and `write_cursor_escape`.  `render(v)` is
  `widget_shell_poly_render()` with any font, width and height.  What `console_render()`
  draws is an operator on the buffer: the set of (line, row) pairs.
  `pe_enter_graphics_mode()`, called when a program draws, withdraws the request for a
  frame without making one; `cancelled` remembers it until a frame is asked for again.
* `WriteRaw`: the loop of `console_write_raw()` once more, with the characters that it
  writes instead of their number, since which part of a string a line gets is invisible in
  `Console`.  `MCWriteRaw`: values for TLC.
* `ConsoleProps`: the properties.  `Scrollback`: what a user may expect of the
  scrollback: numbered lines, only the last one changes, the oldest ones are
  forgotten, exactly as many as the limits require.  `ConsoleRefines`: the refinement
  mapping from `Console` to `Scrollback`.  `MCConsole`: values for TLC.

| Console | C |
|---|---|
| `buf` | `console_t.lines` (`linebuf_t`) and the blocks it points to |
| `cursor`, `render_needed` | the fields of `console_t` |
| `view` | `render_font`, `render_width`, `render_lines` |
| `pending` | `n` of the loop in `console_write_raw()` |
| `cancelled` | history: a program withdrew the request for a frame |
| `exited`, `double_free` | `console_destroy()` was called; it freed a block that was not allocated |

### Editor

* `PyEditor`: the life cycle of an edited file.  `save_file()` is cut at its file
  operations (`create_temporary`, `write_temporary`, `back_up`, `publish`, `rollback`,
  `clean_up`, `finish_save`), each of which succeeds or raises `OSError`.  Permission
  checks and files that are too large are failures of the step they guard.
  `interrupt_save` is `KeyboardInterrupt` from AC/ON, which `except Exception` does not
  catch; it is delivered where the VM looks for it (branches), so not between the two
  renames, which follow each other without one.  `crash` is a reset or power loss.
  Texts are opaque; loading turns line ends into newlines, so `Normal` maps a text to
  the form the buffer holds.  `saved` is a history variable.
* `MCPyEditor`: values for TLC.

The storage is external: a rename or removal is atomic, a file being written holds a
torn text, and names are compared as (file, kind, number).

### Shell

* `Shell`: the main loop as nested control.  `stack` holds the calls that the loop of
  `main()` is inside of: a line given to `pyexec_repl_execute()` (`repl`), an action of a
  function key (`action`), a terminal command (`terminal`), a picker, and `input()`,
  which runs the event loop again.  `exec` is the place in `parse_compile_execute()`,
  which is cut where an interrupt makes a difference: arming, the end of the code,
  disarming, `mp_handle_pending(true)`, the exception handler, the hook after execution.
  While code waits in `getkey()` (`in_getkey`), the C loop calls the hook of the virtual
  machine but looks for no pending exception, so nothing is delivered.
  `press` is the keyboard driver: it may act between any two steps, and `async_filter()`
  turns AC/ON into a pending interrupt while it is armed.  The console is abstracted to
  its last line (prompt, text, whether a program wrote on it), a text to one of the
  `Lines`.  `entered` and `spoiled` are history variables, and so is the program that is
  attached to each key in the queue.

| Shell | C |
|---|---|
| `mp_interrupt_char`, `pending` | the MicroPython variables (armed or not; `mp_pending_exception`) |
| `c` | the local of `pe_readline()` that keeps the former |
| `keys` | event queue of the keyboard driver |
| `pe_terminal_mode`, `history`, `history_pos` | variables of the patched `main.c` and `widget_shell.c` |
| `timer_used` | which program's timer `resources.c` holds |

* `ShellWidget`: the same loop seen from the screen.  The modifiers SHIFT and ALPHA with
  their six states against the keys that are really held; and the refresh: `print` only
  sets `render_needed`, a timer interrupt turns it into `update`, the loop or the hook of
  the virtual machine draws.  `pe_enter_graphics_mode()` is two steps, because an
  interrupt may strike between its two assignments; drawing is two steps as well.
  `unshown`, `owner` and `missed` are history variables.

`Shell` and `ShellWidget` share the program's life cycle but no property needs both the
nesting and the flags, so they are separate modules.

### Files, permissions, archives

* `PathNames`: resolved paths as sequences of names.
* `Files`: the storage, the permission table of `pyperm` in memory (`cache`) and in its
  file (`stored`), and the tools that use both: `pyterm`'s commands, the file manager with
  its clipboard, the editor's save.  An operation checks the table, changes the storage
  and then the table; `job` holds the tasks left of it, so that AC/ON (`interrupt`) or a
  reset (`restart`) may come between.  A paste is one task per item; copying a folder
  puts tasks for what it holds in front, in whatever order `os.listdir()` gives (`pyfiles`
  does not sort there).  `_save()` may fail without anybody noticing and
  leave the old table or part of the new one; a line cut short may read as another path
  (`Stems`).  A reset loads the table again, and `_load()` passes over a read error: what
  was read before it is then the table (`Read_before`), while the file still has it all.
  `script` is a program that uses the storage behind the table's back.
  `_exists()` takes every error of `os.stat()` for absence; what follows is in `cp_unseen`
  and `paste_unseen` (a copy over a target nobody saw, or its undoing), in `_remove_tree`
  (entries lost) and in `table` (a `chmod` that raises).  `save_interrupted` is a reset
  between the renames of the editor's save, which leaves a free name with an entry.
  New folder and rename of the file manager ask for a name with `input_bar()`, which calls
  `pyeditor._raw_key()`; the prepared `pyeditor` has no such function, so they raise before
  they touch anything, and `create` and `mv` are the commands of the terminal
  (`In_terminal`) and, for a new file, the editor.
  `intent` (the mode that the user gave what is at a path) and `suspect` (paths whose
  entry such an event made wrong) are history variables.  `MCFiles`: values for TLC.
* `ZipFile`: `compress()` and `extract()`, one action per storage operation, each of which
  may raise; `_cleanup()` one removal per action.  A member has a path, a kind, a text and
  what is wrong with it, found on its entry, its local header or its data.  A file that an
  interrupted extraction left torn is archived like any other text.
  `MCZipFile`: values for TLC.

### Proofs

* `SumTheorems`: sums of functions that are extended, shortened or changed at a point;
  the least element of a set of naturals, and induction for a set of naturals.
* `LinebufProofs`: what each operation of the line buffer preserves and returns.
* `ConsoleProofs`: the inductive invariant of the console and the theorems it gives; lazy
  layout; the refinement of `Scrollback`; the window that a frame shows.
* `PyEditorProofs`, `ShellProofs`, `WidgetProofs`, `FilesProofs`, `ZipProofs`: the
  inductive invariants of these modules and their theorems.

## 3. Runs

| Run | Checks | Result |
|---|---|---|
| `console` | `TypeOK`, `Ring`, `Totals`, `Edit`, `Backlog`, `Layout`, `FrameCurrent`, `RenderWindow`, `NothingLeaked`; refinement `ImplementsScrollback` | passes, about 71 000 states |
| `console_destroy` | `FreedOnce` | violated |
| `console_blank_lines` | `RowsOccupied` | violated |
| `console_font` | `Layout` with two fonts | violated |
| `console_long_string` | `TextWritten` | violated |
| `editor` | `TypeOK`, `TextKept`, `NeverTruncated`, `CleanIsStored`; action property `NoOverwrite` | passes, about 4 800 000 states up to symmetry |
| `shell` | `TypeOK`, `InterruptScope`, `HookEffect`, `PromptShown`, `HistorySound`; liveness `InterruptDelivered` | passes, about 880 000 states |
| `shell_hook` | `HookAlways` | violated |
| `widget` | `TypeOK`, `ModSynchronised`, `GraphicsKept`, `OutputFlagged`; liveness `OutputShown` | passes, about 660 000 states |
| `widget_modifier` | `InstantIsPressed` | violated |
| `files` | `TypeOK`, `ModeFollows`, `Persistent`; action property `ProtectedKept` | passes, about 2 600 000 states |
| `zip` | `TypeOK`, `ExistingKept`, `RolledBack`, `Extracted`, `RoundTrip` | passes, about 1 300 000 states |

**Bounds.**  Console: lines of 2 characters, 3 lines of capacity, a backlog of 3 bytes and
7 lines ever created, so that the ring wraps more than twice, both limits are met exactly
and exceeded, and strings of up to 4 characters split over several lines; an allocation of
one character that grows by one, so that `realloc()` is needed and may fail; views of 1
and 2 columns and 2 rows, so that lines wrap and are cut at both ends of the view.
`MaxLines` is the only bound that is not a parameter of the program.  The console may
stop (it can be destroyed, or run out of the bounded lines), so deadlock is not checked
there.  `WriteRaw`: lines of 2 characters and strings of 1 to 3, the shortest that fill a
line and that do not fit.  Editor: two files, of which none is special (symmetry), each
with two siblings of each kind, a plain and a numbered one, so that leftovers take the
first and then all names; three texts of which two differ only in their line ends.  There
is no bound on the number of edits, saves, failures, interrupts or resets, and deadlock is
checked.
Shell: three lines, two of them with a meaning of their own, a history of two entries, so
that it is full and repeats, and one key in the queue (`MaxQueue`), which may be pressed
at any step; the nesting is as deep as the code allows (a picker in `input()` in a
program).  Widget: both modifiers, one event in the queue.  Files: five paths, so that a
folder with a file in it can be copied or moved whole into another folder; a read-only and
a write-only mode besides the default ones; one item on the clipboard; `MaxFaults` = 1
(one interrupt, reset, unreadable table, storage error or script, at any step),
`MaxEntries` = 1 (`chmod` only while the table and its file are empty; copies and moves add
entries) and `MaxItems` = 3 (things created, one less after a fault; copies add more).  Archives: every tree over eight paths, archives of
up to two members out of eight (folders, files in and beside them, the member without a
name, one of each fault), or made by `compress()`; any number of extractions and failures.
Deadlock is checked in all four.

**Fairness.**  `Console`, `PyEditor`, `Files` and `ZipFile` state none: what they do next
is the user's and the program's choice.  `Shell` assumes that C code runs to its end
(arming, disarming, the handlers and the hook, as one weak fairness) and that code that
runs again and again finds a pending interrupt, since the virtual machine looks for one at
every backward branch.  The latter is strong fairness of `deliver`, because calls of
`getkey()` and `input()` may disable it in between; for code that waits in one of them for
ever it promises nothing.  So `InterruptDelivered` says that an interrupt that stays
pending means that the program waits in `input()` or `getkey()` from some time on.  Nothing
assumes that a program ends, that `input()` or `getkey()` is answered or that a key is
pressed.  `ShellWidget` assumes the periodic timer, that the loop or the
hook draws when an update stays requested, and that drawing and taking over the screen run
to their end.  It does not assume that a program ends or prints.

**What the violations show.**

* `console_destroy`: recycled lines leave their pointers in the ring and
  `linebuf_deinit()` frees every slot: once the scrollback was cleared or overflowed,
  quitting frees blocks twice.
* `console_blank_lines`: an empty line counts one row in the layout and is drawn as none,
  so text below blank lines is drawn too high and the bottom of the view stays empty.
* `console_font`: `console_compute_view()` decides by the width alone whether old row
  counts are still good.  After a font command they are those of the old font, and the
  scroll limits and the view are wrong until the width changes.
* `console_long_string`: `console_write_raw()` counts the characters down but does not move
  its pointer forward: each further line gets the beginning of the string again, and the
  rest of it is never written.
* `shell_hook`: terminal commands call Python without `pyexec`, so that
  `pe_after_python_exec()`, "executed automatically after every shell input", is skipped:
  a timer of a script goes on at the prompt, and keys typed meanwhile become input.
* `widget_modifier`: hold SHIFT, press EXE, release SHIFT while the program runs: the
  release is cleared with the queue, and the shell shows an instant SHIFT that no key
  holds, until SHIFT is pressed and released again.

## 4. What is proved

For all values of the constants that satisfy the named assumptions (`StreditAssumption`,
`LinebufAssumption`, `ConsoleAssumption`, `PyEditorAssumption`, `TextsDiffer`,
`ShellAssumption`, `WidgetAssumption`, `FilesAssumption`, and for archives `TextsAreFiles`,
`PathsAssumption`, `ArchivesAssumption`, `SourceFits`):

* **Console** (`ConsoleProofs`): `Invariance`, `TypeCorrect`, `RingCorrect`,
  `TotalsCorrect`, `EditCorrect`, `BacklogBounded`, `AllFreed`.  `Ring` alone is not
  inductive: recycling computes from the headers of the lines it frees, so the invariant
  `IInv` joins the ring (`WellFormed`), the totals (`Summed`), the editor and the byte
  limit.  `WellFormed` and `Summed` are shown for each operator of `Linebuf` first,
  also for the empty ring in the middle of a new line and of a clear.
* **Lazy layout** (`ConsoleProofs`): `LayoutWhileFontKept` and `FrameWhileFontKept` show
  `Layout` and `FrameCurrent` under the condition that `console_font` shows to be necessary: the
  caller keeps the font.  The strengthening is that no line past the last frozen one
  counts as laid out.  `FrameCurrent` excepts the time after `pe_enter_graphics_mode()`
  withdrew a frame, when text may stay undrawn.
* **Refinement** (`ConsoleProofs`): `ScrollbackImplemented`, that `Console` implements
  `Scrollback`.  `Stored` reads the numbered lines off the ring; every action is then
  `EditLast`, `StartLine`, `Clear` or `Close`, or leaves the lines alone.  Lines are their
  lengths on both sides: the theorem does not say which characters are on them.  The new line is
  the step with content: `linebuf_newline()` drops lines for the capacity and
  `linebuf_clean_backlog()` counts bytes down from a running total, and `BytesLeft` shows
  that what it counts are the bytes of the lines that stay, so that together they stop at
  the first line from which everything fits (`NewlineRefines`).
* **Frame** (`ConsoleProofs`): `WindowWithOneFont`, that `RenderWindow` holds if there is
  one font (with two it fails where `Layout` does).  `WindowDrawn` shows that the search
  from the bottom and the clipping agree with `Window` as long as the total is the sum of
  the rows and no line draws more rows than it was given.  The first is `Summed`, the
  second lazy layout, and that a frozen line is no longer than `LineMax` (`Short`) follows
  from the refinement.
* **Editor** (`PyEditorProofs`): `EditorInvariance`, `EditorTypeCorrect`,
  `TextAlwaysKept`, `SourceNeverTruncated`, `CleanBufferStored`, `NothingOverwritten`.
  The invariant adds to the properties that a file that exists holds what was last
  stored under its name, and for each step of a save where the old and the new text are
  (`Progress`).  A clean buffer is stored also in the middle of a save (`CleanStored`),
  which the two renames and the rollback need.

* **Shell** (`ShellProofs`): `TypeCorrect`, `Interrupts`, `Hook`, `Prompts`, `History`.
  The invariant `IInv` says how calls nest, whether AC/ON is armed at each place and what
  `pe_readline()` has saved of it (`Control`), which keys and timers may be left
  (`Left_behind`), what the line holds while each kind of call runs (`Line_kept`: an action
  may not touch the prompt below it without `spoiled`), and that the history is sound
  (`Recalled`).  `InterruptScope` alone is not inductive: it
  says nothing of an armed program below `input()`.
* **Widget** (`WidgetProofs`): `TypeCorrect`, `Modifiers`, `Graphics`, `Output`.  For the
  modifiers the invariant relates a state to the key as it was before the events still in
  the queue (`ModInv`), so it speaks of queues of any length.  For the screen (`DrawInv`)
  it says which flags may be set while the screen is the program's, including the moment
  between the two assignments of `pe_enter_graphics_mode()`.
* **Files and permissions** (`FilesProofs`): `Invariance`, `TypeCorrect`, `ModeCorrect`,
  `PersistentCorrect`, `ProtectedFiles`, for any finite set of paths closed under parents,
  any modes, any clipboard and any number of faults.  `ModeFollows` speaks of an idle tool
  and is not inductive: the invariant says which entries the task at the head of `job`
  owes the table (`Owed`, `Settled`), what a rename looks like before the table has heard
  of it (`Renaming`), and what the tasks of a copy rely on (`JobOK`): each writes into a
  free place in a folder that exists, apart from what the others write, and a paste keeps
  to the folder it was started in, and what a task removes from the table needs no entry
  there (`Plain`).  `Persistent` excepts the time after a failed save or a failed load.  The
  same invariant gives the action property `ProtectedKept`: no step of a command or of a
  paste, also of one that is being undone, touches what the user made read-only, and none
  begins to make or take back something there.  It excepts scripts, and the copies for
  whose target `os.stat()` failed: these can overwrite or remove a protected file.
* **Archives** (`ZipProofs`): `TypeCorrect`, `Preservation`, `Rollback`, `Extraction`,
  `Inversion`.  The invariant joins where the code is (`Where`), that the disk is that of
  before plus exactly what the two lists of created paths name, in an order that lets
  `rmdir()` succeed from the end (`Disks`), that the members before the current one are in
  place and are not where the current file is being written (`Done`, `InFile`), and that an archive of `compress()` has an entry for everything below its
  source (`Whole`).

Only model-checked: the liveness properties `InterruptDelivered` and `OutputShown`, which
rest on fairness and are beyond the prover, and the violations.  Every invariant, every
action property and the refinement that a passing run checks is also a theorem, those of
the layout and of the frame under the condition on the font.

## 5. Not modelled

* Out of memory in `stredit_init()`: `linebuf_newline()` ignores it and the next write
  goes through a null pointer, so there is no behaviour to continue with.
* Widths: `render_lines` is 8 bits and the totals 16; a line has at most 1024 characters
  and a ring 200 lines, and a row of the narrowest view takes several characters, so they
  are not reached.
* Contents of lines but for `WriteRaw`; pixels, cursor drawing, scrollbar.
* A script run from the editor that rewrites the file being edited.
* Shell: the terminal's exit action, which leaves the main loop; start-up (loading the
  configuration and the history); themes.  The terminal's own history file, aliases and RC
  file, and the commands that only print.
* More than one timer of a program: `kandinsky` is the only caller of
  `pe_timer_configure()`.  `pe_timer_autofree()` never clears its set, which matters only
  once timer numbers are reused by others.
* Files: sizes, dates, digits of a mode that grant the same access; a storage that loses
  operations it reported as done.
* Archives: byte layout, DEFLATE, CRC arithmetic (a wrong CRC is a fault of the member);
  an archive inside the folder it extracts to.
* `pathutil.c` and the path functions of `modos.c`: string resolution; the models start
  from resolved paths.  `fdfile.c`: a thin layer over storage calls.
* Interpreter, standard library, drawing and game modules, drivers and the other ports:
  MicroPython's own or vendored code, or code without a protocol.  They are most of the
  repository's lines.

## 6. Plan

Done, in this order: console, editor, shell, widget, files and permissions, archives; the
proofs of all their safety properties.  Left:

1. `PathUtil`: resolution of relative paths against a reference definition on bounded
   paths.
2. Start-up and exit of the shell; the terminal's history file.
