-------------------------------- MODULE Shell -------------------------------
(***************************************************************************)
(* The shell as a whole: the event loop of main.c, the terminal and Python *)
(* prompts, the history of the shell widget, the execution of a statement  *)
(* (pyexec.c) with its AC/ON interrupt, and input(), which runs the event  *)
(* loop again inside a program.  The files are those of ports/sh after the *)
(* apply_pythonultra scripts have patched them.                            *)
(*                                                                         *)
(* stack holds the calls that main()'s loop is inside of.  The keyboard    *)
(* driver runs asynchronously: a key may be pressed between any two steps, *)
(* and async_filter() decides what becomes of it.                          *)
(***************************************************************************)
EXTENDS Naturals, Sequences, SequencesExt

CONSTANTS
    Lines,         \* what may be typed on one line
    HistorySize,   \* WIDGET_SHELL_HISTORY_SIZE, 16
    MaxQueue       \* bound: events in the keyboard driver's queue

Blank == ""        \* the empty line

ASSUME ShellAssumption ==
    /\ {Blank, "exit", "clear"} \subseteq Lines /\ "mixed" \notin Lines
    /\ HistorySize \in Nat \ {0} /\ MaxQueue \in Nat \ {0}

(* Calls: a line given to pyexec_repl_execute() or to pe_terminal_dispatch(),
   pe_run_python_action(), a picker called as a function, pe_readline(). *)
Pyexec   == {"repl", "action"}
Programs == Pyexec \cup {"terminal"}
Frames   == Programs \cup {"picker", "input"}

Stacks == {<<>>} \cup {<<f>> : f \in Programs \cup {"picker"}}
            \cup {<<f, "input">> : f \in Programs}
            \cup {<<f, "input", "picker">> : f \in Programs}

(* Keys: one that edits the line, and those with a meaning of their own. *)
Keys == {"edit", "ACON", "EXE", "UP", "DOWN", "F1", "F3", "SYMBOLS"}

VARIABLES
    stack,
    exec,                \* where parse_compile_execute() is
    in_getkey,           \* Python code waits in getkey()
    mp_interrupt_char,   \* TRUE if AC/ON interrupts
    c,                   \* what pe_readline() saved of it
    pending,             \* mp_pending_exception is set
    keys,                \* the queue, each key with what ran when it was pressed
    line,                \* the last line of the console
    pe_terminal_mode,
    history, history_pos,
    entered,             \* history: the last line entered; Blank if not kept
    spoiled,             \* history: a program wrote on the line being edited
    timer_used           \* the program whose timer ticks, or "none"

hist == <<history, history_pos, entered>>
intr == <<mp_interrupt_char, c, pending>>
host == <<pe_terminal_mode, timer_used>>
vars == <<stack, exec, in_getkey, intr, keys, line, host, hist, spoiled>>

(* A line: its prompt, the text after the prompt, and whether output of a
   program is part of that text. *)
Fresh      == [prompt |-> "none", text |-> Blank, foreign |-> FALSE]
Prompt(p)  == [prompt |-> p, text |-> Blank, foreign |-> FALSE]
Line_text  == IF line.foreign THEN "mixed" ELSE line.text

Here    == IF stack = <<>> THEN "loop" ELSE Head(stack)
Top     == IF stack = <<>> THEN "loop" ELSE Last(stack)
Waiting == Top \in {"loop", "input"}
In_code == Top \in Programs \cup {"picker"} /\ (Top \in Pyexec => exec = "run")
Vm_runs == In_code /\ ~in_getkey

(* The terminal prompt first; unless the RC file says otherwise, the file
   manager is started over it. *)
Init ==
    /\ stack \in {<<>>, <<"action">>}
    /\ exec = IF stack = <<>> THEN "none" ELSE "compile"
    /\ mp_interrupt_char = FALSE /\ c = FALSE /\ pending = FALSE
    /\ in_getkey = FALSE /\ keys = <<>>
    /\ line = Prompt("terminal") /\ pe_terminal_mode = TRUE
    /\ history = <<>> /\ history_pos = 0 /\ entered = Blank
    /\ spoiled = FALSE /\ timer_used = "none"

Show_prompt(p) == line' = Prompt(p) /\ spoiled' = FALSE
Call(f) == stack' = Append(stack, f)

-----------------------------------------------------------------------------
(* async_filter(): AC/ON interrupts while it is armed, and is gobbled. *)
press(k) ==
    /\ IF k = "ACON" /\ mp_interrupt_char
       THEN pending' = TRUE /\ UNCHANGED keys
       ELSE /\ Len(keys) < MaxQueue
            /\ keys' = Append(keys, [key |-> k, at |-> Here])
            /\ UNCHANGED pending
    /\ UNCHANGED <<in_getkey, stack, exec, mp_interrupt_char, c, line, host, hist, spoiled>>

-----------------------------------------------------------------------------
(* The event loop, main()'s or the one of input(), takes a key. *)

Takes(k) == Waiting /\ keys # <<>> /\ Head(keys).key = k /\ keys' = Tail(keys)

(* Mutant: a line equal to the last one is pushed again. *)
push_twice(l) ==
    IF l = Blank
    THEN history_pos' = Len(history) /\ UNCHANGED <<history, entered>>
    ELSE /\ history' = Append(IF Len(history) = HistorySize THEN Tail(history) ELSE history, l)
         /\ history_pos' = Len(history') /\ entered' = l

(* Nothing for an empty line or one equal to the last; the oldest entry makes
   room; strdup() may fail. *)
widget_shell_history_push(l) ==
    IF l = Blank \/ (history # <<>> /\ Last(history) = l)
    THEN history_pos' = Len(history) /\ entered' = (IF l = Blank THEN entered ELSE l)
         /\ UNCHANGED history
    ELSE \/ /\ history' = Append(IF Len(history) = HistorySize THEN Tail(history)
                                                               ELSE history, l)
            /\ history_pos' = Len(history') /\ entered' = l
         \/ entered' = Blank /\ UNCHANGED <<history, history_pos>>

(* Mutant: DOWN does not stop after the last entry. *)
recall_past(direction) ==
    /\ Takes(direction)
    /\ IF history = <<>> THEN UNCHANGED <<history_pos, line>>
       ELSE /\ history_pos' = IF direction = "DOWN" THEN history_pos + 1
                              ELSE IF history_pos > 0 THEN history_pos - 1 ELSE 0
            /\ line' = [line EXCEPT !.foreign = FALSE, !.text =
                   IF history_pos' < Len(history) THEN history[history_pos' + 1] ELSE Blank]
    /\ UNCHANGED <<in_getkey, stack, exec, intr, host, history, entered, spoiled>>

(* UP and DOWN replace the text by an entry, or by nothing after the last. *)
widget_shell_history_recall(direction) ==
    /\ Takes(direction)
    /\ IF history = <<>> THEN UNCHANGED <<history_pos, line>>
       ELSE /\ history_pos' = IF direction = "UP"
                              THEN IF history_pos > 0 THEN history_pos - 1 ELSE 0
                              ELSE IF history_pos < Len(history) THEN history_pos + 1
                                                                 ELSE history_pos
            /\ line' = [line EXCEPT !.foreign = FALSE, !.text =
                   IF history_pos' < Len(history) THEN history[history_pos' + 1] ELSE Blank]
    /\ UNCHANGED <<in_getkey, stack, exec, intr, host, history, entered, spoiled>>

(* A character, DEL, a cursor key; AC/ON clears the line. *)
edit ==
    /\ \/ Takes("edit") /\ \E l \in Lines : line' = [line EXCEPT !.text = l]
       \/ Takes("ACON") /\ line' = [line EXCEPT !.text = Blank, !.foreign = FALSE]
    /\ UNCHANGED <<in_getkey, stack, exec, intr, host, hist, spoiled>>

(* EXE at the Python prompt. *)
python_line ==
    /\ stack = <<>> /\ ~pe_terminal_mode
    /\ Takes("EXE")
    /\ widget_shell_history_push(Line_text)
    /\ IF Line_text \in {"exit", "clear"}
       THEN /\ pe_terminal_mode' = (Line_text = "exit")
            /\ Show_prompt(IF Line_text = "exit" THEN "terminal" ELSE "python")
            /\ UNCHANGED <<stack, exec>>
       ELSE /\ Call("repl") /\ exec' = "compile" /\ line' = Fresh
            /\ UNCHANGED <<pe_terminal_mode, spoiled>>
    /\ UNCHANGED <<in_getkey, intr, timer_used>>

(* EXE at the terminal prompt: pe_terminal_dispatch() calls pyterm.dispatch()
   directly, not through pyexec. *)
terminal_line ==
    /\ stack = <<>> /\ pe_terminal_mode
    /\ Takes("EXE")
    /\ widget_shell_history_push(Line_text)
    /\ Call("terminal") /\ line' = Fresh
    /\ UNCHANGED <<in_getkey, exec, intr, host, spoiled>>

(* Mutant: AC/ON stays disarmed after input(). *)
readline_forgets ==
    /\ Top = "input"
    /\ Takes("EXE")
    /\ widget_shell_history_push(Line_text)
    /\ c' = FALSE
    /\ stack' = Front(stack) /\ line' = Fresh
    /\ spoiled' = (spoiled \/ Here = "action")
    /\ UNCHANGED <<in_getkey, exec, mp_interrupt_char, pending, host>>

(* EXE in input(): pe_readline() returns the line to the program. *)
pe_readline_end ==
    /\ Top = "input"
    /\ Takes("EXE")
    /\ widget_shell_history_push(Line_text)
    /\ mp_interrupt_char' = c /\ c' = FALSE
    /\ stack' = Front(stack) /\ line' = Fresh
    /\ spoiled' = (spoiled \/ Here = "action")
    /\ UNCHANGED <<in_getkey, exec, pending, host>>

(* F1, F5 and F6 run a Python action over the line being edited; F3 and
   SHIFT+DEL call a picker.  Inside input() only the latter does something. *)
shortcut ==
    /\ \/ Takes("F1") /\ IF stack = <<>> THEN Call("action") /\ exec' = "compile"
                                         ELSE UNCHANGED <<stack, exec>>
       \/ /\ Takes("F3") /\ UNCHANGED exec
          /\ IF stack = <<>> THEN Call("picker") ELSE UNCHANGED stack
       \/ Takes("SYMBOLS") /\ Call("picker") /\ UNCHANGED exec
    /\ UNCHANGED <<in_getkey, intr, line, host, hist, spoiled>>

-----------------------------------------------------------------------------
(* parse_compile_execute() *)

(* AC/ON is armed once the line is compiled. *)
arm ==
    /\ Top \in Pyexec /\ exec = "compile"
    /\ \/ mp_interrupt_char' = TRUE /\ exec' = "run"
       \/ exec' = "raised" /\ UNCHANGED mp_interrupt_char      \* SyntaxError
    /\ UNCHANGED <<in_getkey, stack, c, pending, keys, line, host, hist, spoiled>>

(* The code returns or raises. *)
code_ends ==
    /\ Top \in Pyexec /\ Vm_runs
    /\ exec' \in {"returned", "raised"}
    /\ UNCHANGED <<in_getkey, stack, intr, keys, line, host, hist, spoiled>>

disarm ==
    /\ Top \in Pyexec /\ exec \in {"returned", "raised"}
    /\ mp_interrupt_char' = FALSE
    /\ exec' = IF exec = "returned" THEN "handle" ELSE "report"
    /\ UNCHANGED <<in_getkey, stack, c, pending, keys, line, host, hist, spoiled>>

(* mp_handle_pending(true): an interrupt that the code did not see is raised
   now, and the exception handler disarms once more. *)
handle ==
    /\ Top \in Pyexec /\ exec = "handle"
    /\ exec' = IF pending THEN "raised" ELSE "done"
    /\ pending' = FALSE
    /\ UNCHANGED <<in_getkey, stack, mp_interrupt_char, c, keys, line, host, hist, spoiled>>

(* Mutant: the handler does not call mp_handle_pending(false). *)
report_pending ==
    /\ Top \in Pyexec /\ exec = "report"
    /\ exec' = "done"
    /\ line' \in {Fresh, line} /\ spoiled' = (spoiled \/ Here = "action")
    /\ UNCHANGED <<in_getkey, stack, intr, keys, host, hist>>

(* mp_handle_pending(false) drops an interrupt that came after the exception;
   then the exception is printed, unless it is SystemExit. *)
report ==
    /\ Top \in Pyexec /\ exec = "report"
    /\ pending' = FALSE
    /\ exec' = "done"
    /\ line' \in {Fresh, line} /\ spoiled' = (spoiled \/ Here = "action")
    /\ UNCHANGED <<in_getkey, stack, mp_interrupt_char, c, keys, host, hist>>

(* Mutant: clearevents() is left out of pe_after_python_exec(). *)
pyexec_end_keeps ==
    /\ Top \in Pyexec /\ exec = "done"
    /\ exec' = "none" /\ stack' = <<>>
    /\ IF Top = "repl" THEN Show_prompt("python") ELSE UNCHANGED <<line, spoiled>>
    /\ timer_used' = "none"
    /\ UNCHANGED <<in_getkey, intr, keys, pe_terminal_mode, hist>>

(* Mutant: the caller prints no prompt. *)
pyexec_end_bare ==
    /\ Top \in Pyexec /\ exec = "done"
    /\ keys' = <<>> /\ timer_used' = "none"
    /\ exec' = "none" /\ stack' = <<>>
    /\ UNCHANGED <<in_getkey, intr, line, spoiled, pe_terminal_mode, hist>>

(* pe_after_python_exec() clears the queue and stops the timers that programs
   configured; then the caller goes on: a prompt
   after a line, none after an action. *)
pyexec_end ==
    /\ Top \in Pyexec /\ exec = "done"
    /\ keys' = <<>> /\ timer_used' = "none"
    /\ exec' = "none" /\ stack' = <<>>
    /\ IF Top = "repl" THEN Show_prompt("python") ELSE UNCHANGED <<line, spoiled>>
    /\ UNCHANGED <<in_getkey, intr, pe_terminal_mode, hist>>

-----------------------------------------------------------------------------
(* The rest of what Python code does, and the ends of the other calls. *)

(* print(): text that ends a line, or that stays on it. *)
print ==
    /\ Vm_runs /\ Top # "picker"
    /\ line' \in {Fresh, [line EXCEPT !.foreign = TRUE]}
    /\ spoiled' = (spoiled \/ Here = "action")
    /\ UNCHANGED <<in_getkey, stack, exec, intr, keys, host, hist>>

(* pollevent() takes an event from the queue if there is one. *)
pollevent ==
    /\ Vm_runs /\ keys # <<>>
    /\ keys' = Tail(keys)
    /\ UNCHANGED <<in_getkey, stack, exec, intr, line, host, hist, spoiled>>

(* getkey() and getkey_opt() wait in C: the hook of the virtual machine is
   called meanwhile, but no pending exception is looked for. *)
getkey ==
    /\ Vm_runs
    /\ in_getkey' = TRUE
    /\ UNCHANGED <<stack, exec, intr, keys, line, host, hist, spoiled>>

(* An event comes, or the time of getkey_opt() is over. *)
getkey_returns ==
    /\ in_getkey
    /\ in_getkey' = FALSE
    /\ keys' = IF keys # <<>> THEN Tail(keys) ELSE keys
    /\ UNCHANGED <<stack, exec, intr, line, host, hist, spoiled>>

(* Kandinsky_init(): "an auto-freed timer until the end of the program's
   execution". *)
pe_timer_configure ==
    /\ Vm_runs /\ Top # "picker"
    /\ timer_used = "none" /\ timer_used' = Here
    /\ UNCHANGED <<in_getkey, stack, exec, intr, keys, line, pe_terminal_mode, hist, spoiled>>

(* input(): pe_readline() shows the prompt and disarms AC/ON. *)
pe_readline ==
    /\ Vm_runs /\ Top # "picker"
    /\ Show_prompt("input")
    /\ c' = mp_interrupt_char /\ mp_interrupt_char' = FALSE
    /\ Call("input")
    /\ UNCHANGED <<in_getkey, exec, pending, keys, host, hist>>

(* The virtual machine finds the pending interrupt at a branch.  The code may
   catch it; else a picker ends with the exception printed on the line, and a
   line or an action ends. *)
deliver ==
    /\ Vm_runs /\ pending
    /\ pending' = FALSE
    /\ \/ UNCHANGED <<stack, exec, line, spoiled>>
       \/ /\ Top = "picker"
          /\ stack' = Front(stack) /\ line' = Fresh /\ spoiled' = TRUE
          /\ UNCHANGED exec
       \/ Top \in Pyexec /\ exec' = "raised" /\ UNCHANGED <<stack, line, spoiled>>
    /\ UNCHANGED <<in_getkey, mp_interrupt_char, c, keys, host, hist>>

(* A picker ends: its choice is inserted into the line, or there is none, or
   an exception is printed. *)
picker_end ==
    /\ Top = "picker" /\ Vm_runs
    /\ stack' = Front(stack)
    /\ \/ UNCHANGED <<line, spoiled>>
       \/ (\E l \in Lines : line' = [line EXCEPT !.text = l]) /\ UNCHANGED spoiled
       \/ line' = Fresh /\ spoiled' = TRUE
    /\ UNCHANGED <<in_getkey, exec, intr, keys, host, hist>>

(* pe_terminal_dispatch() returns the action of the command, none if it
   raised: enter Python, clear the history, open the catalog; the others
   (clear, font, theme, configuration) leave a new prompt as well. *)
terminal_end ==
    /\ Top = "terminal" /\ Vm_runs
    /\ \/ /\ pe_terminal_mode' = FALSE /\ Show_prompt("python")
          /\ stack' = <<>> /\ UNCHANGED hist
       \/ /\ history' = <<>> /\ history_pos' = 0 /\ entered' = Blank
          /\ Show_prompt("terminal")
          /\ stack' = <<>> /\ UNCHANGED pe_terminal_mode
       \/ /\ stack' \in {<<>>, <<"picker">>}
          /\ Show_prompt("terminal")
          /\ UNCHANGED <<pe_terminal_mode, hist>>
    /\ UNCHANGED <<in_getkey, exec, intr, keys, timer_used>>

Handles ==
    \/ edit \/ widget_shell_history_recall("UP") \/ widget_shell_history_recall("DOWN")
    \/ python_line \/ terminal_line \/ pe_readline_end \/ shortcut

Next ==
    \/ \E k \in Keys : press(k)
    \/ Handles
    \/ arm \/ code_ends \/ disarm \/ handle \/ report \/ pyexec_end
    \/ print \/ pollevent \/ getkey \/ getkey_returns \/ pe_timer_configure \/ pe_readline
    \/ deliver \/ picker_end \/ terminal_end

(* The machine goes on with what it is doing: C code runs to its end.  The
   virtual machine looks for a pending exception at every backward branch, so
   code that runs again and again, with calls of getkey() and input() or
   without, finds it.  A key is never certain to come, nor is the end of a
   program. *)
Fairness == WF_vars(arm \/ disarm \/ handle \/ report \/ pyexec_end) /\ SF_vars(deliver)

Spec == Init /\ [][Next]_vars /\ Fairness

-----------------------------------------------------------------------------
(* Types. *)
TypeOK ==
    /\ stack \in Stacks
    /\ exec \in {"none", "compile", "run", "returned", "raised", "handle", "report", "done"}
    /\ (exec = "none") = (Here \notin Pyexec)
    /\ in_getkey \in BOOLEAN /\ (in_getkey => In_code)
    /\ mp_interrupt_char \in BOOLEAN /\ c \in BOOLEAN /\ pending \in BOOLEAN
    /\ keys \in Seq([key : Keys, at : Frames \cup {"loop"}]) /\ Len(keys) <= MaxQueue
    /\ line \in [prompt : {"none", "terminal", "python", "input"},
                 text : Lines \cup {"mixed"}, foreign : BOOLEAN]
    /\ pe_terminal_mode \in BOOLEAN
    /\ history \in Seq(Lines \cup {"mixed"}) /\ Len(history) <= HistorySize
    /\ history_pos \in 0 .. Len(history)
    /\ entered \in Lines \cup {"mixed"} /\ spoiled \in BOOLEAN
    /\ timer_used \in Programs \cup {"none"}

(* AC/ON interrupts exactly the code of a line or an action: while that code
   runs it is armed, also after it called input(), and an interrupt that was
   taken never outlives it, so that none strikes the shell, a terminal
   command or the next program. *)
InterruptScope ==
    /\ mp_interrupt_char => Top \in Pyexec /\ exec \in {"run", "returned", "raised"}
    /\ Top \in Pyexec /\ exec = "run" => mp_interrupt_char
    /\ pending => Here \in Pyexec /\ exec # "done"

(* At the prompt: no key that was typed while one of these ran is in the
   queue, and none of their timers ticks. *)
Tidy(programs) ==
    stack = <<>> => /\ timer_used \notin programs
                    /\ \A n \in DOMAIN keys : keys[n].at \notin programs

(* A line of Python or an action leaves nothing behind, however it ends: what
   was typed meanwhile is not taken for input of the prompt that follows, and
   its timers do not go on. *)
HookEffect == Tidy(Pyexec)

(* The user edits after the prompt of the current mode, or of input(), and
   the text edited is what he typed; except where an action or a picker wrote
   on the line under edition, which nothing repairs. *)
PromptShown ==
    Waiting /\ ~spoiled =>
        /\ ~line.foreign
        /\ line.prompt = IF Top = "input" THEN "input"
                         ELSE IF pe_terminal_mode THEN "terminal" ELSE "python"

(* The history has no empty line and no line twice in a row, and its newest
   entry is the last line entered, at whatever prompt, however full it is. *)
HistorySound ==
    /\ \A n \in DOMAIN history : history[n] # Blank
    /\ \A n \in 1 .. Len(history) - 1 : history[n] # history[n + 1]
    /\ entered # Blank => history # <<>> /\ Last(history) = entered

(* AC/ON takes effect: an interrupt that was taken is delivered, or dropped
   at the end of the program.  It stays pending for good only in a program
   that waits for good, in input() or in getkey(). *)
InterruptDelivered == <>[]pending => <>[](Top = "input" \/ in_getkey)

(* mpconfigport.h:111 "Command executed automatically after every shell
   input", and modkandinsky.c:111 "Allocate an auto-freed timer until the end
   of the program's execution": no command leaves keys or timers behind. *)
HookAlways == Tidy(Programs)
=============================================================================
