----------------------------- MODULE ShellWidget ----------------------------
(***************************************************************************)
(* The shell widget (widget_shell.c): the state machine of the SHIFT and   *)
(* ALPHA keys, and the refresh of the screen, with the drawing functions   *)
(* of main.c.                                                              *)
(*                                                                         *)
(* Printing only sets a flag; a timer interrupt turns it into a request    *)
(* for an update; the event loop, or the hook of the virtual machine while *)
(* a program runs, draws.  A program that draws for itself cancels what is *)
(* pending.  Key events wait in the driver's queue, which a program may    *)
(* read, and which is cleared when a line of Python or an action ends.     *)
(***************************************************************************)
EXTENDS Naturals, Sequences

CONSTANTS
    Mods,       \* SHIFT and ALPHA
    MaxQueue    \* bound: events in the keyboard driver's queue

ASSUME WidgetAssumption == "EXE" \notin Mods /\ "other" \notin Mods /\ MaxQueue \in Nat \ {0}

States == {"IDLE", "INSTANT", "INSTANT_USED", "LOCKED", "LOCKED_INSTANT", "LOCKED_INSTANT_USED"}
Events == [key : Mods, type : {"DOWN", "UP"}] \cup [key : {"EXE", "other"}, type : {"DOWN"}]

VARIABLES
    mods,            \* the state of each modifier, shift and alpha
    held,            \* keyboard: the modifiers that are pressed
    queue,           \* keyboard: the events not read yet
    missed,          \* history: modifiers whose last event the widget never saw
    runs,            \* what runs: "none", "pyexec", "terminal"
    input,           \* it waits in input()
    render_needed,   \* flag of the console
    update,          \* flag of the widget
    scene_update,    \* flag of the scene
    pe_dupdate_scheduled,
    ticking,         \* the timer of the kandinsky module runs
    step,            \* C code in progress: "none", "draw", "claim" or "claimed"
    unshown,         \* history: the console changed since it was drawn
    owner,           \* history: the "shell" since it was last used, or the "program"
                     \* since it drew; "claimed" once it cancelled the shell's redraws
    screen           \* who drew what is on the screen

modvars == <<mods, held, queue, missed>>
drawing == <<render_needed, update, scene_update, pe_dupdate_scheduled, ticking, step>>
history == <<unshown, owner, screen>>
vars    == <<modvars, runs, input, drawing, history>>

Init ==
    /\ mods = [m \in Mods |-> "IDLE"] /\ held = {} /\ queue = <<>> /\ missed = {}
    /\ runs = "none" /\ input = FALSE
    /\ render_needed = TRUE /\ update = TRUE /\ scene_update = TRUE
    /\ pe_dupdate_scheduled = FALSE /\ ticking = FALSE /\ step = "none"
    /\ unshown = TRUE /\ owner = "shell" /\ screen = "shell"

(* The event loop has control. *)
Looping == step = "none" /\ (runs = "none" \/ input)

(* Mutant: the program goes on while input() waits. *)
vm_runs_nested == step = "none" /\ runs # "none"

(* The virtual machine has control. *)
Vm_runs == step = "none" /\ runs # "none" /\ ~input

(* console_write() and the editing functions of the console. *)
Console_changes == render_needed' = TRUE /\ unshown' = TRUE /\ owner' = "shell"

(* The pending redraws of the shell are cancelled. *)
Claim == owner' = IF owner = "program" THEN owner ELSE "claimed"

-----------------------------------------------------------------------------
(* Modifiers *)

mod_down(s) == CASE s = "IDLE"   -> "INSTANT"
                 [] s = "LOCKED" -> "LOCKED_INSTANT"
                 [] OTHER        -> s

(* Mutant: a lock that is used while its key is down is left instant. *)
mod_up_stuck(s) == CASE s = "INSTANT"        -> "LOCKED"
                     [] s = "INSTANT_USED"   -> "IDLE"
                     [] s = "LOCKED_INSTANT" -> "IDLE"
                     [] OTHER                -> s

mod_up(s) == CASE s = "INSTANT"             -> "LOCKED"
               [] s = "INSTANT_USED"        -> "IDLE"
               [] s = "LOCKED_INSTANT"      -> "IDLE"
               [] s = "LOCKED_INSTANT_USED" -> "LOCKED"
               [] OTHER                     -> s

mod_down_other(s) == CASE s = "INSTANT"        -> "INSTANT_USED"
                       [] s = "LOCKED_INSTANT" -> "LOCKED_INSTANT_USED"
                       [] OTHER                -> s

mod_instant(s) == s \notin {"IDLE", "LOCKED"}

(* The keyboard driver, asynchronously. *)
key(e) ==
    /\ Len(queue) < MaxQueue
    /\ e.key \in Mods => (e.type = "DOWN") = (e.key \notin held)
    /\ held' = IF e.key \notin Mods THEN held
               ELSE IF e.type = "DOWN" THEN held \cup {e.key} ELSE held \ {e.key}
    /\ queue' = Append(queue, e)
    /\ UNCHANGED <<mods, missed, runs, input, drawing, history>>

(* WIDGET_SHELL_MOD_CHANGED makes pe_handle_event() update the scene. *)
Mods_become(new) == mods' = new /\ scene_update' = (scene_update \/ new # mods)

Takes == Looping /\ queue # <<>> /\ queue' = Tail(queue)

(* widget_shell_update_mod() *)
widget_shell_update_mod ==
    /\ Takes
    /\ LET e == Head(queue) IN
       /\ e.key \in Mods
       /\ Mods_become([mods EXCEPT ![e.key] =
              IF e.type = "UP" THEN mod_up(@) ELSE mod_down(@)])
       /\ missed' = IF e.type = "UP" THEN missed \ {e.key} ELSE missed
    /\ UNCHANGED <<held, runs, input, render_needed, update, pe_dupdate_scheduled, ticking, step, history>>

widget_shell_use_mods == Mods_become([m \in Mods |-> mod_down_other(mods[m])])

(* Another key edits the line or moves the cursor. *)
edit_key ==
    /\ Takes
    /\ Head(queue).key = "other"
    /\ widget_shell_use_mods
    /\ \/ Console_changes /\ UNCHANGED update
       \/ update' = TRUE /\ UNCHANGED <<render_needed, unshown, owner>>
    /\ UNCHANGED <<held, missed, runs, input, pe_dupdate_scheduled, ticking, step, screen>>

(* EXE: console_newline(), and a program starts or input() returns. *)
exe_key ==
    /\ Takes
    /\ Head(queue).key = "EXE"
    /\ widget_shell_use_mods
    /\ Console_changes
    /\ IF input THEN input' = FALSE /\ UNCHANGED runs
       ELSE runs' \in {"pyexec", "terminal"} /\ UNCHANGED input
    /\ UNCHANGED <<held, missed, update, pe_dupdate_scheduled, ticking, step, screen>>

-----------------------------------------------------------------------------
(* The program *)

(* print(), and the prompt of input(). *)
print ==
    /\ Vm_runs
    /\ Console_changes
    /\ input' \in BOOLEAN
    /\ UNCHANGED <<modvars, runs, update, scene_update, pe_dupdate_scheduled, ticking, step, screen>>

(* getkey() takes an event that the widget will not see. *)
getkey ==
    /\ Vm_runs /\ queue # <<>>
    /\ queue' = Tail(queue)
    /\ missed' = missed \cup ({Head(queue).key} \cap Mods)
    /\ UNCHANGED <<mods, held, runs, input, drawing, history>>

(* Mutant: the update is cancelled before the flag it comes from. *)
graphics_swapped ==
    \/ Vm_runs /\ update' = FALSE /\ step' = "claim" /\ UNCHANGED render_needed
    \/ step = "claim" /\ render_needed' = FALSE /\ step' = "claimed" /\ UNCHANGED update

(* pe_enter_graphics_mode(), called by the program: the flag first, then the
   update; a timer may strike in between. *)
pe_enter_graphics_mode ==
    \/ Vm_runs /\ render_needed' = FALSE /\ step' = "claim" /\ UNCHANGED update
    \/ step = "claim" /\ update' = FALSE /\ step' = "claimed" /\ UNCHANGED render_needed

enter_graphics ==
    /\ pe_enter_graphics_mode
    /\ UNCHANGED <<modvars, runs, input, scene_update, pe_dupdate_scheduled, ticking, history>>

(* dupdate() and show_screen() put the picture on the screen. *)
dupdate ==
    /\ step = "claimed"
    /\ step' = "none" /\ owner' = "program" /\ screen' = "program"
    /\ pe_dupdate_scheduled' = FALSE
    /\ UNCHANGED <<modvars, runs, input, render_needed, update, scene_update, ticking, unshown>>

(* The import of gint, casioplot or kandinsky only clears the picture; that of
   kandinsky starts a timer, if there is one left. *)
import_graphics ==
    /\ step = "claimed"
    /\ step' = "none" /\ Claim
    /\ ticking' \in {ticking, TRUE}
    /\ UNCHANGED <<modvars, runs, input, render_needed, update, scene_update,
                   pe_dupdate_scheduled, unshown, screen>>

(* The timer of kandinsky: an interrupt, wherever the program or the shell is. *)
pe_schedule_dupdate ==
    /\ ticking
    /\ render_needed' = FALSE /\ update' = FALSE /\ pe_dupdate_scheduled' = TRUE
    /\ IF Vm_runs THEN owner' = "program" ELSE Claim
    /\ UNCHANGED <<modvars, runs, input, scene_update, ticking, step, unshown, screen>>

(* Mutant: pe_run_python_action() does not update the scene. *)
program_end_still ==
    /\ Vm_runs
    /\ runs' = "none"
    /\ UNCHANGED <<queue, missed, scene_update>>
    /\ \/ Console_changes
       \/ runs = "pyexec" /\ owner' = "shell" /\ UNCHANGED <<render_needed, unshown>>
    /\ ticking' = (ticking /\ runs = "terminal")
    /\ UNCHANGED <<mods, held, input, update, pe_dupdate_scheduled, step, screen>>

(* The end of a line of Python or an action clears the queue and stops the
   program's timer; that of a terminal command does not.  A prompt is printed,
   or the scene updated. *)
program_end ==
    /\ Vm_runs
    /\ runs' = "none"
    /\ IF runs = "pyexec"
       THEN /\ queue' = <<>>
            /\ missed' = missed \cup ({queue[n].key : n \in DOMAIN queue} \cap Mods)
       ELSE UNCHANGED <<queue, missed>>
    /\ \/ Console_changes /\ UNCHANGED scene_update
       \/ /\ runs = "pyexec" /\ scene_update' = TRUE /\ owner' = "shell"
          /\ UNCHANGED <<render_needed, unshown>>
    /\ ticking' = (ticking /\ runs = "terminal")
    /\ UNCHANGED <<mods, held, input, update, pe_dupdate_scheduled, step, screen>>

-----------------------------------------------------------------------------
(* Drawing *)

(* Mutant: the timer leaves a running program alone. *)
timer_idle ==
    /\ render_needed /\ runs = "none"
    /\ update' = TRUE
    /\ UNCHANGED <<modvars, runs, input, render_needed, scene_update,
                   pe_dupdate_scheduled, ticking, step, history>>

(* The timer interrupt. *)
widget_shell_timer_handler ==
    /\ render_needed
    /\ update' = TRUE
    /\ UNCHANGED <<modvars, runs, input, render_needed, scene_update,
                   pe_dupdate_scheduled, ticking, step, history>>

(* JSCENE_PAINT for any update of the scene, or MICROPY_VM_HOOK_LOOP for one
   of the widget. *)
draw_begin ==
    /\ \/ Looping /\ (update \/ scene_update)
       \/ Vm_runs /\ update
    /\ step' = "draw"
    /\ UNCHANGED <<modvars, runs, input, render_needed, update, scene_update,
                   pe_dupdate_scheduled, ticking, history>>

(* pe_draw(): the widget is rendered, which clears the flag of the console;
   the toolkit clears the updates, before or after, so that one set by the
   timer meanwhile may stay. *)
draw_end ==
    /\ step = "draw"
    /\ step' = "none"
    /\ render_needed' = FALSE
    /\ scene_update' = FALSE /\ update' \in {FALSE, update}
    /\ unshown' = FALSE /\ screen' = "shell" /\ pe_dupdate_scheduled' = FALSE
    /\ UNCHANGED <<modvars, runs, input, ticking, owner>>

(* The other half of MICROPY_VM_HOOK_LOOP. *)
pe_dupdate ==
    /\ Vm_runs /\ pe_dupdate_scheduled /\ ~update
    /\ pe_dupdate_scheduled' = FALSE /\ screen' = "program"
    /\ UNCHANGED <<modvars, runs, input, render_needed, update, scene_update, ticking, step,
                   unshown, owner>>

Next ==
    \/ \E e \in Events : key(e)
    \/ widget_shell_update_mod \/ edit_key \/ exe_key
    \/ print \/ getkey \/ enter_graphics \/ dupdate \/ import_graphics
    \/ pe_schedule_dupdate \/ program_end
    \/ widget_shell_timer_handler \/ draw_begin \/ draw_end \/ pe_dupdate

(* The timer is periodic; the loop and the hook look at the updates each time
   round; C code runs to its end. *)
Fairness ==
    /\ WF_vars(widget_shell_timer_handler)
    /\ WF_vars(draw_begin) /\ WF_vars(draw_end)
    /\ WF_vars(enter_graphics /\ step # "none") /\ WF_vars(dupdate \/ import_graphics)

Spec == Init /\ [][Next]_vars /\ Fairness

-----------------------------------------------------------------------------
(* Types. *)
TypeOK ==
    /\ mods \in [Mods -> States] /\ held \subseteq Mods /\ missed \subseteq Mods
    /\ queue \in Seq(Events) /\ Len(queue) <= MaxQueue
    /\ runs \in {"none", "pyexec", "terminal"} /\ input \in BOOLEAN
    /\ input => runs # "none"
    /\ render_needed \in BOOLEAN /\ update \in BOOLEAN /\ scene_update \in BOOLEAN
    /\ pe_dupdate_scheduled \in BOOLEAN
    /\ step \in {"none", "draw", "claim", "claimed"} /\ ticking \in BOOLEAN
    /\ unshown \in BOOLEAN /\ owner \in {"shell", "claimed", "program"} /\ screen \in {"shell", "program"}

(* Once the widget has read all events, a modifier is instant-loaded exactly
   if its key is down.  If a program or the clearing of the queue took one of
   its events, this holds again from the next release that the widget sees. *)
ModSynchronised ==
    queue = <<>> => \A m \in Mods \ missed : mod_instant(mods[m]) = (m \in held)

(* widget_shell.h:20 "pending shell redraws are dropped and all screen updates
   are left to the program until the shell is used again": what the program
   put on the screen stays, wherever the timer strikes. *)
GraphicsKept == owner = "program" /\ ~pe_dupdate_scheduled => screen = "program"

(* No output is forgotten: what was printed and not drawn is flagged, unless
   the program took over the screen after that. *)
OutputFlagged ==
    unshown => \/ render_needed \/ scene_update
               \/ owner # "shell" \/ step \in {"claim", "claimed"}

(* What is printed is drawn, by the loop or in the middle of a program that
   never ends, unless the program takes over the screen. *)
OutputShown == unshown ~> (~unshown \/ owner # "shell")

(* widget_shell.h:93 "The instant boolean which is set when one of the
   modifiers is in instant mode. This is the case when either SHIFT or ALPHA
   is pressed", at the prompt with all events read. *)
InstantIsPressed ==
    runs = "none" /\ queue = <<>> => \A m \in Mods : mod_instant(mods[m]) => m \in held
=============================================================================
