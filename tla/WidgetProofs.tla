---------------------------- MODULE WidgetProofs ----------------------------
(***************************************************************************)
(* The widget's properties for any set of modifiers and any length of the  *)
(* keyboard's queue.  The invariant follows each modifier through the      *)
(* events that wait in the queue, and says what the two steps of           *)
(* pe_enter_graphics_mode() have cancelled.                                *)
(***************************************************************************)
EXTENDS ShellWidget, TLAPS

(* Event i of queue q is one of modifier m. *)
Of(q, m, i) == i \in 1 .. Len(q) /\ q[i].key = m

(* The events of a modifier alternate, and the last one gives its state. *)
Alternates ==
    \A m \in Mods, i \in Nat : Of(queue, m, i) =>
        \/ /\ \A j \in Nat : Of(queue, m, j) => j <= i
           /\ (queue[i].type = "DOWN") <=> (m \in held)
        \/ \E j \in Nat : /\ Of(queue, m, j) /\ i < j /\ queue[j].type # queue[i].type
                          /\ \A k \in Nat : Of(queue, m, k) => k <= i \/ j <= k

(* The first event that waits changes the state that the widget shows; if
   there is none, the widget shows the state of the key. *)
Shown(m) ==
    /\ \A i \in Nat : Of(queue, m, i) /\ (\A j \in Nat : Of(queue, m, j) => i <= j) =>
            ((queue[i].type = "DOWN") <=> ~mod_instant(mods[m]))
    /\ (\A i \in Nat : ~Of(queue, m, i)) => (mod_instant(mods[m]) <=> (m \in held))

ModInv == Alternates /\ \A m \in Mods \ missed : Shown(m)

(* What pe_enter_graphics_mode() cancelled stays cancelled until it returns,
   and from then on while the screen is the program's. *)
Cancelled ==
    /\ step = "claim" => ~render_needed
    /\ step = "claimed" => ~render_needed /\ ~update
    /\ step \in {"claim", "claimed"} => runs # "none" /\ ~input
    /\ owner = "program" =>
         runs # "none" /\ ~input /\ step # "draw" /\ ~render_needed /\ ~update

(* The two halves of TypeOK. *)
ModTypes ==
    /\ mods \in [Mods -> States] /\ held \subseteq Mods /\ missed \subseteq Mods
    /\ queue \in Seq(Events) /\ Len(queue) <= MaxQueue
FlagTypes ==
    /\ runs \in {"none", "pyexec", "terminal"} /\ input \in BOOLEAN
    /\ input => runs # "none"
    /\ render_needed \in BOOLEAN /\ update \in BOOLEAN /\ scene_update \in BOOLEAN
    /\ pe_dupdate_scheduled \in BOOLEAN
    /\ step \in {"none", "draw", "claim", "claimed"} /\ ticking \in BOOLEAN
    /\ unshown \in BOOLEAN /\ owner \in {"shell", "claimed", "program"}
    /\ screen \in {"shell", "program"}

DrawInv == FlagTypes /\ Cancelled /\ GraphicsKept /\ OutputFlagged

IInv == ModTypes /\ ModInv /\ DrawInv


-----------------------------------------------------------------------------
(* The queue, as an event is added or taken. *)
LEMMA QueueFacts ==
    ASSUME NEW q \in Seq(Events)
    PROVE  /\ Len(q) \in Nat /\ DOMAIN q = 1 .. Len(q)
           /\ \A i \in 1 .. Len(q) : q[i] \in Events
           /\ \A e \in Events : /\ Append(q, e) \in Seq(Events)
                                /\ Len(Append(q, e)) = Len(q) + 1
                                /\ \A i \in 1 .. Len(q) : Append(q, e)[i] = q[i]
                                /\ Append(q, e)[Len(q) + 1] = e
           /\ q # <<>> => /\ Len(q) > 0 /\ Head(q) = q[1]
                          /\ Tail(q) \in Seq(Events) /\ Len(Tail(q)) = Len(q) - 1
                          /\ \A i \in 1 .. Len(q) - 1 : Tail(q)[i] = q[i + 1]
  OBVIOUS

LEMMA TypeParts == TypeOK <=> ModTypes /\ FlagTypes
  BY DEF TypeOK, ModTypes, FlagTypes

LEMMA InitOK == Init => IInv
<1> SUFFICES ASSUME Init PROVE IInv
  OBVIOUS
<1>1. ModTypes
  BY WidgetAssumption DEF Init, ModTypes, States
<1>2. FlagTypes
  BY Zenon DEF Init, FlagTypes
<1>3. ModInv
  <2>1. \A m, i : ~Of(queue, m, i)
    BY DEF Init, Of
  <2>2. \A m \in Mods : ~mod_instant(mods[m]) /\ m \notin held
    BY DEF Init, mod_instant
  <2> QED  BY <2>1, <2>2 DEF ModInv, Alternates, Shown
<1>4. Cancelled /\ GraphicsKept /\ OutputFlagged
  BY DEF Init, Cancelled, GraphicsKept, OutputFlagged
<1> QED  BY <1>1, <1>2, <1>3, <1>4 DEF IInv, DrawInv

-----------------------------------------------------------------------------
(* Drawing: every action but the keyboard's leaves modifiers alone. *)
ModStutter ==
    /\ mods' = mods /\ held' = held /\ queue' = queue /\ missed' = missed

LEMMA StutterKeepsMods == ModInv /\ ModStutter => ModInv'
  BY DEF ModInv, ModStutter, Alternates, Shown, Of

USE DEF modvars, drawing, history

Drawings == enter_graphics \/ dupdate \/ import_graphics \/ pe_schedule_dupdate
              \/ widget_shell_timer_handler \/ draw_begin \/ draw_end \/ pe_dupdate \/ print

LEMMA DrawingStutters == Drawings => ModStutter
  BY DEF Drawings, ModStutter, enter_graphics, dupdate, import_graphics, pe_schedule_dupdate,
         widget_shell_timer_handler, draw_begin, draw_end, pe_dupdate, print

LEMMA DrawTypes == FlagTypes /\ [Next]_vars => FlagTypes'
<1> SUFFICES ASSUME FlagTypes, [Next]_vars PROVE FlagTypes'
  OBVIOUS
<1> USE DEF FlagTypes
<1>1. CASE \E e \in Events : key(e)
  BY <1>1 DEF key
<1>2. CASE widget_shell_update_mod
  BY <1>2, ZenonT(40) DEF widget_shell_update_mod, Mods_become
<1>3. CASE edit_key
  BY <1>3, ZenonT(40) DEF edit_key, widget_shell_use_mods, Mods_become, Console_changes
<1>4. CASE exe_key
  BY <1>4, Zenon DEF exe_key, widget_shell_use_mods, Mods_become, Console_changes
<1>5. CASE print
  BY <1>5, Zenon DEF print, Vm_runs, Console_changes
<1>6. CASE getkey
  BY <1>6 DEF getkey
<1>7. CASE enter_graphics
  BY <1>7, ZenonT(40) DEF enter_graphics, pe_enter_graphics_mode
<1>8. CASE dupdate
  BY <1>8, Zenon DEF dupdate
<1>9. CASE import_graphics
  BY <1>9, Zenon DEF import_graphics, Claim
<1>10. CASE pe_schedule_dupdate
  BY <1>10, Zenon DEF pe_schedule_dupdate, Claim
<1>11. CASE program_end
  BY <1>11, Zenon DEF program_end, Vm_runs, Console_changes
<1>12. CASE widget_shell_timer_handler
  BY <1>12, Zenon DEF widget_shell_timer_handler
<1>13. CASE draw_begin
  BY <1>13, Zenon DEF draw_begin
<1>14. CASE draw_end
  BY <1>14, Zenon DEF draw_end
<1>15. CASE pe_dupdate
  BY <1>15, Zenon DEF pe_dupdate
<1>16. CASE UNCHANGED vars
  BY <1>16 DEF vars
<1> QED
  BY <1>1, <1>2, <1>3, <1>4, <1>5, <1>6, <1>7, <1>8, <1>9, <1>10, <1>11, <1>12, <1>13,
     <1>14, <1>15, <1>16 DEF Next

LEMMA DrawStep == DrawInv /\ [Next]_vars => DrawInv'
<1> SUFFICES ASSUME DrawInv, [Next]_vars PROVE (Cancelled /\ GraphicsKept /\ OutputFlagged)'
  BY DrawTypes DEF DrawInv
<1> USE DEF DrawInv, FlagTypes, Cancelled, GraphicsKept, OutputFlagged, Vm_runs, Looping, Takes
<1>1. CASE \E e \in Events : key(e)
  BY <1>1 DEF key
<1>2. CASE widget_shell_update_mod
  BY <1>2 DEF widget_shell_update_mod, Mods_become
<1>3. CASE edit_key
  BY <1>3 DEF edit_key, widget_shell_use_mods, Mods_become, Console_changes
<1>4. CASE exe_key
  BY <1>4 DEF exe_key, widget_shell_use_mods, Mods_become, Console_changes
<1>5. CASE print
  BY <1>5 DEF print, Console_changes
<1>6. CASE getkey
  BY <1>6 DEF getkey
<1>7. CASE enter_graphics
  BY <1>7 DEF enter_graphics, pe_enter_graphics_mode
<1>8. CASE dupdate
  BY <1>8 DEF dupdate
<1>9. CASE import_graphics
  BY <1>9 DEF import_graphics, Claim
<1>10. CASE pe_schedule_dupdate
  BY <1>10 DEF pe_schedule_dupdate, Claim
<1>11. CASE program_end
  BY <1>11 DEF program_end, Console_changes
<1>12. CASE widget_shell_timer_handler
  BY <1>12 DEF widget_shell_timer_handler
<1>13. CASE draw_begin
  BY <1>13 DEF draw_begin
<1>14. CASE draw_end
  BY <1>14 DEF draw_end
<1>15. CASE pe_dupdate
  BY <1>15 DEF pe_dupdate
<1>16. CASE UNCHANGED vars
  BY <1>16 DEF vars
<1> QED
  BY <1>1, <1>2, <1>3, <1>4, <1>5, <1>6, <1>7, <1>8, <1>9, <1>10, <1>11, <1>12, <1>13,
     <1>14, <1>15, <1>16 DEF Next

-----------------------------------------------------------------------------
(* Modifiers: an event is added. *)
LEMMA KeyMods ==
    ASSUME ModTypes, ModInv, NEW e \in Events, key(e)
    PROVE  ModTypes' /\ ModInv'
<1>0. PICK n \in Nat : n = Len(queue) + 1
  BY QueueFacts DEF ModTypes
<1>1. /\ Len(queue) \in Nat /\ Len(queue) < MaxQueue /\ MaxQueue \in Nat
      /\ queue' \in Seq(Events) /\ Len(queue') = n
      /\ \A i \in 1 .. Len(queue) : queue'[i] = queue[i] /\ queue[i] \in Events
      /\ queue'[n] = e
  BY <1>0, QueueFacts, WidgetAssumption DEF ModTypes, key
<1>2. /\ mods' = mods /\ missed' = missed
      /\ \A m \in Mods : m # e.key => (m \in held' <=> m \in held)
      /\ e.key \in Mods => /\ (e.type = "DOWN") <=> (e.key \notin held)
                           /\ (e.type = "DOWN") <=> (e.key \in held')
  BY DEF key, Events
<1>3. ModTypes'
  BY <1>1, <1>2 DEF ModTypes, key, Events
<1>4. \A m \in Mods, i \in Nat : Of(queue', m, i) <=> Of(queue, m, i) \/ (i = n /\ e.key = m)
  BY <1>0, <1>1 DEF Of
<1>5. Alternates'
  <2> SUFFICES ASSUME NEW m \in Mods, NEW i \in Nat, Of(queue', m, i)
               PROVE  \/ /\ \A j \in Nat : Of(queue', m, j) => j <= i
                         /\ (queue'[i].type = "DOWN") <=> (m \in held')
                      \/ \E j \in Nat : /\ Of(queue', m, j) /\ i < j /\ queue'[j].type # queue'[i].type
                                        /\ \A k \in Nat : Of(queue', m, k) => k <= i \/ j <= k
    BY DEF Alternates
  <2>1. CASE i = n
    BY <2>1, <1>0, <1>1, <1>2, <1>4 DEF Of
  <2>2. CASE i # n /\ m # e.key
    <3>1. /\ \A j \in Nat : Of(queue', m, j) <=> Of(queue, m, j)
          /\ \A j \in Nat : Of(queue, m, j) => queue'[j] = queue[j]
          /\ m \in held' <=> m \in held
      BY <2>2, <1>0, <1>1, <1>2, <1>4 DEF Of
    <3> QED  BY <3>1 DEF ModInv, Alternates
  <2>3. CASE i # n /\ m = e.key
    <3>1. /\ \A j \in Nat : Of(queue', m, j) <=> Of(queue, m, j) \/ j = n
          /\ \A j \in Nat : Of(queue, m, j) => queue'[j] = queue[j] /\ j < n
          /\ Of(queue, m, i) /\ i < n
      BY <2>3, <1>0, <1>1, <1>4 DEF Of
    <3>2. CASE (\A j \in Nat : Of(queue, m, j) => j <= i) /\ ((queue[i].type = "DOWN") <=> (m \in held))
      <4>1. n \in Nat /\ Of(queue', m, n) /\ i < n /\ \A k \in Nat : Of(queue', m, k) => k <= i \/ n <= k
        BY <3>1, <3>2, <1>1
      <4>2. queue'[n].type # queue'[i].type
        BY <3>1, <3>2, <2>3, <1>1, <1>2
      <4> QED  BY <4>1, <4>2
    <3>3. CASE \E j \in Nat : /\ Of(queue, m, j) /\ i < j /\ queue[j].type # queue[i].type
                              /\ \A k \in Nat : Of(queue, m, k) => k <= i \/ j <= k
      BY <3>1, <3>3, <1>1
    <3> QED  BY <3>1, <3>2, <3>3 DEF ModInv, Alternates
  <2> QED  BY <2>1, <2>2, <2>3
<1>6. ASSUME NEW m \in Mods \ missed PROVE Shown(m)'
  <2>1. Shown(m)
    BY <1>6 DEF ModInv
  <2>2. CASE m # e.key
    <3>1. /\ \A j \in Nat : Of(queue', m, j) <=> Of(queue, m, j)
          /\ \A j \in Nat : Of(queue, m, j) => queue'[j] = queue[j]
          /\ m \in held' <=> m \in held
      BY <2>2, <1>0, <1>1, <1>2, <1>4 DEF Of
    <3> QED  BY <2>1, <3>1, <1>2 DEF Shown
  <2>3. CASE m = e.key
    <3>1. /\ \A j \in Nat : Of(queue', m, j) <=> Of(queue, m, j) \/ j = n
          /\ \A j \in Nat : Of(queue, m, j) => queue'[j] = queue[j] /\ j < n
          /\ n \in Nat
      BY <2>3, <1>0, <1>1, <1>4 DEF Of
    <3>2. ~ \A i \in Nat : ~Of(queue', m, i)
      BY <3>1
    <3>3. ASSUME NEW i \in Nat, Of(queue', m, i), \A j \in Nat : Of(queue', m, j) => i <= j
          PROVE  (queue'[i].type = "DOWN") <=> ~mod_instant(mods'[m])
      <4>1. CASE i = n
        <5>1. \A j \in Nat : ~Of(queue, m, j)
          BY <3>1, <3>3, <4>1
        <5> QED  BY <5>1, <4>1, <2>1, <2>3, <1>1, <1>2 DEF Shown
      <4>2. CASE i # n
        BY <4>2, <3>1, <3>3, <2>1, <1>2 DEF Shown
      <4> QED  BY <4>1, <4>2
    <3> QED  BY <3>2, <3>3 DEF Shown
  <2> QED  BY <2>2, <2>3
<1> QED  BY <1>2, <1>3, <1>5, <1>6 DEF ModInv

(* The first event is taken, by the widget or by a program. *)
LEMMA Pop ==
    ASSUME ModTypes, ModInv, queue # <<>>, queue' = Tail(queue), held' = held
    PROVE  /\ queue' \in Seq(Events) /\ Len(queue') <= MaxQueue
           /\ queue[1] \in Events /\ Head(queue) = queue[1]
           /\ \A m \in Mods : Of(queue, m, 1) <=> queue[1].key = m
           /\ \A m \in Mods, i \in Nat : /\ Of(queue', m, i) <=> i # 0 /\ Of(queue, m, i + 1)
                                         /\ Of(queue', m, i) => queue'[i] = queue[i + 1]
           /\ Alternates'
<1>1. /\ Len(queue) \in Nat /\ Len(queue) > 0 /\ queue \in Seq(Events) /\ MaxQueue \in Nat
      /\ queue' \in Seq(Events) /\ Len(queue') = Len(queue) - 1
      /\ Head(queue) = queue[1]
      /\ \A i \in 1 .. Len(queue) : queue[i] \in Events
      /\ \A i \in 1 .. Len(queue) - 1 : queue'[i] = queue[i + 1]
  BY QueueFacts, WidgetAssumption DEF ModTypes
<1>2. \A m \in Mods, i \in Nat : /\ Of(queue', m, i) <=> i # 0 /\ Of(queue, m, i + 1)
                                 /\ Of(queue', m, i) => queue'[i] = queue[i + 1]
  BY <1>1 DEF Of
<1>3. Alternates'
  <2> SUFFICES ASSUME NEW m \in Mods, NEW i \in Nat, Of(queue', m, i)
               PROVE  \/ /\ \A j \in Nat : Of(queue', m, j) => j <= i
                         /\ (queue'[i].type = "DOWN") <=> (m \in held')
                      \/ \E j \in Nat : /\ Of(queue', m, j) /\ i < j /\ queue'[j].type # queue'[i].type
                                        /\ \A k \in Nat : Of(queue', m, k) => k <= i \/ j <= k
    BY DEF Alternates
  <2>0. PICK p \in Nat : p = i + 1
    OBVIOUS
  <2>1. Of(queue, m, p) /\ queue'[i] = queue[p]
    BY <2>0, <1>1 DEF Of
  <2>2. CASE (\A j \in Nat : Of(queue, m, j) => j <= p) /\ ((queue[p].type = "DOWN") <=> (m \in held))
    BY <2>0, <2>1, <2>2, <1>1 DEF Of
  <2>3. CASE \E j \in Nat : /\ Of(queue, m, j) /\ p < j /\ queue[j].type # queue[p].type
                            /\ \A k \in Nat : Of(queue, m, k) => k <= p \/ j <= k
    <3>1. PICK j \in Nat : /\ Of(queue, m, j) /\ p < j /\ queue[j].type # queue[p].type
                           /\ \A k \in Nat : Of(queue, m, k) => k <= p \/ j <= k
      BY <2>3
    <3>2. PICK r \in Nat : r = j - 1
      BY <3>1
    <3>3. Of(queue', m, r) /\ i < r /\ queue'[r] = queue[j]
      BY <3>1, <3>2, <2>0, <1>1 DEF Of
    <3>4. \A k \in Nat : Of(queue', m, k) => k <= i \/ r <= k
      BY <3>1, <3>2, <2>0, <1>1 DEF Of
    <3> QED  BY <3>1, <3>3, <3>4, <2>1
  <2> QED  BY <2>1, <2>2, <2>3 DEF ModInv, Alternates
<1>4. \A m \in Mods : Of(queue, m, 1) <=> queue[1].key = m
  BY <1>1 DEF Of
<1>5. Len(queue') <= MaxQueue /\ queue[1] \in Events
  BY <1>1 DEF ModTypes
<1> QED  BY <1>1, <1>2, <1>3, <1>4, <1>5, Zenon

(* It was an event of another key. *)
LEMMA PopOther ==
    ASSUME ModTypes, ModInv, queue # <<>>, queue' = Tail(queue), held' = held,
           NEW m \in Mods \ missed, m # Head(queue).key,
           mod_instant(mods'[m]) <=> mod_instant(mods[m])
    PROVE  Shown(m)'
<1>1. Shown(m)
  BY DEF ModInv
<1>2. /\ ~Of(queue, m, 1) /\ ~Of(queue, m, 0)
      /\ \A i \in Nat : Of(queue', m, i) <=> i # 0 /\ Of(queue, m, i + 1)
      /\ \A i \in Nat : Of(queue', m, i) => queue'[i] = queue[i + 1]
  BY Pop DEF Of
<1>3. ASSUME NEW i \in Nat, Of(queue', m, i), \A j \in Nat : Of(queue', m, j) => i <= j
      PROVE  (queue'[i].type = "DOWN") <=> ~mod_instant(mods'[m])
  <2>1. i + 1 \in Nat /\ Of(queue, m, i + 1) /\ queue'[i] = queue[i + 1]
    BY <1>2, <1>3 DEF Of
  <2>2. \A j \in Nat : Of(queue, m, j) => i + 1 <= j
    <3> SUFFICES ASSUME NEW j \in Nat, Of(queue, m, j) PROVE i + 1 <= j
      OBVIOUS
    <3>1. j # 0 /\ j # 1 /\ j - 1 \in Nat
      BY <1>2
    <3>2. Of(queue', m, j - 1)
      BY <3>1, <1>2
    <3> QED  BY <3>1, <3>2, <1>3
  <2> QED  BY <2>1, <2>2, <1>1 DEF Shown
<1>4. ASSUME \A i \in Nat : ~Of(queue', m, i)
      PROVE  mod_instant(mods'[m]) <=> (m \in held')
  <2>1. \A i \in Nat : ~Of(queue, m, i)
    <3> SUFFICES ASSUME NEW i \in Nat, Of(queue, m, i) PROVE FALSE
      OBVIOUS
    <3>1. i # 0 /\ i # 1 /\ i - 1 \in Nat
      BY <1>2
    <3>2. Of(queue', m, i - 1)
      BY <3>1, <1>2
    <3> QED  BY <3>2, <3>1, <1>4
  <2> QED  BY <2>1, <1>1 DEF Shown
<1> QED  BY <1>3, <1>4 DEF Shown

(* The state shown follows the event, and other keys do not change it. *)
LEMMA ModFacts ==
    ASSUME NEW s \in States
    PROVE  /\ mod_down(s) \in States /\ mod_up(s) \in States /\ mod_down_other(s) \in States
           /\ mod_instant(mod_down(s)) /\ ~mod_instant(mod_up(s))
           /\ mod_instant(mod_down_other(s)) <=> mod_instant(s)
  BY DEF States, mod_down, mod_up, mod_down_other, mod_instant

LEMMA UpdateMods == ModTypes /\ ModInv /\ widget_shell_update_mod => ModTypes' /\ ModInv'
<1> SUFFICES ASSUME ModTypes, ModInv, widget_shell_update_mod PROVE ModTypes' /\ ModInv'
  OBVIOUS
<1>0. PICK e : e = Head(queue)
  OBVIOUS
<1>1. /\ queue # <<>> /\ queue' = Tail(queue) /\ held' = held /\ e \in Events /\ e.key \in Mods
      /\ mods' = [mods EXCEPT ![e.key] = IF e.type = "UP" THEN mod_up(@) ELSE mod_down(@)]
      /\ missed' = IF e.type = "UP" THEN missed \ {e.key} ELSE missed
  BY <1>0, Pop DEF widget_shell_update_mod, Takes, Mods_become
<1>2. /\ queue' \in Seq(Events) /\ Len(queue') <= MaxQueue /\ Alternates'
      /\ e = queue[1] /\ Of(queue, e.key, 1)
      /\ \A i \in Nat : /\ Of(queue', e.key, i) <=> i # 0 /\ Of(queue, e.key, i + 1)
                        /\ Of(queue', e.key, i) => queue'[i] = queue[i + 1]
  BY <1>0, <1>1, Pop
<1>3. e.type \in {"DOWN", "UP"} /\ mods[e.key] \in States
  BY <1>1, WidgetAssumption DEF Events, ModTypes
<1>4. mod_instant(mods'[e.key]) <=> (e.type = "DOWN")
  BY <1>1, <1>3, ModFacts DEF ModTypes
<1>5. ModTypes'
  BY <1>1, <1>2, <1>3, ModFacts DEF ModTypes
<1>6. ASSUME NEW m \in Mods \ missed', m # e.key PROVE Shown(m)'
  BY <1>0, <1>1, <1>6, PopOther DEF ModTypes
<1>7. Shown(e.key)'
  <2>1. \/ /\ \A j \in Nat : Of(queue, e.key, j) => j <= 1
           /\ (e.type = "DOWN") <=> (e.key \in held)
        \/ \E j \in Nat : /\ Of(queue, e.key, j) /\ 1 < j /\ queue[j].type # e.type
                          /\ \A k \in Nat : Of(queue, e.key, k) => k <= 1 \/ j <= k
    BY <1>1, <1>2 DEF ModInv, Alternates
  <2>2. CASE \A j \in Nat : Of(queue, e.key, j) => j <= 1
    <3>1. \A i \in Nat : ~Of(queue', e.key, i)
      BY <2>2, <1>2
    <3>2. ~ \E j \in Nat : Of(queue, e.key, j) /\ 1 < j
      BY <2>2
    <3> QED  BY <3>1, <3>2, <2>1, <1>1, <1>4 DEF Shown
  <2>3. CASE \E j \in Nat : /\ Of(queue, e.key, j) /\ 1 < j /\ queue[j].type # e.type
                            /\ \A k \in Nat : Of(queue, e.key, k) => k <= 1 \/ j <= k
    <3>1. PICK j \in Nat : /\ Of(queue, e.key, j) /\ 1 < j /\ queue[j].type # e.type
                           /\ \A k \in Nat : Of(queue, e.key, k) => k <= 1 \/ j <= k
      BY <2>3
    <3>2. PICK r \in Nat : r + 1 = j /\ r # 0
      <4>1. j - 1 \in Nat /\ (j - 1) + 1 = j /\ j - 1 # 0
        BY <3>1
      <4> QED  BY <4>1
    <3>3. Of(queue', e.key, r) /\ queue'[r] = queue[j]
      <4>1. r # 0 /\ Of(queue, e.key, r + 1)
        BY <3>1, <3>2, Zenon
      <4> QED  BY <4>1, <3>2, <1>2, Zenon
    <3>4. \A i \in Nat : Of(queue', e.key, i) => r <= i
      <4> SUFFICES ASSUME NEW i \in Nat, Of(queue', e.key, i) PROVE r <= i
        OBVIOUS
      <4>1. PICK k \in Nat : k = i + 1
        OBVIOUS
      <4>2. Of(queue, e.key, k) /\ 1 < k
        BY <4>1, <1>2
      <4> QED  BY <4>1, <4>2, <3>1, <3>2
    <3>5. queue[j].type \in {"DOWN", "UP"}
      <4>1. queue[j] \in Events /\ queue[j].key \in Mods
        BY <3>1, <1>1, QueueFacts DEF Of, ModTypes
      <4> QED  BY <4>1, WidgetAssumption DEF Events
    <3>6. (queue'[r].type = "DOWN") <=> ~mod_instant(mods'[e.key])
      BY <3>1, <3>3, <3>5, <1>3, <1>4
    <3>7. \A i \in Nat : Of(queue', e.key, i) /\ (\A k \in Nat : Of(queue', e.key, k) => i <= k) => i = r
      BY <3>3, <3>4
    <3> QED  BY <3>3, <3>6, <3>7 DEF Shown
  <2> QED  BY <2>1, <2>2, <2>3
<1> QED  BY <1>2, <1>5, <1>6, <1>7 DEF ModInv

LEMMA OtherKeyMods == ModTypes /\ ModInv /\ (edit_key \/ exe_key) => ModTypes' /\ ModInv'
<1> SUFFICES ASSUME ModTypes, ModInv, edit_key \/ exe_key PROVE ModTypes' /\ ModInv'
  OBVIOUS
<1>1. /\ queue # <<>> /\ queue' = Tail(queue) /\ held' = held /\ missed' = missed
      /\ Head(queue).key \notin Mods
      /\ mods' = [m \in Mods |-> mod_down_other(mods[m])]
  BY WidgetAssumption DEF edit_key, exe_key, Takes, widget_shell_use_mods, Mods_become
<1>2. ModTypes'
  BY <1>1, Pop, ModFacts DEF ModTypes
<1>3. \A m \in Mods \ missed : Shown(m)'
  BY <1>1, PopOther, ModFacts DEF ModTypes
<1> QED  BY <1>1, <1>2, <1>3, Pop DEF ModInv

LEMMA GetkeyMods == ModTypes /\ ModInv /\ getkey => ModTypes' /\ ModInv'
<1> SUFFICES ASSUME ModTypes, ModInv, getkey PROVE ModTypes' /\ ModInv'
  OBVIOUS
<1>1. /\ queue # <<>> /\ queue' = Tail(queue) /\ held' = held /\ mods' = mods
      /\ missed' = missed \cup ({Head(queue).key} \cap Mods)
  BY DEF getkey
<1>2. ModTypes'
  BY <1>1, Pop DEF ModTypes
<1>3. \A m \in Mods \ missed' : Shown(m)'
  BY <1>1, PopOther
<1> QED  BY <1>1, <1>2, <1>3, Pop DEF ModInv

(* Clearing the queue: a modifier that had no event is still in step. *)
LEMMA EndMods == ModTypes /\ ModInv /\ program_end => ModTypes' /\ ModInv'
<1> SUFFICES ASSUME ModTypes, ModInv, program_end PROVE ModTypes' /\ ModInv'
  OBVIOUS
<1>1. mods' = mods /\ held' = held
  BY DEF program_end
<1>2. CASE queue' = queue /\ missed' = missed
  BY <1>1, <1>2, StutterKeepsMods DEF ModTypes, ModStutter
<1>3. CASE queue' = <<>> /\ missed' = missed \cup ({queue[n].key : n \in DOMAIN queue} \cap Mods)
  <2>1. \A m, i : ~Of(queue', m, i)
    BY <1>3 DEF Of
  <2>2. ASSUME NEW m \in Mods \ missed' PROVE Shown(m)'
    <3>1. m \notin missed /\ \A i \in Nat : ~Of(queue, m, i)
      BY <1>3, <2>2, QueueFacts DEF Of, ModTypes
    <3> QED  BY <3>1, <2>1, <1>1 DEF Shown, ModInv
  <2>3. ModTypes'
    BY <1>1, <1>3, WidgetAssumption DEF ModTypes
  <2> QED  BY <2>1, <2>2, <2>3 DEF ModInv, Alternates
<1> QED  BY <1>2, <1>3 DEF program_end

LEMMA StepOK == IInv /\ [Next]_vars => IInv'
<1> SUFFICES ASSUME IInv, [Next]_vars PROVE ModTypes' /\ ModInv'
  BY DrawStep DEF IInv
<1>1. CASE \E e \in Events : key(e)
  BY <1>1, KeyMods DEF IInv
<1>2. CASE Drawings \/ UNCHANGED vars
  <2>1. ModStutter
    BY <1>2, DrawingStutters DEF vars, ModStutter
  <2> QED  BY <2>1, StutterKeepsMods DEF IInv, ModTypes, ModStutter
<1>3. CASE widget_shell_update_mod \/ edit_key \/ exe_key \/ getkey \/ program_end
  BY <1>3, UpdateMods, OtherKeyMods, GetkeyMods, EndMods DEF IInv
<1> QED  BY <1>1, <1>2, <1>3 DEF Next, Drawings

LEMMA Invariance == Spec => []IInv
<1> QED  BY InitOK, StepOK, PTL DEF Spec

-----------------------------------------------------------------------------
(* The types of the widget's state. *)
THEOREM TypeCorrect == Spec => []TypeOK
<1>1. IInv => TypeOK
  BY TypeParts DEF IInv, DrawInv
<1> QED  BY <1>1, Invariance, PTL

(* Whatever order keys, programs and clearings of the queue come in, the
   modifiers that the widget shows as pressed are those that are, save the
   ones whose events it was not given (mod_down() to mod_down_other()). *)
THEOREM Modifiers == Spec => []ModSynchronised
<1>1. IInv => ModSynchronised
  <2> SUFFICES ASSUME IInv, queue = <<>>, NEW m \in Mods \ missed
               PROVE  mod_instant(mods[m]) = (m \in held)
    BY DEF ModSynchronised
  <2>1. \A i : ~Of(queue, m, i)
    BY DEF Of
  <2>2. mod_instant(mods[m]) <=> (m \in held)
    BY <2>1 DEF IInv, ModInv, Shown
  <2> QED  BY <2>2 DEF mod_instant
<1> QED  BY <1>1, Invariance, PTL

(* What a program drew stays on the screen until the shell is used again:
   pe_enter_graphics_mode() cancels in an order that the timer cannot undo. *)
THEOREM Graphics == Spec => []GraphicsKept
<1>1. IInv => GraphicsKept
  BY DEF IInv, DrawInv
<1> QED  BY <1>1, Invariance, PTL

(* Output that is not on the screen is flagged for the timer or the scene. *)
THEOREM Output == Spec => []OutputFlagged
<1>1. IInv => OutputFlagged
  BY DEF IInv, DrawInv
<1> QED  BY <1>1, Invariance, PTL
=============================================================================
