----------------------------- MODULE ShellProofs ----------------------------
(***************************************************************************)
(* The properties of Shell for every set of lines, every size of the       *)
(* history and every length of the keyboard's queue.  The invariant says   *)
(* what AC/ON and the line under edition are at each depth of the stack.   *)
(***************************************************************************)
EXTENDS Shell, SequenceTheorems, TLAPS

(* The state of AC/ON; c holds it while input() or a picker over input() runs. *)
Control ==
    /\ stack \in Stacks
    /\ exec \in {"none", "compile", "run", "returned", "raised", "handle", "report", "done"}
    /\ exec = "none" <=> Here \notin Pyexec
    /\ InterruptScope
    /\ pending => exec # "compile"
    /\ Top \notin Programs /\ Here \in Programs =>
         /\ Here \in Pyexec => exec = "run" /\ c = TRUE
         /\ Here \notin Pyexec => c = FALSE

(* Only code that the virtual machine runs can be waiting in getkey(). *)
Waits == in_getkey \in BOOLEAN /\ (in_getkey => In_code)

Flags ==
    mp_interrupt_char \in BOOLEAN /\ c \in BOOLEAN /\ pending \in BOOLEAN
      /\ pe_terminal_mode \in BOOLEAN /\ spoiled \in BOOLEAN

(* Keys and timers of a program are gone once it is. *)
Events   == [key : Keys, at : Frames \cup {"loop"}]
Clean(q) == \A n \in 1 .. Len(q) : q[n].at \notin Pyexec
Left_behind ==
    /\ keys \in Seq(Events) /\ Len(keys) <= MaxQueue
    /\ timer_used \in Programs \cup {"none"}
    /\ exec = "none" => timer_used \notin Pyexec /\ Clean(keys)

(* The line that an action or a picker covers is the one under edition. *)
Texts == Lines \cup {"mixed"}
Mode  == IF pe_terminal_mode THEN "terminal" ELSE "python"
Shown == [prompt : {"none", "terminal", "python", "input"}, text : Texts, foreign : BOOLEAN]
Line_kept ==
    /\ line \in Shown
    /\ (Here = "repl" => pe_terminal_mode = FALSE) /\ (Here = "terminal" => pe_terminal_mode = TRUE)
    /\ Top \notin {"repl", "terminal"} /\ ~spoiled =>
         line.foreign = FALSE /\ line.prompt = IF Top = "input" \/ (Top = "picker" /\ Here \in Programs)
                                               THEN "input" ELSE Mode

Sound(h, e) ==
    /\ h \in Seq(Texts) /\ Len(h) <= HistorySize
    /\ \A n \in 1 .. Len(h) : h[n] # Blank
    /\ \A n \in 1 .. Len(h) - 1 : h[n] # h[n + 1]
    /\ e # Blank => h # <<>> /\ Last(h) = e
Recalled ==
    /\ Sound(history, entered) /\ entered \in Texts
    /\ history_pos \in 0 .. Len(history)

IInv == Control /\ Waits /\ Flags /\ Left_behind /\ Line_kept /\ Recalled

USE DEF hist, intr, host, Pyexec, Programs

-----------------------------------------------------------------------------
(* The stack *)

(* Tuples of the lengths that the stack has. *)
LEMMA Tuples ==
    ASSUME NEW f, NEW g, NEW h
    PROVE  /\ Append(<<f>>, g) = <<f, g>> /\ Append(<<f, g>>, h) = <<f, g, h>>
           /\ Front(<<f>>) = <<>> /\ Front(<<f, g>>) = <<f>> /\ Front(<<f, g, h>>) = <<f, g>>
<1> DEFINE S == {f, g, h}
<1>0. /\ <<f>> \in Seq(S) /\ Len(<<f>>) = 1 /\ <<f>>[1] = f
      /\ <<f, g>> \in Seq(S) /\ Len(<<f, g>>) = 2 /\ <<f, g>>[1] = f /\ <<f, g>>[2] = g
      /\ <<f, g, h>> \in Seq(S) /\ Len(<<f, g, h>>) = 3
      /\ <<f, g, h>>[1] = f /\ <<f, g, h>>[2] = g /\ <<f, g, h>>[3] = h
  OBVIOUS
<1>1. PICK s \in Seq(S) : s = <<f>> /\ Len(s) = 1 /\ s[1] = f
  BY <1>0
<1>2. PICK t \in Seq(S) : t = <<f, g>> /\ Len(t) = 2 /\ t[1] = f /\ t[2] = g
  BY <1>0
<1>3. PICK u \in Seq(S) : u = <<f, g, h>> /\ Len(u) = 3 /\ u[1] = f /\ u[2] = g /\ u[3] = h
  BY <1>0
<1>4. g \in S /\ h \in S /\ \A n \in Nat : (n \in 1 .. 1 => n = 1) /\ (n \in 1 .. 2 => n = 1 \/ n = 2)
                              /\ (n \in 1 .. 3 => n = 1 \/ n = 2 \/ n = 3)
  OBVIOUS
<1> HIDE DEF S
<1>5. Append(s, g) = t
  <2>1. /\ Append(s, g) \in Seq(S) /\ Len(Append(s, g)) = 2
        /\ Append(s, g)[1] = f /\ Append(s, g)[2] = g
    BY <1>1, <1>4
  <2>2. \A n \in 1 .. 2 : Append(s, g)[n] = t[n]
    BY <2>1, <1>2, <1>4
  <2> QED  BY <2>1, <2>2, <1>2, SeqEqual
<1>6. Append(t, h) = u
  <2>1. /\ Append(t, h) \in Seq(S) /\ Len(Append(t, h)) = 3
        /\ Append(t, h)[1] = f /\ Append(t, h)[2] = g /\ Append(t, h)[3] = h
    BY <1>2, <1>4
  <2>2. \A n \in 1 .. 3 : Append(t, h)[n] = u[n]
    BY <2>1, <1>3, <1>4
  <2> QED  BY <2>1, <2>2, <1>3, SeqEqual
<1>7. Front(s) = <<>>
  BY <1>1 DEF Front
<1>8. Front(t) = s
  <2>1. /\ SubSeq(t, 1, 1) \in Seq(S) /\ Len(SubSeq(t, 1, 1)) = 1 /\ SubSeq(t, 1, 1)[1] = f
    BY <1>2
  <2>2. \A n \in 1 .. 1 : SubSeq(t, 1, 1)[n] = s[n]
    BY <2>1, <1>1, <1>4
  <2>3. SubSeq(t, 1, 1) = s
    BY <2>1, <2>2, <1>1, SeqEqual
  <2>4. Front(t) = SubSeq(t, 1, 1)
    BY <1>2 DEF Front
  <2> QED  BY <2>3, <2>4
<1>9. Front(u) = t
  <2>1. /\ SubSeq(u, 1, 2) \in Seq(S) /\ Len(SubSeq(u, 1, 2)) = 2
        /\ SubSeq(u, 1, 2)[1] = f /\ SubSeq(u, 1, 2)[2] = g
    BY <1>3
  <2>2. \A n \in 1 .. 2 : SubSeq(u, 1, 2)[n] = t[n]
    BY <2>1, <1>2, <1>4
  <2>3. SubSeq(u, 1, 2) = t
    BY <2>1, <2>2, <1>2, SeqEqual
  <2>4. Front(u) = SubSeq(u, 1, 2)
    BY <1>3 DEF Front
  <2> QED  BY <2>3, <2>4
<1> QED  BY <1>1, <1>2, <1>3, <1>5, <1>6, <1>7, <1>8, <1>9

LEMMA TupleEnds ==
    ASSUME NEW f, NEW g, NEW h
    PROVE  /\ Head(<<f>>) = f /\ Head(<<f, g>>) = f /\ Head(<<f, g, h>>) = f
           /\ Last(<<f>>) = f /\ Last(<<f, g>>) = g /\ Last(<<f, g, h>>) = h
           /\ <<f>> # <<>> /\ <<f, g>> # <<>> /\ <<f, g, h>> # <<>>
  BY DEF Last

LEMMA StackShape ==
    ASSUME stack \in Stacks
    PROVE  /\ stack = <<>> <=> Top = "loop"
           /\ stack = <<>> <=> Here = "loop"
           /\ Here \in Programs \cup {"picker", "loop"}
           /\ Top \in Programs \cup {"picker", "input", "loop"}
           /\ Top \in Programs => Here = Top /\ stack = <<Top>>
           /\ Top = "input" => Here \in Programs /\ stack = <<Here, "input">>
           /\ Top = "picker" => \/ Here = "picker" /\ stack = <<"picker">>
                                \/ Here \in Programs /\ stack = <<Here, "input", "picker">>
<1>1. CASE stack = <<>>
  BY <1>1 DEF Top, Here
<1>2. CASE \E f \in Programs \cup {"picker"} : stack = <<f>>
  BY <1>2 DEF Top, Here, Last
<1>3. CASE \E f \in Programs : stack = <<f, "input">>
  BY <1>3 DEF Top, Here, Last
<1>4. CASE \E f \in Programs : stack = <<f, "input", "picker">>
  BY <1>4 DEF Top, Here, Last
<1> QED  BY <1>1, <1>2, <1>3, <1>4 DEF Stacks

LEMMA StackOf ==
    /\ \A f \in Programs \cup {"picker"} : <<f>> \in Stacks
    /\ \A f \in Programs : <<f, "input">> \in Stacks /\ <<f, "input", "picker">> \in Stacks
    /\ <<>> \in Stacks
  BY DEF Stacks

LEMMA NewStack ==
    ASSUME NEW f, NEW g, NEW h
    PROVE  /\ stack' = <<f>> => Top' = f /\ Here' = f
           /\ stack' = <<f, g>> => Top' = g /\ Here' = f
           /\ stack' = <<f, g, h>> => Top' = h /\ Here' = f
<1>1. ASSUME stack' = <<f>> PROVE Top' = f /\ Here' = f
  BY <1>1, TupleEnds DEF Top, Here
<1>2. ASSUME stack' = <<f, g>> PROVE Top' = g /\ Here' = f
  BY <1>2, TupleEnds DEF Top, Here
<1>3. ASSUME stack' = <<f, g, h>> PROVE Top' = h /\ Here' = f
  <2>1. PICK s : s = <<f, g, h>>
    OBVIOUS
  <2>2. s # <<>> /\ Last(s) = h /\ Head(s) = f
    BY <2>1 DEF Last
  <2> QED  BY <1>3, <2>1, <2>2 DEF Top, Here
<1> QED  BY <1>1, <1>2, <1>3

LEMMA Empty == stack \in Stacks /\ stack' = <<>> => stack' \in Stacks /\ Top' = "loop" /\ Here' = "loop"
  BY StackOf DEF Top, Here

LEMMA Same == stack' = stack => Top' = Top /\ Here' = Here
  BY DEF Top, Here

LEMMA Push ==
    ASSUME stack \in Stacks, NEW f, Call(f),
           \/ stack = <<>> /\ f \in Programs \cup {"picker"}
           \/ Top \in Programs /\ f = "input"
           \/ Top = "input" /\ f = "picker"
    PROVE  stack' \in Stacks /\ Top' = f /\ Here' = IF stack = <<>> THEN f ELSE Here
<1>1. CASE stack = <<>> /\ f \in Programs \cup {"picker"}
  <2>1. stack' = <<f>>
    BY <1>1 DEF Call
  <2> QED  BY <2>1, <1>1, StackOf, NewStack
<1>2. CASE Top \in Programs /\ f = "input"
  <2>1. stack' = <<Here, "input">> /\ Here \in Programs
    BY <1>2, StackShape, Tuples DEF Call
  <2> QED  BY <2>1, <1>2, StackShape, StackOf, NewStack
<1>3. CASE Top = "input" /\ f = "picker"
  <2>1. stack' = <<Here, "input", "picker">> /\ Here \in Programs
    BY <1>3, StackShape, Tuples DEF Call
  <2> QED  BY <2>1, <1>3, StackShape, StackOf, NewStack
<1> QED  BY <1>1, <1>2, <1>3

LEMMA Pop ==
    ASSUME stack \in Stacks, stack' = Front(stack), Top \in {"input", "picker"}
    PROVE  /\ stack' \in Stacks
           /\ Top = "input" => Here \in Programs /\ Top' = Here /\ Here' = Here
           /\ Top = "picker" => \/ Here = "picker" /\ Top' = "loop" /\ Here' = "loop"
                                \/ Here \in Programs /\ Top' = "input" /\ Here' = Here
<1>1. CASE Top = "input"
  <2>1. stack' = <<Here>> /\ Here \in Programs
    BY <1>1, StackShape, Tuples
  <2> QED  BY <2>1, <1>1, StackOf, NewStack
<1>2. CASE Top = "picker" /\ Here = "picker"
  <2>1. stack' = <<>>
    BY <1>2, StackShape, Tuples
  <2> QED  BY <2>1, <1>2, Empty
<1>3. CASE Top = "picker" /\ Here \in Programs
  <2>1. stack' = <<Here, "input">>
    BY <1>3, StackShape, Tuples
  <2> QED  BY <2>1, <1>3, StackOf, NewStack
<1> QED  BY <1>1, <1>2, <1>3, StackShape

-----------------------------------------------------------------------------
(* The queue, the line and the history *)

LEMMA QueueEmpty == <<>> \in Seq(Events) /\ Len(<<>>) <= MaxQueue /\ Clean(<<>>)
<1>1. <<>> \in Seq(Events) /\ Len(<<>>) = 0
  OBVIOUS
<1>2. 0 <= MaxQueue /\ 1 .. 0 = {}
  BY ShellAssumption
<1> QED  BY <1>1, <1>2 DEF Clean

LEMMA QueueAppend ==
    ASSUME NEW q \in Seq(Events), NEW e \in Events
    PROVE  /\ Append(q, e) \in Seq(Events) /\ Len(Append(q, e)) = Len(q) + 1
           /\ Clean(q) /\ e.at \notin Pyexec => Clean(Append(q, e))
<1>1. Append(q, e) \in Seq(Events) /\ Len(Append(q, e)) = Len(q) + 1
  OBVIOUS
<1>2. \A n \in 1 .. Len(q) + 1 : Append(q, e)[n] = IF n <= Len(q) THEN q[n] ELSE e
  OBVIOUS
<1> QED  BY <1>1, <1>2 DEF Clean

LEMMA QueueTail ==
    ASSUME NEW q \in Seq(Events), q # <<>>
    PROVE  /\ Tail(q) \in Seq(Events) /\ Len(Tail(q)) \in Nat /\ Len(q) \in Nat
           /\ Len(Tail(q)) <= Len(q)
           /\ Clean(q) => Clean(Tail(q))
<1>1. Tail(q) \in Seq(Events) /\ Len(Tail(q)) = Len(q) - 1 /\ Len(q) \in Nat \ {0}
  OBVIOUS
<1>2. \A n \in 1 .. Len(q) - 1 : Tail(q)[n] = q[n + 1] /\ n + 1 \in 1 .. Len(q)
  OBVIOUS
<1> QED  BY <1>1, <1>2 DEF Clean

LEMMA LineForms ==
    ASSUME NEW r \in Shown, NEW t \in Texts
    PROVE  /\ [r EXCEPT !.text = t] \in Shown
           /\ [r EXCEPT !.text = t].prompt = r.prompt /\ [r EXCEPT !.text = t].foreign = r.foreign
           /\ [r EXCEPT !.text = t, !.foreign = FALSE] \in Shown
           /\ [r EXCEPT !.text = t, !.foreign = FALSE].prompt = r.prompt
           /\ [r EXCEPT !.text = t, !.foreign = FALSE].foreign = FALSE
           /\ [r EXCEPT !.foreign = FALSE, !.text = t] \in Shown
           /\ [r EXCEPT !.foreign = FALSE, !.text = t].prompt = r.prompt
           /\ [r EXCEPT !.foreign = FALSE, !.text = t].foreign = FALSE
           /\ [r EXCEPT !.foreign = TRUE] \in Shown
  BY DEF Shown

LEMMA PromptForms ==
    /\ Fresh \in Shown
    /\ \A p \in {"terminal", "python", "input"} :
         Prompt(p) \in Shown /\ Prompt(p).prompt = p /\ Prompt(p).foreign = FALSE
  BY ShellAssumption DEF Fresh, Prompt, Shown, Texts

LEMMA NoHistory == Sound(<<>>, Blank) /\ 0 \in 0 .. Len(<<>>)
<1>1. <<>> \in Seq(Texts) /\ Len(<<>>) = 0
  OBVIOUS
<1>2. 0 <= HistorySize /\ 1 .. 0 = {} /\ 1 .. 0 - 1 = {} /\ 0 \in 0 .. 0
  BY ShellAssumption
<1> QED  BY <1>1, <1>2 DEF Sound

(* The entry that comes last may differ from the line entered only if none is
   to be compared with it. *)
LEMMA Forgotten == ASSUME NEW h, NEW e, Sound(h, e) PROVE Sound(h, Blank)
  BY DEF Sound

LEMMA Dropped ==
    ASSUME NEW h, NEW e, Sound(h, e), h # <<>>
    PROVE  Sound(Tail(h), Blank) /\ Len(Tail(h)) < HistorySize
           /\ (Tail(h) # <<>> => Last(Tail(h)) = Last(h))
<1>1. Tail(h) \in Seq(Texts) /\ Len(Tail(h)) = Len(h) - 1 /\ Len(h) \in Nat \ {0}
  BY DEF Sound
<1>2. \A n \in 1 .. Len(h) - 1 : Tail(h)[n] = h[n + 1] /\ n + 1 \in 1 .. Len(h)
  BY DEF Sound
<1>3. \A n \in 1 .. Len(Tail(h)) : Tail(h)[n] # Blank
  BY <1>1, <1>2 DEF Sound
<1>4. \A n \in 1 .. Len(Tail(h)) - 1 : Tail(h)[n] # Tail(h)[n + 1]
  <2> TAKE n \in 1 .. Len(Tail(h)) - 1
  <2>1. PICK p \in Nat : p = n + 1
    BY <1>1
  <2>2. p \in 1 .. Len(h) - 1 /\ n \in 1 .. Len(h) - 1
    BY <1>1, <2>1
  <2>3. Tail(h)[n] = h[p] /\ Tail(h)[p] = h[p + 1]
    BY <1>2, <2>1, <2>2
  <2>4. h[p] # h[p + 1]
    BY <2>2 DEF Sound
  <2> QED  BY <2>1, <2>3, <2>4
<1>5. Len(Tail(h)) < HistorySize /\ Len(Tail(h)) <= HistorySize
  BY <1>1, ShellAssumption DEF Sound
<1>6. Tail(h) # <<>> => Last(Tail(h)) = Last(h)
  <2> SUFFICES ASSUME Tail(h) # <<>> PROVE Last(Tail(h)) = Last(h)
    OBVIOUS
  <2>1. Len(h) - 1 \in 1 .. Len(h) - 1
    BY <1>1
  <2> QED  BY <2>1, <1>1, <1>2 DEF Last
<1> QED  BY <1>1, <1>3, <1>4, <1>5, <1>6 DEF Sound

LEMMA Added ==
    ASSUME NEW h, NEW e, Sound(h, e), Len(h) < HistorySize, NEW l \in Texts, l # Blank,
           h # <<>> => Last(h) # l
    PROVE  Sound(Append(h, l), l)
<1>1. Append(h, l) \in Seq(Texts) /\ Len(Append(h, l)) = Len(h) + 1 /\ Len(h) \in Nat
  BY DEF Sound
<1>2. /\ \A n \in 1 .. Len(h) : Append(h, l)[n] = h[n]
      /\ Append(h, l)[Len(h) + 1] = l
  BY DEF Sound
<1>3. \A n \in 1 .. Len(h) + 1 : Append(h, l)[n] # Blank
  BY <1>1, <1>2 DEF Sound
<1>4. \A n \in 1 .. Len(h) : Append(h, l)[n] # Append(h, l)[n + 1]
  <2> TAKE n \in 1 .. Len(h)
  <2>1. CASE n = Len(h)
    <3>1. h # <<>> /\ Last(h) = h[n]
      BY <2>1, <1>1 DEF Last, Sound
    <3> QED  BY <3>1, <2>1, <1>2
  <2>2. CASE n # Len(h)
    <3>1. PICK p \in Nat : p = n + 1
      BY <1>1
    <3>2. p \in 1 .. Len(h) /\ n \in 1 .. Len(h) - 1
      BY <3>1, <2>2, <1>1
    <3>3. h[n] # h[n + 1]
      BY <3>2 DEF Sound
    <3> QED  BY <3>1, <3>2, <3>3, <1>2
  <2> QED  BY <2>1, <2>2
<1>5. Append(h, l) # <<>> /\ Last(Append(h, l)) = l /\ Len(Append(h, l)) <= HistorySize
  BY <1>1, <1>2, ShellAssumption DEF Last
<1>6. Len(Append(h, l)) - 1 = Len(h)
  BY <1>1
<1> QED  BY <1>1, <1>3, <1>4, <1>5, <1>6 DEF Sound

LEMMA Pushed ==
    ASSUME Recalled, NEW l \in Texts, widget_shell_history_push(l)
    PROVE  Recalled'
<1>0. Sound(history, entered) /\ entered \in Texts /\ history_pos \in 0 .. Len(history)
      /\ history \in Seq(Texts) /\ Len(history) \in Nat /\ Len(history) <= HistorySize
      /\ Blank \in Texts /\ HistorySize \in Nat \ {0}
  BY ShellAssumption DEF Recalled, Sound, Texts
<1>1. CASE l = Blank \/ (history # <<>> /\ Last(history) = l)
  <2>1. history' = history /\ history_pos' = Len(history) /\ entered' \in Texts
    BY <1>0, <1>1 DEF widget_shell_history_push
  <2>2. Sound(history, entered')
    BY <1>0, <1>1 DEF widget_shell_history_push, Sound
  <2> QED  BY <1>0, <2>1, <2>2 DEF Recalled
<1>2. CASE /\ l # Blank /\ (history # <<>> => Last(history) # l)
           /\ history' = Append(IF Len(history) = HistorySize THEN Tail(history) ELSE history, l)
           /\ history_pos' = Len(history') /\ entered' = l
  <2>1. PICK h : h = IF Len(history) = HistorySize THEN Tail(history) ELSE history
    OBVIOUS
  <2>2. Sound(h, Blank) /\ Len(h) < HistorySize /\ (h # <<>> => Last(h) # l)
    <3>1. CASE Len(history) = HistorySize
      <4>1. history # <<>>
        BY <3>1, <1>0
      <4> QED  BY <4>1, <3>1, <2>1, <1>0, <1>2, Dropped
    <3>2. CASE Len(history) # HistorySize
      BY <3>2, <2>1, <1>0, <1>2, Forgotten
    <3> QED  BY <3>1, <3>2
  <2>3. Sound(Append(h, l), l)
    BY <2>2, <1>2, Added
  <2>4. PICK h2 : h2 = Append(h, l)
    OBVIOUS
  <2>5. Sound(h2, l) /\ history' = h2
    BY <2>1, <2>3, <2>4, <1>2, Zenon
  <2>6. Len(h2) \in 0 .. Len(h2)
    BY <2>5 DEF Sound
  <2> QED  BY <2>5, <2>6, <1>2 DEF Recalled
<1>3. CASE entered' = Blank /\ UNCHANGED <<history, history_pos>>
  BY <1>0, <1>3, Forgotten DEF Recalled
<1> QED  BY <1>1, <1>2, <1>3 DEF widget_shell_history_push

-----------------------------------------------------------------------------
LEMMA InitOK == Init => IInv
<1> SUFFICES ASSUME Init PROVE IInv
  OBVIOUS
<1>1. stack \in Stacks /\ (stack = <<>> \/ stack = <<"action">>)
  BY StackOf DEF Init
<1>2. \/ stack = <<>> /\ Top = "loop" /\ Here = "loop"
      \/ stack # <<>> /\ Top = "action" /\ Here = "action"
  BY <1>1, TupleEnds DEF Top, Here
<1>3. Control
  BY <1>1, <1>2 DEF Init, Control, InterruptScope
<1>4. Flags /\ Waits
  BY Zenon DEF Init, Flags, Waits
<1>5. Left_behind
  <2>1. keys = <<>> /\ timer_used = "none"
    BY DEF Init
  <2>2. keys \in Seq(Events) /\ Len(keys) <= MaxQueue /\ Clean(keys)
    BY <2>1, QueueEmpty
  <2> QED  BY <2>1, <2>2 DEF Left_behind
<1>6. Line_kept
  <2>1. line = [prompt |-> "terminal", text |-> Blank, foreign |-> FALSE] /\ Mode = "terminal"
    BY DEF Init, Prompt, Mode
  <2>2. line \in Shown
    BY <2>1, ShellAssumption DEF Texts, Shown
  <2> QED  BY <2>1, <2>2, <1>2 DEF Line_kept
<1>7. Recalled
  <2>1. history = <<>> /\ history_pos = 0 /\ entered = Blank /\ Blank \in Texts
    BY ShellAssumption DEF Init, Texts
  <2> QED  BY <2>1, NoHistory DEF Recalled
<1> QED  BY <1>3, <1>4, <1>5, <1>6, <1>7 DEF IInv

-----------------------------------------------------------------------------
LEMMA FlagsStep == Flags /\ [Next]_vars => Flags'
<1> SUFFICES ASSUME Flags, [Next]_vars PROVE Flags'
  OBVIOUS
<1> USE DEF Flags, Show_prompt
<1>1. CASE \E k \in Keys : press(k)
  BY <1>1, Zenon DEF press
<1>2. CASE edit
  BY <1>2, Zenon DEF edit
<1>3. CASE widget_shell_history_recall("UP")
  BY <1>3, Zenon DEF widget_shell_history_recall
<1>4. CASE widget_shell_history_recall("DOWN")
  BY <1>4, Zenon DEF widget_shell_history_recall
<1>5. CASE python_line
  BY <1>5, Zenon DEF python_line
<1>6. CASE terminal_line
  BY <1>6, Zenon DEF terminal_line
<1>7. CASE pe_readline_end
  BY <1>7, Zenon DEF pe_readline_end
<1>8. CASE shortcut
  BY <1>8, Zenon DEF shortcut
<1>9. CASE arm
  BY <1>9, Zenon DEF arm
<1>10. CASE code_ends
  BY <1>10, Zenon DEF code_ends
<1>11. CASE disarm
  BY <1>11, Zenon DEF disarm
<1>12. CASE handle
  BY <1>12, Zenon DEF handle
<1>13. CASE report
  BY <1>13, Zenon DEF report
<1>14. CASE pyexec_end
  BY <1>14, Zenon DEF pyexec_end
<1>15. CASE print
  BY <1>15, Zenon DEF print
<1>16. CASE getkey
  BY <1>16, Zenon DEF getkey
<1>17. CASE pe_timer_configure
  BY <1>17, Zenon DEF pe_timer_configure
<1>18. CASE pe_readline
  BY <1>18, Zenon DEF pe_readline
<1>19. CASE deliver
  BY <1>19, Zenon DEF deliver
<1>20. CASE picker_end
  BY <1>20, Zenon DEF picker_end
<1>21. CASE terminal_end
  BY <1>21, Zenon DEF terminal_end
<1>22. CASE UNCHANGED vars
  BY <1>22, Zenon DEF vars
<1>23. CASE pollevent
  BY <1>23, Zenon DEF pollevent
<1>24. CASE getkey_returns
  BY <1>24, Zenon DEF getkey_returns
<1> QED
  BY <1>1, <1>2, <1>3, <1>4, <1>5, <1>6, <1>7, <1>8, <1>9, <1>10, <1>11, <1>12,
     <1>13, <1>14, <1>15, <1>16, <1>17, <1>18, <1>19, <1>20, <1>21, <1>22, <1>23, <1>24 DEF Next, Handles

LEMMA ControlStep == Control /\ [Next]_vars => Control'
<1> SUFFICES ASSUME Control, [Next]_vars PROVE Control'
  OBVIOUS
<1>0. /\ stack \in Stacks
      /\ Top \in Programs => Here = Top
      /\ Top = "input" => Here \in Programs
      /\ Top = "picker" => Here \in Programs \cup {"picker"}
      /\ stack = <<>> <=> Top = "loop"
      /\ stack = <<>> <=> Here = "loop"
      /\ Top \in Programs \cup {"picker", "input", "loop"}
      /\ Here \in Programs \cup {"picker", "loop"}
  BY StackShape DEF Control
<1> USE <1>0, Same DEF Control, InterruptScope, Vm_runs, In_code, Waiting, Takes
<1>1. CASE \E k \in Keys : press(k)
  BY <1>1 DEF press
<1>2. CASE edit
  BY <1>2 DEF edit
<1>3. CASE widget_shell_history_recall("UP")
  BY <1>3 DEF widget_shell_history_recall
<1>4. CASE widget_shell_history_recall("DOWN")
  BY <1>4 DEF widget_shell_history_recall
<1>5. CASE python_line
  BY <1>5, Push DEF python_line
<1>6. CASE terminal_line
  BY <1>6, Push DEF terminal_line
<1>7. CASE pe_readline_end
  BY <1>7, Pop DEF pe_readline_end
<1>8. CASE shortcut
  <2>1. CASE stack' = stack
    BY <1>8, <2>1 DEF shortcut, Call
  <2>2. CASE stack = <<>>
    BY <1>8, <2>2, Push DEF shortcut
  <2>3. CASE stack # <<>> /\ Call("picker") /\ UNCHANGED exec
    <3>1. Top = "input"
      BY <1>8, <2>3 DEF shortcut
    <3> QED  BY <1>8, <2>3, <3>1, Push DEF shortcut
  <2> QED  BY <1>8, <2>1, <2>2, <2>3 DEF shortcut
<1>9. CASE arm
  BY <1>9 DEF arm
<1>10. CASE code_ends
  BY <1>10 DEF code_ends
<1>11. CASE disarm
  BY <1>11 DEF disarm
<1>12. CASE handle
  BY <1>12 DEF handle
<1>13. CASE report
  BY <1>13 DEF report
<1>14. CASE pyexec_end
  BY <1>14, Empty DEF pyexec_end
<1>15. CASE print
  BY <1>15 DEF print
<1>16. CASE getkey
  BY <1>16 DEF getkey
<1>17. CASE pe_timer_configure
  BY <1>17 DEF pe_timer_configure
<1>18. CASE pe_readline
  BY <1>18, Push DEF pe_readline
<1>19. CASE deliver
  BY <1>19, Pop DEF deliver
<1>20. CASE picker_end
  BY <1>20, Pop DEF picker_end
<1>21. CASE terminal_end
  <2>1. /\ Top = "terminal" /\ exec = "none" /\ ~mp_interrupt_char /\ ~pending
        /\ exec' = exec /\ mp_interrupt_char' = mp_interrupt_char /\ pending' = pending
    BY <1>21 DEF terminal_end
  <2>2. CASE stack' = <<>>
    BY <2>1, <2>2, Empty
  <2>3. CASE stack' = <<"picker">>
    <3>1. stack' \in Stacks /\ Top' = "picker" /\ Here' = "picker"
      BY <2>3, StackOf, NewStack
    <3> QED  BY <2>1, <3>1
  <2> QED  BY <1>21, <2>2, <2>3 DEF terminal_end
<1>22. CASE UNCHANGED vars
  BY <1>22 DEF vars
<1>23. CASE pollevent
  BY <1>23 DEF pollevent
<1>24. CASE getkey_returns
  BY <1>24 DEF getkey_returns
<1> QED
  BY <1>1, <1>2, <1>3, <1>4, <1>5, <1>6, <1>7, <1>8, <1>9, <1>10, <1>11, <1>12,
     <1>13, <1>14, <1>15, <1>16, <1>17, <1>18, <1>19, <1>20, <1>21, <1>22, <1>23, <1>24 DEF Next, Handles

LEMMA WaitsStep == Control /\ Waits /\ [Next]_vars => Waits'
<1> SUFFICES ASSUME Control, Waits, [Next]_vars PROVE Waits'
  OBVIOUS
<1>0. UNCHANGED <<stack, exec>> => (In_code' <=> In_code)
  BY DEF In_code, Top
<1>f. in_getkey' = FALSE => Waits'
  BY DEF Waits
<1>w. Waiting => in_getkey = FALSE
  BY DEF Waits, In_code, Waiting
<1>p. Top \in Pyexec /\ exec # "run" => in_getkey = FALSE
  BY DEF Waits, In_code
<1>v. Vm_runs => in_getkey = FALSE
  BY DEF Waits, Vm_runs
<1>1. CASE \E k \in Keys : press(k)
  BY <1>1, <1>0 DEF press, Waits
<1>2. CASE edit
  BY <1>2, <1>w, <1>f DEF edit, Takes
<1>3. CASE widget_shell_history_recall("UP")
  BY <1>3, <1>w, <1>f DEF widget_shell_history_recall, Takes
<1>4. CASE widget_shell_history_recall("DOWN")
  BY <1>4, <1>w, <1>f DEF widget_shell_history_recall, Takes
<1>5. CASE python_line
  BY <1>5, <1>w, <1>f DEF python_line, Takes
<1>6. CASE terminal_line
  BY <1>6, <1>w, <1>f DEF terminal_line, Takes
<1>7. CASE pe_readline_end
  BY <1>7, <1>w, <1>f DEF pe_readline_end, Takes
<1>8. CASE shortcut
  BY <1>8, <1>w, <1>f DEF shortcut, Takes
<1>9. CASE arm
  BY <1>9, <1>p, <1>f DEF arm
<1>10. CASE code_ends
  BY <1>10, <1>v, <1>f DEF code_ends
<1>11. CASE disarm
  BY <1>11, <1>p, <1>f DEF disarm
<1>12. CASE handle
  BY <1>12, <1>p, <1>f DEF handle
<1>13. CASE report
  BY <1>13, <1>p, <1>f DEF report
<1>14. CASE pyexec_end
  BY <1>14, <1>p, <1>f DEF pyexec_end
<1>15. CASE print
  BY <1>15, <1>v, <1>f DEF print
<1>16. CASE pollevent
  BY <1>16, <1>v, <1>f DEF pollevent
<1>17. CASE pe_timer_configure
  BY <1>17, <1>v, <1>f DEF pe_timer_configure
<1>18. CASE pe_readline
  BY <1>18, <1>v, <1>f DEF pe_readline
<1>19. CASE deliver
  BY <1>19, <1>v, <1>f DEF deliver
<1>20. CASE picker_end
  BY <1>20, <1>v, <1>f DEF picker_end
<1>21. CASE terminal_end
  BY <1>21, <1>v, <1>f DEF terminal_end
<1>22. CASE getkey
  BY <1>22, <1>0 DEF getkey, Vm_runs, Waits
<1>23. CASE getkey_returns
  BY <1>23, <1>f DEF getkey_returns
<1>24. CASE UNCHANGED vars
  BY <1>24, <1>0 DEF vars, Waits
<1> QED
  BY <1>1, <1>2, <1>3, <1>4, <1>5, <1>6, <1>7, <1>8, <1>9, <1>10, <1>11, <1>12, <1>13,
     <1>14, <1>15, <1>16, <1>17, <1>18, <1>19, <1>20, <1>21, <1>22, <1>23, <1>24 DEF Next, Handles

LEMMA Left_behindStep == Control /\ Left_behind /\ [Next]_vars => Left_behind'
<1> SUFFICES ASSUME Control, Left_behind, [Next]_vars PROVE Left_behind'
  OBVIOUS
<1>0. /\ stack \in Stacks /\ (exec = "none" <=> Here \notin Pyexec)
      /\ Here \in Frames \cup {"loop"} /\ (Top \in Programs => Here = Top)
      /\ (stack = <<>> => Here = "loop")
  BY StackShape DEF Control, Frames
<1> USE <1>0 DEF Left_behind
<1>a. keys # <<>> => /\ Tail(keys) \in Seq(Events) /\ Len(Tail(keys)) <= MaxQueue
                     /\ Clean(keys) => Clean(Tail(keys))
  BY QueueTail, ShellAssumption
<1>b. /\ Top = "input" => exec # "none" \/ Here \notin Pyexec
      /\ Top \in Programs \cup {"picker"} => Here # "loop"
  BY StackShape
<1> USE DEF Takes, Vm_runs, In_code, Waiting
<1>1. CASE \E k \in Keys : press(k)
  <2>1. PICK k \in Keys : press(k)
    BY <1>1
  <2>2. CASE UNCHANGED keys
    BY <2>1, <2>2 DEF press
  <2>3. CASE Len(keys) < MaxQueue /\ keys' = Append(keys, [key |-> k, at |-> Here])
    <3>1. PICK e : e = [key |-> k, at |-> Here]
      OBVIOUS
    <3>2. e \in Events /\ e.at = Here
      BY <3>1 DEF Events
    <3>3. /\ Append(keys, e) \in Seq(Events) /\ Len(Append(keys, e)) = Len(keys) + 1
          /\ Clean(keys) /\ Here \notin Pyexec => Clean(Append(keys, e))
      BY <3>2, QueueAppend
    <3>4. Len(Append(keys, e)) <= MaxQueue
      BY <3>3, <2>3, ShellAssumption
    <3> QED  BY <2>1, <2>3, <3>1, <3>3, <3>4 DEF press
  <2> QED  BY <2>1, <2>2, <2>3 DEF press
<1>2. CASE edit
  BY <1>2, <1>a DEF edit
<1>3. CASE widget_shell_history_recall("UP")
  BY <1>3, <1>a DEF widget_shell_history_recall
<1>4. CASE widget_shell_history_recall("DOWN")
  BY <1>4, <1>a DEF widget_shell_history_recall
<1>5. CASE python_line
  BY <1>5, <1>a DEF python_line
<1>6. CASE terminal_line
  BY <1>6, <1>a DEF terminal_line
<1>7. CASE pe_readline_end
  BY <1>7, <1>a DEF pe_readline_end
<1>8. CASE shortcut
  BY <1>8, <1>a DEF shortcut
<1>9. CASE arm
  BY <1>9 DEF arm
<1>10. CASE code_ends
  BY <1>10 DEF code_ends
<1>11. CASE disarm
  BY <1>11 DEF disarm
<1>12. CASE handle
  BY <1>12 DEF handle
<1>13. CASE report
  BY <1>13 DEF report
<1>14. CASE pyexec_end
  BY <1>14, QueueEmpty DEF pyexec_end
<1>15. CASE print
  BY <1>15 DEF print
<1>16. CASE getkey
  BY <1>16 DEF getkey
<1>17. CASE pe_timer_configure
  BY <1>17 DEF pe_timer_configure
<1>18. CASE pe_readline
  BY <1>18 DEF pe_readline
<1>19. CASE deliver
  BY <1>19 DEF deliver
<1>20. CASE picker_end
  BY <1>20 DEF picker_end
<1>21. CASE terminal_end
  BY <1>21 DEF terminal_end
<1>22. CASE UNCHANGED vars
  BY <1>22 DEF vars
<1>23. CASE pollevent
  BY <1>23, <1>a DEF pollevent
<1>24. CASE getkey_returns
  BY <1>24, <1>a DEF getkey_returns
<1> QED
  BY <1>1, <1>2, <1>3, <1>4, <1>5, <1>6, <1>7, <1>8, <1>9, <1>10, <1>11, <1>12,
     <1>13, <1>14, <1>15, <1>16, <1>17, <1>18, <1>19, <1>20, <1>21, <1>22, <1>23, <1>24 DEF Next, Handles

LEMMA Line_keptStep == Control /\ Flags /\ Line_kept /\ Recalled /\ [Next]_vars => Line_kept'
<1> SUFFICES ASSUME Control, Flags, Line_kept, Recalled, [Next]_vars PROVE Line_kept'
  OBVIOUS
<1>0. /\ stack \in Stacks
      /\ Top \in Programs => Here = Top
      /\ Top = "input" => Here \in Programs
      /\ Top = "picker" => Here \in Programs \cup {"picker"}
      /\ stack = <<>> <=> Top = "loop"
      /\ stack = <<>> <=> Here = "loop"
      /\ Top \in Programs \cup {"picker", "input", "loop"}
      /\ line \in Shown /\ Blank \in Texts /\ Lines \subseteq Texts
      /\ pe_terminal_mode \in BOOLEAN /\ spoiled \in BOOLEAN
  BY StackShape, ShellAssumption DEF Control, Line_kept, Flags, Texts
<1>r. ASSUME NEW d, widget_shell_history_recall(d)
      PROVE  Line_kept'
  <2>1. CASE UNCHANGED line
    BY <1>r, <2>1, <1>0, Same DEF widget_shell_history_recall, Line_kept, Mode
  <2>2. CASE history # <<>>
    <3>1. history_pos' \in 0 .. Len(history) /\ Len(history) \in Nat /\ history \in Seq(Texts)
      BY <1>r, <2>2 DEF widget_shell_history_recall, Recalled, Sound
    <3>2. PICK t : t = IF history_pos' < Len(history) THEN history[history_pos' + 1] ELSE Blank
      OBVIOUS
    <3>3. t \in Texts
      BY <3>1, <3>2, <1>0
    <3>4. line' = [line EXCEPT !.foreign = FALSE, !.text = t]
      BY <1>r, <2>2, <3>2 DEF widget_shell_history_recall
    <3>5. line' \in Shown /\ line'.prompt = line.prompt /\ line'.foreign = FALSE
      BY <3>3, <3>4, <1>0, LineForms
    <3> QED  BY <1>r, <3>5, <1>0, Same DEF widget_shell_history_recall, Line_kept, Mode
  <2> QED  BY <1>r, <2>1, <2>2 DEF widget_shell_history_recall
<1>p. \A p \in {"terminal", "python", "input"} :
        Show_prompt(p) => line' \in Shown /\ line'.prompt = p /\ line'.foreign = FALSE
  BY PromptForms DEF Show_prompt
<1> USE <1>0, Same DEF Line_kept, Mode, Vm_runs, In_code, Waiting, Takes
<1>1. CASE \E k \in Keys : press(k)
  BY <1>1 DEF press
<1>2. CASE edit
  <2>1. PICK t \in Texts : \/ line' = [line EXCEPT !.text = t]
                           \/ line' = [line EXCEPT !.text = t, !.foreign = FALSE]
    BY <1>2 DEF edit
  <2>2. CASE line' = [line EXCEPT !.text = t]
    <3>1. line' \in Shown /\ line'.prompt = line.prompt /\ line'.foreign = line.foreign
      BY <2>2, LineForms
    <3> QED  BY <1>2, <3>1 DEF edit
  <2>3. CASE line' = [line EXCEPT !.text = t, !.foreign = FALSE]
    <3>1. line' \in Shown /\ line'.prompt = line.prompt /\ line'.foreign = FALSE
      BY <2>3, LineForms
    <3> QED  BY <1>2, <3>1 DEF edit
  <2> QED  BY <2>1, <2>2, <2>3
<1>3. CASE widget_shell_history_recall("UP")
  BY <1>3, <1>r
<1>4. CASE widget_shell_history_recall("DOWN")
  BY <1>4, <1>r
<1>5. CASE python_line
  <2>1. CASE Line_text \in {"exit", "clear"}
    <3>1. /\ stack' = stack /\ stack = <<>> /\ pe_terminal_mode = FALSE
          /\ pe_terminal_mode' = (Line_text = "exit")
          /\ Show_prompt(IF Line_text = "exit" THEN "terminal" ELSE "python")
      BY <1>5, <2>1 DEF python_line
    <3>2. CASE Line_text = "exit"
      BY <3>1, <3>2, <1>p
    <3>3. CASE Line_text = "clear"
      BY <3>1, <3>3, <1>p
    <3> QED  BY <2>1, <3>2, <3>3
  <2>2. CASE Call("repl") /\ line' = Fresh
    <3>1. Top' = "repl" /\ Here' = "repl" /\ pe_terminal_mode' = FALSE /\ line' \in Shown
      BY <1>5, <2>2, Push, PromptForms DEF python_line
    <3> QED  BY <3>1
  <2> QED  BY <1>5, <2>1, <2>2 DEF python_line
<1>6. CASE terminal_line
  <2>1. Top' = "terminal" /\ Here' = "terminal" /\ pe_terminal_mode' = TRUE /\ line' \in Shown
    BY <1>6, Push, PromptForms DEF terminal_line
  <2> QED  BY <2>1
<1>7. CASE pe_readline_end
  <2>1. /\ Top' = Here /\ Here' = Here /\ Here \in Programs /\ line' \in Shown
        /\ spoiled' = (spoiled \/ Here = "action") /\ pe_terminal_mode' = pe_terminal_mode
    BY <1>7, Pop, PromptForms DEF pe_readline_end
  <2>2. Here = "action" => spoiled'
    BY <2>1
  <2> QED  BY <2>1, <2>2
<1>8. CASE shortcut
  <2>0. line' = line /\ spoiled' = spoiled /\ pe_terminal_mode' = pe_terminal_mode /\ Waiting
    BY <1>8 DEF shortcut
  <2>1. CASE stack' = stack
    BY <2>0, <2>1
  <2>2. CASE stack = <<>> /\ \E f \in {"action", "picker"} : Call(f)
    <3>1. PICK f \in {"action", "picker"} : Call(f)
      BY <2>2
    <3>2. Top' = f /\ Here' = f
      BY <2>2, <3>1, Push
    <3> QED  BY <2>0, <2>2, <3>1, <3>2
  <2>3. CASE stack # <<>> /\ Call("picker")
    <3>1. Top = "input"
      BY <2>0, <2>3
    <3>2. Top' = "picker" /\ Here' = Here
      BY <2>3, <3>1, Push
    <3> QED  BY <2>0, <3>1, <3>2
  <2> QED  BY <1>8, <2>1, <2>2, <2>3 DEF shortcut
<1>9. CASE arm
  BY <1>9 DEF arm
<1>10. CASE code_ends
  BY <1>10 DEF code_ends
<1>11. CASE disarm
  BY <1>11 DEF disarm
<1>12. CASE handle
  BY <1>12 DEF handle
<1>13. CASE report
  BY <1>13, PromptForms DEF report
<1>14. CASE pyexec_end
  <2>1. Top' = "loop" /\ Here' = "loop" /\ pe_terminal_mode' = pe_terminal_mode /\ Top \in Pyexec
    BY <1>14, Empty DEF pyexec_end
  <2>2. CASE Top = "repl"
    <3>1. line' \in Shown /\ line'.prompt = "python" /\ line'.foreign = FALSE
      BY <1>14, <2>2, <1>p DEF pyexec_end
    <3> QED  BY <3>1, <2>1, <2>2
  <2>3. CASE Top # "repl"
    BY <1>14, <2>1, <2>3 DEF pyexec_end
  <2> QED  BY <2>2, <2>3
<1>15. CASE print
  <2>1. line' \in Shown
    BY <1>15, PromptForms, LineForms DEF print
  <2>2. /\ Top' = Top /\ Here' = Here /\ Top \in Programs /\ (Top = "action" => spoiled')
        /\ pe_terminal_mode' = pe_terminal_mode
    BY <1>15 DEF print
  <2> QED  BY <2>1, <2>2
<1>16. CASE getkey
  BY <1>16 DEF getkey
<1>17. CASE pe_timer_configure
  BY <1>17 DEF pe_timer_configure
<1>18. CASE pe_readline
  <2>1. /\ Top' = "input" /\ Here' = Here /\ pe_terminal_mode' = pe_terminal_mode
        /\ line' \in Shown /\ line'.prompt = "input" /\ line'.foreign = FALSE
    BY <1>18, Push, <1>p DEF pe_readline
  <2> QED  BY <2>1
<1>19. CASE deliver
  <2>1. CASE line' = Fresh /\ spoiled' = TRUE
    BY <1>19, <2>1, PromptForms, Pop DEF deliver
  <2>2. CASE UNCHANGED <<stack, line, spoiled>>
    BY <1>19, <2>2 DEF deliver
  <2> QED  BY <1>19, <2>1, <2>2 DEF deliver
<1>20. CASE picker_end
  <2>1. CASE line' = Fresh /\ spoiled' = TRUE
    BY <1>20, <2>1, PromptForms, Pop DEF picker_end
  <2>2. CASE line' \in Shown /\ line'.prompt = line.prompt /\ line'.foreign = line.foreign
             /\ spoiled' = spoiled
    BY <1>20, <2>2, Pop DEF picker_end
  <2>3. CASE (\E l \in Lines : line' = [line EXCEPT !.text = l]) /\ spoiled' = spoiled
    <3>1. PICK l \in Texts : line' = [line EXCEPT !.text = l]
      BY <2>3
    <3>2. line' \in Shown /\ line'.prompt = line.prompt /\ line'.foreign = line.foreign
      BY <3>1, LineForms
    <3> QED  BY <2>2, <2>3, <3>2
  <2> QED  BY <1>20, <2>1, <2>2, <2>3 DEF picker_end
<1>21. CASE terminal_end
  <2>0. stack' = <<>> \/ stack' = <<"picker">>
    BY <1>21 DEF terminal_end
  <2>1. \/ Top' = "loop" /\ Here' = "loop"
        \/ Top' = "picker" /\ Here' = "picker"
    <3>1. CASE stack' = <<>>
      BY <3>1, Empty
    <3>2. CASE stack' = <<"picker">>
      BY <3>2, NewStack
    <3> QED  BY <2>0, <3>1, <3>2
  <2>2. CASE pe_terminal_mode' = FALSE /\ Show_prompt("python")
    BY <2>1, <2>2, <1>p
  <2>3. CASE pe_terminal_mode' = pe_terminal_mode /\ Show_prompt("terminal")
    <3>1. pe_terminal_mode = TRUE
      BY <1>21 DEF terminal_end
    <3> QED  BY <2>1, <2>3, <3>1, <1>p
  <2> QED  BY <1>21, <2>2, <2>3 DEF terminal_end
<1>22. CASE UNCHANGED vars
  BY <1>22 DEF vars
<1>23. CASE pollevent
  BY <1>23 DEF pollevent
<1>24. CASE getkey_returns
  BY <1>24 DEF getkey_returns
<1> QED
  BY <1>1, <1>2, <1>3, <1>4, <1>5, <1>6, <1>7, <1>8, <1>9, <1>10, <1>11, <1>12,
     <1>13, <1>14, <1>15, <1>16, <1>17, <1>18, <1>19, <1>20, <1>21, <1>22, <1>23, <1>24 DEF Next, Handles

LEMMA RecalledStep == Line_kept /\ Recalled /\ [Next]_vars => Recalled'
<1> SUFFICES ASSUME Line_kept, Recalled, [Next]_vars PROVE Recalled'
  OBVIOUS
<1>l. PICK l \in Texts : l = Line_text
  BY DEF Line_kept, Shown, Line_text, Texts
<1>h. UNCHANGED <<history, history_pos, entered>> => Recalled'
  BY DEF Recalled
<1>r. ASSUME NEW d, widget_shell_history_recall(d)
      PROVE  Recalled'
  <2>1. Len(history) \in Nat
    BY DEF Recalled, Sound
  <2>2. history_pos' \in 0 .. Len(history) /\ UNCHANGED <<history, entered>>
    BY <1>r, <2>1 DEF widget_shell_history_recall, Recalled
  <2> QED  BY <2>2 DEF Recalled
<1> USE <1>h
<1>1. CASE \E k \in Keys : press(k)
  BY <1>1 DEF press
<1>2. CASE edit
  BY <1>2 DEF edit
<1>3. CASE widget_shell_history_recall("UP")
  BY <1>3, <1>r
<1>4. CASE widget_shell_history_recall("DOWN")
  BY <1>4, <1>r
<1>5. CASE python_line
  BY <1>5, <1>l, Pushed DEF python_line
<1>6. CASE terminal_line
  BY <1>6, <1>l, Pushed DEF terminal_line
<1>7. CASE pe_readline_end
  BY <1>7, <1>l, Pushed DEF pe_readline_end
<1>8. CASE shortcut
  BY <1>8 DEF shortcut
<1>9. CASE arm
  BY <1>9 DEF arm
<1>10. CASE code_ends
  BY <1>10 DEF code_ends
<1>11. CASE disarm
  BY <1>11 DEF disarm
<1>12. CASE handle
  BY <1>12 DEF handle
<1>13. CASE report
  BY <1>13 DEF report
<1>14. CASE pyexec_end
  BY <1>14 DEF pyexec_end
<1>15. CASE print
  BY <1>15 DEF print
<1>16. CASE getkey
  BY <1>16 DEF getkey
<1>17. CASE pe_timer_configure
  BY <1>17 DEF pe_timer_configure
<1>18. CASE pe_readline
  BY <1>18 DEF pe_readline
<1>19. CASE deliver
  BY <1>19 DEF deliver
<1>20. CASE picker_end
  BY <1>20 DEF picker_end
<1>21. CASE terminal_end
  <2>1. CASE history' = <<>> /\ history_pos' = 0 /\ entered' = Blank
    BY <2>1, NoHistory, ShellAssumption DEF Recalled, Texts
  <2> QED  BY <1>21, <2>1 DEF terminal_end
<1>22. CASE UNCHANGED vars
  BY <1>22 DEF vars
<1>23. CASE pollevent
  BY <1>23 DEF pollevent
<1>24. CASE getkey_returns
  BY <1>24 DEF getkey_returns
<1> QED
  BY <1>1, <1>2, <1>3, <1>4, <1>5, <1>6, <1>7, <1>8, <1>9, <1>10, <1>11, <1>12,
     <1>13, <1>14, <1>15, <1>16, <1>17, <1>18, <1>19, <1>20, <1>21, <1>22, <1>23, <1>24 DEF Next, Handles

-----------------------------------------------------------------------------
LEMMA StepOK == IInv /\ [Next]_vars => IInv'
  BY FlagsStep, ControlStep, WaitsStep, Left_behindStep, Line_keptStep, RecalledStep DEF IInv

LEMMA Invariance == Spec => []IInv
  BY InitOK, StepOK, PTL DEF Spec

(* Every variable of the shell keeps its type, the stack its shape, and the
   execution of a statement is under way exactly inside a line or an action. *)
THEOREM TypeCorrect == Spec => []TypeOK
<1>1. IInv => TypeOK
  <2> SUFFICES ASSUME IInv PROVE TypeOK
    OBVIOUS
  <2>1. (exec = "none") = (Here \notin Pyexec)
    BY DEF IInv, Control
  <2>2. history \in Seq(Texts) /\ Len(history) <= HistorySize
        /\ history_pos \in 0 .. Len(history) /\ entered \in Texts
    BY DEF IInv, Recalled, Sound
  <2> QED  BY <2>1, <2>2, Zenon
           DEF TypeOK, IInv, Control, Waits, Flags, Left_behind, Line_kept, Events, Shown, Texts
<1> QED  BY <1>1, Invariance, PTL

(* async_filter() and parse_compile_execute(): AC/ON is armed exactly around
   the code of a line or an action, and what it set is gone with that code. *)
THEOREM Interrupts == Spec => []InterruptScope
<1>1. IInv => InterruptScope
  BY DEF IInv, Control
<1> QED  BY <1>1, Invariance, PTL

(* pe_after_python_exec(): no key and no timer of a line or an action is left
   at the prompt that follows it. *)
THEOREM Hook == Spec => []HookEffect
<1>1. IInv => HookEffect
  <2> SUFFICES ASSUME IInv, stack = <<>>
               PROVE  timer_used \notin Pyexec /\ \A n \in DOMAIN keys : keys[n].at \notin Pyexec
    BY DEF HookEffect, Tidy
  <2>1. exec = "none" /\ keys \in Seq(Events)
    BY DEF IInv, Control, Here, Left_behind
  <2>2. DOMAIN keys = 1 .. Len(keys)
    BY <2>1
  <2> QED  BY <2>1, <2>2 DEF IInv, Left_behind, Clean
<1> QED  BY <1>1, Invariance, PTL

(* main.c, pe_readline(): whoever waits for a line has shown the prompt of its
   mode, and nothing but the user's text follows it. *)
THEOREM Prompts == Spec => []PromptShown
<1>1. IInv => PromptShown
  BY DEF IInv, Line_kept, PromptShown, Waiting, Mode
<1> QED  BY <1>1, Invariance, PTL

(* widget_shell_history_push() and _recall(): the history holds no empty line,
   none twice in a row, and ends with the last line entered. *)
THEOREM History == Spec => []HistorySound
<1>1. IInv => HistorySound
  <2> SUFFICES ASSUME IInv PROVE HistorySound
    OBVIOUS
  <2>1. history \in Seq(Texts)
    BY DEF IInv, Recalled, Sound
  <2>2. DOMAIN history = 1 .. Len(history)
    BY <2>1
  <2> QED  BY <2>2 DEF IInv, Recalled, Sound, HistorySound
<1> QED  BY <1>1, Invariance, PTL
=============================================================================
