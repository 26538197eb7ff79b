------------------------------- MODULE PyEditor -----------------------------
(***************************************************************************)
(* The on-calculator editor and how it saves (modules/pyeditor).           *)
(*                                                                         *)
(* save_file() stages the text in a temporary sibling, moves the old file  *)
(* to a backup sibling, publishes the temporary one under the file's name  *)
(* and removes the backup.  One action is one file operation, which may    *)
(* succeed or raise OSError.  Between two of them the AC/ON key may raise  *)
(* KeyboardInterrupt, which "except Exception" does not catch, and the     *)
(* calculator may be reset, after which only the files are left.           *)
(*                                                                         *)
(* Texts are opaque.  The storage (open, rename, remove, stat behind       *)
(* modos.c and fdfile.c) is external: each operation is atomic, except     *)
(* that a file being written holds a torn text.                            *)
(***************************************************************************)
EXTENDS Naturals

CONSTANTS
    Files,      \* names that the user edits
    Texts,      \* what a file may hold
    Normal,     \* Normal[t]: t with its line ends turned into newlines
    Empty,      \* the text of a new buffer, [""]
    MaxSuffix   \* numbered siblings that _unused_filename() tries, 999

ASSUME PyEditorAssumption ==
    /\ Files # {}
    /\ Normal \in [Texts -> Texts]
    /\ \A t \in Texts : Normal[Normal[t]] = Normal[t]
    /\ Empty \in Texts /\ Normal[Empty] = Empty
    /\ MaxSuffix \in Nat

Absent == "absent"   \* there is no such file
Torn   == "torn"     \* part of a text

ASSUME TextsDiffer == Absent \notin Texts /\ Torn \notin Texts

(* The file f, and its siblings f.pu-tmp and f.pu-backup, plain or numbered. *)
Source(f)        == <<f, "source", 0>>
Sibling(f, e, k) == <<f, e, k>>

Siblings(e) == {Sibling(f, e, k) : f \in Files, k \in 0 .. MaxSuffix}

Names == {Source(f) : f \in Files} \cup Siblings("pu-tmp") \cup Siblings("pu-backup")

None == <<>>   \* Python's None, where a name could be

VARIABLES
    disk,        \* contents of every name
    open,        \* an editor is running
    filename, lines, dirty, load_failed,   \* the attributes of Editor
    pc,          \* the next file operation of save_file() or run_code()
    temporary, backup,                     \* the locals of save_file()
    then,        \* what the save is for: "stay" (F2) or "run" (F1)
    outcome,     \* how save_file() ends: "saved", "failed", "interrupted"
    saved        \* history: the last whole text stored under each file's name

editor == <<filename, lines, dirty, load_failed>>
locals == <<temporary, backup, then, outcome>>
vars   == <<disk, open, editor, pc, locals, saved>>

-----------------------------------------------------------------------------
_exists(name) == disk[name] # Absent

(* Mutant: the first sibling is taken without looking. *)
unused_unchecked(f, e) == Sibling(f, e, 0)

(* The first sibling that does not exist; None if all do (an OSError). *)
_unused_filename(f, e) ==
    LET unused == {k \in 0 .. MaxSuffix : ~_exists(Sibling(f, e, k))}
    IN  IF unused = {} THEN None
        ELSE Sibling(f, e, CHOOSE k \in unused : \A j \in unused : k <= j)

(* The file system's side of a rename and of a removal. *)
Renamed(from, to) == [disk EXCEPT ![to] = disk[from], ![from] = Absent]
Removed(name)     == [disk EXCEPT ![name] = Absent]

Init ==
    /\ disk \in [Names -> Texts \cup {Absent}]
    /\ \A n \in Names : n[2] # "source" => disk[n] = Absent
    /\ open = FALSE
    /\ filename \in Files
    /\ lines = Empty /\ dirty = FALSE /\ load_failed = FALSE
    /\ pc = "idle"
    /\ temporary = None /\ backup = None /\ then = "stay" /\ outcome = "saved"
    /\ saved = [f \in Files |-> disk[Source(f)]]

(* The main loop of the editor waits for a key. *)
Idle == open /\ pc = "idle"

(* save_file() returns or is left: its locals are gone. *)
NoLocals == temporary' = None /\ backup' = None /\ then' = "stay" /\ outcome' = "saved"

(* The editor ends, and its buffer is gone. *)
Close ==
    /\ open' = FALSE
    /\ lines' = Empty /\ dirty' = FALSE /\ load_failed' = FALSE
    /\ UNCHANGED filename
    /\ pc' = "idle"
    /\ NoLocals

-----------------------------------------------------------------------------
(* Opening, editing and leaving. *)

(* Editor(f): load_file(f, allow_new=True).  A file that is there but cannot
   be read leaves an empty buffer that must not be saved. *)
open_file(f) ==
    /\ ~open
    /\ open' = TRUE
    /\ filename' = f
    /\ dirty' = FALSE
    /\ \/ /\ lines' = IF _exists(Source(f)) THEN Normal[disk[Source(f)]] ELSE Empty
          /\ load_failed' = FALSE
       \/ lines' = Empty /\ load_failed' = TRUE
    /\ UNCHANGED <<disk, pc, locals, saved>>

(* new_file() looks for a name that is not in use. *)
new_file(f) ==
    /\ ~open
    /\ ~_exists(Source(f))
    /\ open' = TRUE
    /\ filename' = f
    /\ lines' = Empty /\ dirty' = TRUE /\ load_failed' = FALSE
    /\ UNCHANGED <<disk, pc, locals, saved>>

(* Mutant: an edition command that does not mark the buffer. *)
edit_unmarked(t) ==
    /\ Idle
    /\ lines' = Normal[t]
    /\ UNCHANGED <<disk, open, filename, dirty, load_failed, pc, locals, saved>>

(* Typing, deleting, pasting. *)
edit(t) ==
    /\ Idle
    /\ lines' = Normal[t] /\ dirty' = TRUE
    /\ UNCHANGED <<disk, open, filename, load_failed, pc, locals, saved>>

(* F4, once confirm_discard() agrees: without allow_new only a file that is
   there can be loaded, and a failure changes nothing. *)
load_file(f) ==
    /\ Idle
    /\ _exists(Source(f))
    /\ filename' = f
    /\ lines' = Normal[disk[Source(f)]] /\ dirty' = FALSE /\ load_failed' = FALSE
    /\ UNCHANGED <<disk, open, pc, locals, saved>>

(* F3, once confirm_discard() agrees. *)
start_new(f) ==
    /\ Idle
    /\ ~_exists(Source(f))
    /\ filename' = f
    /\ lines' = Empty /\ dirty' = TRUE /\ load_failed' = FALSE
    /\ UNCHANGED <<disk, open, pc, locals, saved>>

(* EXIT, once confirm_discard() agrees, or AC/ON in the main loop. *)
leave ==
    /\ Idle
    /\ Close
    /\ UNCHANGED <<disk, saved>>

-----------------------------------------------------------------------------
(* save_file(). *)

(* Mutant: the text is written in place. *)
StagingInPlace(f) == Source(f)

(* The name that the text is first written to. *)
StagingName(f) == _unused_filename(f, "pu-tmp")

(* The early returns of save_file(): the buffer was never loaded, permission
   is denied or no name is left.  None of them changes anything. *)
begin_save(purpose) ==
    /\ ~load_failed
    /\ StagingName(filename) # None
    /\ temporary' = StagingName(filename)
    /\ backup' = None /\ then' = purpose /\ outcome' = "failed"
    /\ pc' = "create"
    /\ UNCHANGED <<disk, open, editor, saved>>

(* F2 *)
save_file == Idle /\ begin_save("stay")

(* To the "finally" of save_file(), with this result. *)
EndSave(result) == pc' = "finally" /\ outcome' = result

create_temporary ==
    /\ open /\ pc = "create"
    /\ \/ /\ disk' = [disk EXCEPT ![temporary] = Torn]
          /\ pc' = "write" /\ UNCHANGED outcome
       \/ EndSave("failed") /\ UNCHANGED disk
    /\ UNCHANGED <<open, editor, temporary, backup, then, saved>>

write_temporary ==
    /\ open /\ pc = "write"
    /\ \/ /\ disk' = [disk EXCEPT ![temporary] = lines]
          /\ pc' = "backup" /\ UNCHANGED outcome
       \/ EndSave("failed") /\ UNCHANGED disk
    /\ UNCHANGED <<open, editor, temporary, backup, then, saved>>

(* Mutant: the old file is deleted to make room for the new one. *)
SetAsideByRemoving(name) == Removed(Source(filename))

(* The old file moves out of the way. *)
SetAside(name) == Renamed(Source(filename), name)

back_up ==
    LET name == _unused_filename(filename, "pu-backup")
    IN  /\ open /\ pc = "backup"
        /\ \/ /\ ~_exists(Source(filename))
              /\ pc' = "publish"
              /\ UNCHANGED <<disk, backup, outcome>>
           \/ /\ _exists(Source(filename)) /\ name # None
              /\ backup' = name
              /\ \/ /\ disk' = SetAside(name)
                    /\ pc' = "publish" /\ UNCHANGED outcome
                 \/ EndSave("failed") /\ UNCHANGED disk
           \/ /\ _exists(Source(filename)) /\ name = None
              /\ EndSave("failed") /\ UNCHANGED <<disk, backup>>
        /\ UNCHANGED <<open, editor, temporary, then, saved>>

publish ==
    /\ open /\ pc = "publish"
    /\ \/ /\ disk' = Renamed(temporary, Source(filename))
          /\ saved' = [saved EXCEPT ![filename] = lines]
          /\ temporary' = None
          /\ pc' = "clean" /\ UNCHANGED outcome
       \/ /\ backup # None
          /\ pc' = "rollback"
          /\ UNCHANGED <<disk, temporary, outcome, saved>>
       \/ /\ backup = None
          /\ EndSave("failed")
          /\ UNCHANGED <<disk, temporary, saved>>
    /\ UNCHANGED <<open, editor, backup, then>>

(* The rename back may fail as well; the save has failed either way. *)
rollback ==
    /\ open /\ pc = "rollback"
    /\ \/ disk' = Renamed(backup, Source(filename)) /\ backup' = None
       \/ UNCHANGED <<disk, backup>>
    /\ EndSave("failed")
    /\ UNCHANGED <<open, editor, temporary, then, saved>>

(* "Saved", or "Saved; backup kept" when the backup cannot be removed. *)
clean_up ==
    /\ open /\ pc = "clean"
    /\ dirty' = FALSE
    /\ \/ backup # None /\ disk' = Removed(backup)
       \/ UNCHANGED disk
    /\ EndSave("saved")
    /\ UNCHANGED <<open, filename, lines, load_failed, temporary, backup, then,
                   saved>>

(* The "finally": drop the temporary file, if that works, then return or let
   KeyboardInterrupt end the editor. *)
finish_save ==
    /\ open /\ pc = "finally"
    /\ \/ temporary # None /\ disk' = Removed(temporary)
       \/ UNCHANGED disk
    /\ \/ outcome = "interrupted" /\ Close
       \/ /\ outcome # "interrupted"
          /\ pc' = IF outcome = "saved" /\ then = "run" THEN "exec" ELSE "idle"
          /\ NoLocals
          /\ UNCHANGED <<open, editor>>
    /\ UNCHANGED saved

(* Where the VM looks for a pending interrupt: at branches, of which there is
   none between the rename to the backup and the one that publishes. *)
Interruptible ==
    \/ pc \in {"create", "write", "backup", "rollback", "clean"}
    \/ pc = "publish" /\ backup = None

interrupt_save ==
    /\ open /\ Interruptible
    /\ EndSave("interrupted")
    /\ UNCHANGED <<disk, open, editor, temporary, backup, then, saved>>

(* AC/ON in the "finally" itself. *)
interrupt_finally ==
    /\ open /\ pc = "finally"
    /\ Close
    /\ UNCHANGED <<disk, saved>>

-----------------------------------------------------------------------------
(* F1: save what is not on disk, then execute the file. *)
run_code ==
    /\ Idle
    /\ ~load_failed
    /\ \/ /\ dirty \/ ~_exists(Source(filename))
          /\ begin_save("run")
       \/ /\ ~dirty /\ _exists(Source(filename))
          /\ pc' = "exec"
          /\ UNCHANGED <<disk, open, editor, locals, saved>>

(* The script is assumed to leave the files of the editor alone.  The editor
   ends when it succeeds or is interrupted and goes on when it fails. *)
exec_code ==
    /\ open /\ pc = "exec"
    /\ \/ Close
       \/ pc' = "idle" /\ UNCHANGED <<open, editor, locals>>
    /\ UNCHANGED <<disk, saved>>

(* Reset or loss of power. *)
crash ==
    /\ open
    /\ Close
    /\ UNCHANGED <<disk, saved>>

Next ==
    \/ \E f \in Files : open_file(f) \/ new_file(f) \/ load_file(f) \/ start_new(f)
    \/ \E t \in Texts : edit(t)
    \/ leave
    \/ save_file \/ create_temporary \/ write_temporary \/ back_up \/ publish
    \/ rollback \/ clean_up \/ finish_save
    \/ interrupt_save \/ interrupt_finally
    \/ run_code \/ exec_code
    \/ crash

Spec == Init /\ [][Next]_vars

-----------------------------------------------------------------------------
(* Properties. *)

(* The variables have the types of what they stand for; in particular the
   buffer always holds a text, and a save works on siblings of its file. *)
TypeOK ==
    /\ disk \in [Names -> Texts \cup {Absent, Torn}]
    /\ open \in BOOLEAN
    /\ filename \in Files
    /\ lines \in Texts
    /\ dirty \in BOOLEAN /\ load_failed \in BOOLEAN
    /\ pc \in {"idle", "create", "write", "backup", "publish", "rollback",
               "clean", "finally", "exec"}
    /\ temporary \in Siblings("pu-tmp") \cup {None}
    /\ backup \in Siblings("pu-backup") \cup {None}
    /\ then \in {"stay", "run"}
    /\ outcome \in {"saved", "failed", "interrupted"}
    /\ saved \in [Files -> Texts \cup {Absent}]

(* No failure, interrupt or reset loses a stored program: the text last stored
   under a file's name is there, whole, or in one of its backups. *)
TextKept ==
    \A f \in Files :
        saved[f] # Absent =>
            \/ disk[Source(f)] = saved[f]
            \/ \E k \in 0 .. MaxSuffix : disk[Sibling(f, "pu-backup", k)] = saved[f]

(* "Save stages output; failures never truncate the original source": nobody
   ever finds part of a text under the name of a file or of a backup. *)
NeverTruncated ==
    \A n \in Names : disk[n] = Torn => n[2] = "pu-tmp"

(* The buffer is what this name holds, up to line ends. *)
Shows(name) == disk[name] \in Texts /\ Normal[disk[name]] = lines

(* A buffer that is not marked dirty, which the editor gives up without asking
   and run_code() does not save, is what the file holds; if the file is gone,
   there was nothing in it or a failed save left it in a backup. *)
CleanIsStored ==
    (Idle /\ ~dirty /\ ~load_failed) =>
        \/ Shows(Source(filename))
        \/ /\ ~_exists(Source(filename))
           /\ \/ lines = Empty
              \/ \E k \in 0 .. MaxSuffix : Shows(Sibling(filename, "pu-backup", k))

(* No file is ever replaced: a name gets new contents only while it is unused
   or is the temporary file being written.  Leftovers of earlier saves, which
   may hold the only copy of a text, survive later ones. *)
NoOverwrite ==
    [][\A n \in Names :
           disk'[n] # disk[n] => \/ disk'[n] = Absent
                                 \/ disk[n] = Absent
                                 \/ pc = "write" /\ n = temporary]_vars
=============================================================================
