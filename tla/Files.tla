-------------------------------- MODULE Files -------------------------------
(***************************************************************************)
(* Files and their permissions: the table of pyperm, the commands of the   *)
(* terminal (pyterm) and the operations of the file manager (pyfiles).     *)
(*                                                                         *)
(* The storage knows no permissions.  pyperm keeps a table by path, in     *)
(* memory and in a file; the tools check it before they touch a path and   *)
(* bring it up to date afterwards, in a second step.  AC/ON or a reset may *)
(* come in between, the table may fail to be saved or be cut short, and    *)
(* scripts use the storage without telling the table.                      *)
(*                                                                         *)
(* The storage is external: an operation is atomic, and a rename needs a   *)
(* free name.  pyfiles and pyterm take every error of os.stat() for        *)
(* absence; what follows from an error is in the actions named _unseen, in *)
(* _remove_tree and in table.                                              *)
(*                                                                         *)
(* A mode is the set of the accesses that some digit of it grants, which   *)
(* is all that readable() and writable() look at.                          *)
(***************************************************************************)
EXTENDS PathNames, FiniteSets

CONSTANTS
    Paths,       \* the paths of the storage
    Texts,       \* what a file may hold
    Empty,       \* the text of a new file
    Modes,       \* the modes that chmod is given
    Stems,       \* Stems[p]: the paths that p reads as when cut short
    MaxMarked,   \* items on the clipboard
    MaxEntries,  \* bound: chmod only while the table and its file have fewer
    MaxItems,    \* bound: create only while there are fewer items and faults
    MaxFaults    \* bound: interrupts, resets, errors of the storage, scripts

Absent == "absent"
Folder == "folder"
Torn   == "torn"      \* part of a text

ASSUME FilesAssumption ==
    /\ IsFiniteSet(Paths) /\ Paths \subseteq Seq(Nat) \ {<<>>}
    /\ \A p \in Paths : \A n \in 1 .. Len(p) : Prefix(p, n) \in Paths
    /\ Texts \cap {Absent, Folder, Torn} = {} /\ Empty \in Texts
    /\ Modes \subseteq SUBSET {"r", "w", "x"}
    /\ Stems \in [Paths -> SUBSET Paths]
    /\ MaxMarked \in Nat /\ MaxEntries \in Nat /\ MaxItems \in Nat /\ MaxFaults \in Nat

None == {"none"}                        \* no entry in the table
DEFAULT_FILE_MODE == {"r", "w"}
DEFAULT_DIR_MODE  == {"r", "w", "x"}
AllModes == SUBSET {"r", "w", "x"}
Tables   == [Paths -> AllModes \cup {None}]
NoTable  == [p \in Paths |-> None]

(* What is still to be done of the operation in hand.  top is the copy that
   a task is part of, mode the argument of a chmod. *)
Task(op, from, to, top, mode) ==
    [op |-> op, from |-> from, to |-> to, top |-> top, mode |-> mode]

VARIABLES
    disk,        \* what is at every path
    cache,       \* _cache, the table in memory
    stored,      \* the table that /.pythonultra_permissions reads as
    job,         \* tasks left, the next one first
    clipboard,   \* paths and kinds: [mode, items]
    intent,      \* history: the mode that the user gave what is at a path
    suspect,     \* history: paths whose entry a fault or a script made wrong
    unsaved,     \* history: the last _save(), or the _load() after it, failed
    faults       \* how many of the bounded events happened

history == <<intent, suspect, unsaved, faults>>
vars    == <<disk, cache, stored, job, clipboard, history>>

(* What os.stat() says of p, unless it fails. *)
_exists(p) == disk[p] # Absent
_is_dir(p) == disk[p] = Folder
Is_file(p) == _exists(p) /\ ~_is_dir(p)

(* The folders, the root among them; where p would be created is one. *)
Folders == {<<>>} \cup {p \in Paths : _is_dir(p)}

Has_parent(p) == Parent(p) \in Folders

Default(what) == IF what = Folder THEN DEFAULT_DIR_MODE ELSE DEFAULT_FILE_MODE

get_mode(p) == IF cache[p] # None THEN cache[p] ELSE Default(disk[p])

readable(p) == "r" \in get_mode(p)

(* Mutant: the check looks at the default instead of the table. *)
writable_default(p) == "w" \in Default(disk[p])

writable(p) == "w" \in get_mode(p)

NoClipboard == [mode |-> "none", items |-> <<>>]

Init ==
    /\ disk = [p \in Paths |-> Absent]
    /\ cache = NoTable /\ stored = NoTable
    /\ job = <<>> /\ clipboard = NoClipboard
    /\ intent = [p \in Paths |-> DEFAULT_FILE_MODE]
    /\ suspect = {} /\ unsaved = FALSE /\ faults = 0

(* The paths in a folder, at any depth, itself included. *)
Inside == [q \in Paths |-> {p \in Paths : Within(p, q)}]

Holds_nothing(p) == \A q \in Inside[p] : _exists(q) => q = p

Idle == job = <<>>
Room == Cardinality({q \in Paths : _exists(q)}) + faults < MaxItems

Put(p, what) == disk' = [disk EXCEPT ![p] = what]
Fault == faults < MaxFaults /\ faults' = faults + 1

-----------------------------------------------------------------------------
(* The table.  Its file is rewritten in place; what is left of a line that
   is cut short may read as an entry of another path. *)

CutShort(c) ==
    UNION {{[q \in Paths |-> IF q \in stem THEN c[p]
                             ELSE IF Before(q, p) THEN c[q] ELSE None] :
                stem \in {{}} \cup {{r} : r \in Stems[p]}} :
           p \in {p \in Paths : c[p] # None}}

(* _save() tells nobody that it failed. *)
_save(c) ==
    \/ stored' = c /\ unsaved' = FALSE /\ UNCHANGED faults
    \/ stored' \in {stored} \cup CutShort(c) /\ unsaved' = TRUE /\ Fault

(* Mutant: the fourth digit of a mode is not masked off. *)
chmod_unmasked(p, m) ==
    /\ cache' = [cache EXCEPT ![p] = m \cup {"sticky"}]
    /\ _save(cache')
    /\ suspect' = suspect \ {p}

(* chmod(path, mode) *)
perm_chmod(p, m) ==
    /\ cache' = [cache EXCEPT ![p] = m]
    /\ _save(cache')
    /\ suspect' = suspect \ {p}

(* Mutant: the table is saved only if the path had an entry of its own. *)
remove_unsaved(p) ==
    /\ cache' = [q \in Paths |-> IF q \in Inside[p] THEN None ELSE cache[q]]
    /\ IF cache[p] = None /\ cache' # cache THEN _save(cache')
       ELSE UNCHANGED <<stored, unsaved, faults>>
    /\ suspect' = suspect \ {q \in Inside[p] : ~_exists(q)}

(* remove(path): its entry and those below it. *)
perm_remove(p) ==
    /\ cache' = [q \in Paths |-> IF q \in Inside[p] THEN None ELSE cache[q]]
    /\ IF cache' # cache THEN _save(cache') ELSE UNCHANGED <<stored, unsaved, faults>>
    /\ suspect' = suspect \ {q \in Inside[p] : ~_exists(q)}

(* Mutant: only the entry of the folder itself moves. *)
move_one(old, new) ==
    /\ cache' = [cache EXCEPT ![new] = IF cache[old] # None THEN cache[old] ELSE cache[new],
                              ![old] = None]
    /\ IF cache' # cache THEN _save(cache') ELSE UNCHANGED <<stored, unsaved, faults>>
    /\ suspect' = (suspect \ Inside[old])
                    \cup {q \in Inside[new] : Rebase(q, new, old) \in suspect}

(* move(old_path, new_path): entries move with what they belong to.  Where
   there is no entry to move, one that was left at the new name stays. *)
perm_move(old, new) ==
    LET from(q) == Rebase(q, new, old)
        moves(q) == q \in Inside[new] /\ from(q) \in Paths
    IN  /\ cache' = [q \in Paths |->
               IF moves(q) /\ cache[from(q)] # None THEN cache[from(q)]
               ELSE IF q \in Inside[old] THEN None ELSE cache[q]]
        /\ IF cache' # cache THEN _save(cache') ELSE UNCHANGED <<stored, unsaved, faults>>
        /\ suspect' = (suspect \ Inside[old])
                        \cup {q \in Paths : moves(q) /\ from(q) \in suspect}

-----------------------------------------------------------------------------
(* The tools begin an operation: the check, and what it does to the storage.
   An operation that fails there leaves everything as it was. *)

(* The commands of the terminal: the file manager, with its clipboard, has
   been left.  What asks for a name in the file manager, input_bar(), calls a
   function that pyeditor does not have and raises before anything is done. *)
In_terminal == Idle /\ clipboard = NoClipboard

(* The editor, which the file manager calls too, checks the file and its
   folder. *)
May_save(p) == writable(p) /\ (Len(p) > 1 => writable(Parent(p)))

(* mkdir, touch, unzip; a new file of the editor. *)
create(p, what) ==
    /\ In_terminal \/ (Idle /\ what # Folder /\ May_save(p))
    /\ ~_exists(p) /\ Has_parent(p) /\ Room
    /\ Put(p, what)
    /\ intent' = [intent EXCEPT ![p] = Default(what)]
    /\ UNCHANGED <<cache, stored, job, clipboard, suspect, unsaved, faults>>

(* The editor saves a file; PyEditor has the steps. *)
save_file(p, t) ==
    /\ Idle /\ Is_file(p) /\ May_save(p)
    /\ Put(p, t)
    /\ UNCHANGED <<cache, stored, job, clipboard, history>>

(* A reset between the renames of a save: the text is under the name of the
   backup, and the file's own name is free but has its entry. *)
save_interrupted(p) ==
    /\ Idle /\ Is_file(p) /\ May_save(p) /\ Fault
    /\ Put(p, Absent)
    /\ intent' = [intent EXCEPT ![p] = DEFAULT_FILE_MODE]
    /\ suspect' = IF cache[p] = None THEN suspect ELSE suspect \cup {p}
    /\ clipboard' = NoClipboard
    /\ UNCHANGED <<cache, stored, job, unsaved>>

(* cp: the target keeps its mode, or has the default one.  It is emptied
   before the source is read, and an error leaves it torn. *)
cp(p, q) ==
    /\ In_terminal /\ Is_file(p) /\ readable(p)
    /\ ~_is_dir(q) /\ Has_parent(q)
    /\ IF _exists(q) THEN writable(q) ELSE Room
    /\ \/ Put(q, IF p = q THEN Empty ELSE disk[p]) /\ UNCHANGED faults
       \/ Put(q, Torn) /\ Fault
    /\ intent' = [intent EXCEPT ![q] = IF _exists(q) THEN @ ELSE DEFAULT_FILE_MODE]
    /\ UNCHANGED <<cache, stored, job, clipboard, suspect, unsaved>>

(* cp when os.stat() of the target fails: its mode is not looked at. *)
cp_unseen(p, q) ==
    /\ In_terminal /\ Is_file(p) /\ readable(p)
    /\ Is_file(q) /\ Fault
    /\ Put(q, IF p = q THEN Empty ELSE disk[p]) \/ Put(q, Torn)
    /\ UNCHANGED <<cache, stored, job, clipboard, intent, suspect, unsaved>>

chmod(p, m) ==
    /\ Idle /\ _exists(p)
    /\ Cardinality({q \in Paths : cache[q] # None \/ stored[q] # None}) < MaxEntries
    /\ perm_chmod(p, m)
    /\ intent' = [intent EXCEPT ![p] = m]
    /\ UNCHANGED <<disk, job, clipboard>>

(* rm, rmdir, Files > Delete: a folder must be empty. *)
delete(p) ==
    /\ Idle /\ _exists(p) /\ writable(p)
    /\ Holds_nothing(p)
    /\ Put(p, Absent)
    /\ intent' = [intent EXCEPT ![p] = DEFAULT_FILE_MODE]
    /\ job' = <<Task("remove", p, p, p, {})>>
    /\ UNCHANGED <<cache, stored, clipboard, suspect, unsaved, faults>>

(* When os.rename() succeeds; everything in p goes along. *)
Can_rename(p, q) ==
    /\ _exists(p) /\ ~_exists(q) /\ Has_parent(q) /\ q \notin Inside[p]
    /\ \A r \in Inside[p] : _exists(r) => Rebase(r, p, q) \in Paths

Renamed(f, p, q, gone) ==
    [r \in Paths |-> IF r \in Inside[q] /\ Rebase(r, q, p) \in Paths THEN f[Rebase(r, q, p)]
                     ELSE IF r \in Inside[p] THEN gone ELSE f[r]]

Rename(p, q) ==
    /\ Can_rename(p, q) /\ writable(p)
    /\ disk' = Renamed(disk, p, q, Absent)
    /\ intent' = Renamed(intent, p, q, DEFAULT_FILE_MODE)

mv(p, q) ==
    /\ In_terminal
    /\ Rename(p, q)
    /\ job' = <<Task("move", p, q, q, {})>>
    /\ UNCHANGED <<cache, stored, clipboard, suspect, unsaved, faults>>

-----------------------------------------------------------------------------
(* The clipboard of the file manager. *)

(* What is marked in one folder, in the order that its list is sorted in. *)
set_clipboard(mode, marked) ==
    /\ Idle
    /\ \A n \in DOMAIN marked : _exists(marked[n]) /\ Parent(marked[n]) = Parent(marked[1])
    /\ \A n, k \in DOMAIN marked : marked[n] = marked[k] => n = k
    /\ clipboard' = [mode  |-> mode,
                     items |-> [n \in DOMAIN marked |->
                                    [path |-> marked[n], is_dir |-> _is_dir(marked[n])]]]
    /\ UNCHANGED <<disk, cache, stored, job, history>>

(* Clear clipboard, or leaving the file manager. *)
clear_clipboard ==
    /\ Idle /\ clipboard # NoClipboard
    /\ clipboard' = NoClipboard
    /\ UNCHANGED <<disk, cache, stored, job, history>>

(* Paste into a folder, <<>> for the root: one task for each item. *)
paste_clipboard(folder) ==
    /\ Idle /\ clipboard.items # <<>>
    /\ folder \in Folders
    /\ job' = [n \in DOMAIN clipboard.items |->
                  LET src == clipboard.items[n].path
                      dst == folder \o <<Last(src)>>
                  IN  Task("paste", src, dst, dst, {})]
    /\ UNCHANGED <<disk, cache, stored, clipboard, history>>

(* A cut item that went through leaves the clipboard. *)
Pasted(src) ==
    \E n \in DOMAIN clipboard.items :
        LET left == RemoveAt(clipboard.items, n)
        IN  /\ clipboard.items[n].path = src
            /\ clipboard' = IF left = <<>> THEN NoClipboard ELSE [clipboard EXCEPT !.items = left]

(* The kind of an item is the one it had when it was marked. *)
Marked_dir(src) == \E n \in DOMAIN clipboard.items :
                       clipboard.items[n] = [path |-> src, is_dir |-> TRUE]

(* One turn of the loop of paste_clipboard(): it is passed over, or moved,
   or copied.  A cut of what has no write access is passed over. *)
paste ==
    /\ job # <<>> /\ Head(job).op = "paste"
    /\ LET src == Head(job).from dst == Head(job).to IN
       \/ job' = Tail(job) /\ UNCHANGED <<disk, intent, clipboard>>
       \/ /\ clipboard.mode = "cut" /\ dst \in Paths /\ dst # src
          /\ Rename(src, dst) /\ Pasted(src)
          /\ job' = <<Task("move", src, dst, dst, {})>> \o Tail(job)
       \/ /\ clipboard.mode = "copy" /\ dst \in Paths /\ dst # src
          /\ _exists(src) /\ ~_exists(dst) /\ dst \notin Inside[src]
          /\ job' = <<Task(IF Marked_dir(src) THEN "copy_tree" ELSE "copy_file",
                            src, dst, dst, {})>> \o Tail(job)
          /\ UNCHANGED <<disk, intent, clipboard>>
    /\ UNCHANGED <<cache, stored, suspect, unsaved, faults>>

Copied(dst, what, mode) ==
    /\ Put(dst, what)
    /\ intent' = [intent EXCEPT ![dst] = mode]

(* An exception leaves every level of the copy; the rest of the paste goes
   on once its target is removed. *)
Copy_fails(top) ==
    \E k \in DOMAIN job :
        /\ \A n \in DOMAIN job : job[n].op = "paste" <=> n > k
        /\ job' = <<Task("undo", top, top, top, {})>> \o SubSeq(job, k + 1, Len(job))

(* require_read() comes before the try: if it raises for what was marked,
   there is no target to remove. *)
Refused(dst, top) == IF dst = top THEN job' = Tail(job) ELSE Copy_fails(top)

(* _copy_file(): an error may leave part of the target. *)
_copy_file ==
    /\ job # <<>> /\ Head(job).op = "copy_file"
    /\ LET src == Head(job).from dst == Head(job).to top == Head(job).top
           can == Is_file(src) /\ readable(src)
       IN
       \/ /\ can /\ Copied(dst, disk[src], get_mode(src)) /\ UNCHANGED faults
          /\ job' = <<Task("chmod", dst, dst, top, get_mode(src))>> \o Tail(job)
       \/ /\ readable(src) /\ Copy_fails(top)
          /\ IF can THEN Copied(dst, Torn, DEFAULT_FILE_MODE) /\ Fault
             ELSE UNCHANGED <<disk, intent, faults>>
       \/ ~readable(src) /\ Refused(dst, top) /\ UNCHANGED <<disk, intent, faults>>
    /\ UNCHANGED <<cache, stored, clipboard, suspect, unsaved>>

(* _copy_tree(): the folder and its mode, then what the source holds. *)
_copy_tree ==
    /\ job # <<>> /\ Head(job).op = "copy_tree"
    /\ LET src == Head(job).from dst == Head(job).to top == Head(job).top IN
       \/ /\ readable(src) /\ Copied(dst, Folder, get_mode(src)) /\ UNCHANGED faults
          /\ job' = <<Task("chmod", dst, dst, top, get_mode(src)),
                      Task("list", src, dst, top, {})>> \o Tail(job)
       \/ readable(src) /\ Copy_fails(top) /\ Fault /\ UNCHANGED <<disk, intent>>
       \/ ~readable(src) /\ Refused(dst, top) /\ UNCHANGED <<disk, intent, faults>>
    /\ UNCHANGED <<cache, stored, clipboard, suspect, unsaved>>

(* os.listdir(src), in any order; it raises if src has become a file since
   it was marked. *)
listdir ==
    /\ job # <<>> /\ Head(job).op = "list"
    /\ LET src == Head(job).from dst == Head(job).to top == Head(job).top
           held == {p \in Paths : _exists(p) /\ Len(p) = Len(src) + 1 /\ Within(p, src)}
           can == _is_dir(src) /\ \A p \in held : Rebase(p, src, dst) \in Paths
       IN
       \/ /\ can
          /\ \E names \in SetToSeqs(held) :
                job' = [n \in DOMAIN names |->
                           Task(IF _is_dir(names[n]) THEN "copy_tree" ELSE "copy_file",
                                names[n], Rebase(names[n], src, dst), top, {})] \o Tail(job)
       \/ ~can /\ Copy_fails(top)
    /\ UNCHANGED <<disk, cache, stored, clipboard, history>>

(* paste when os.stat() of the target of a copy fails: the target is taken
   for free.  A file is copied over a file.  A folder cannot be made there,
   nor a file where a folder is, and to undo the copy removes the target. *)
paste_unseen ==
    /\ job # <<>> /\ Head(job).op = "paste" /\ clipboard.mode = "copy" /\ Fault
    /\ LET src == Head(job).from dst == Head(job).to
           undo == job' = <<Task("undo", dst, dst, dst, {})>> \o Tail(job)
           over == ~Marked_dir(src) /\ Is_file(src) /\ Is_file(dst)
       IN
       /\ dst \in Paths /\ dst # src /\ _exists(src) /\ _exists(dst) /\ readable(src)
       /\ Marked_dir(src) => dst \notin Inside[src]
       /\ \/ /\ over /\ Copied(dst, disk[src], get_mode(src))
             /\ job' = <<Task("chmod", dst, dst, dst, get_mode(src))>> \o Tail(job)
          \/ over /\ Put(dst, Torn) /\ undo /\ UNCHANGED intent
          \/ ~over /\ undo /\ UNCHANGED <<disk, intent>>
    /\ UNCHANGED <<cache, stored, clipboard, suspect, unsaved>>

(* Those of the paths ps that are wrong with the table c. *)
Wrong(ps, c) ==
    {p \in ps : IF ~_exists(p) THEN c[p] # None
                ELSE intent[p] # IF c[p] # None THEN c[p] ELSE Default(disk[p])}

(* _remove_tree(): what has nothing in it goes first; an error leaves the
   rest where it is, and an error of os.stat() loses its entries as well. *)
_remove_tree ==
    /\ job # <<>> /\ Head(job).op = "undo"
    /\ LET top == Head(job).top IN
       \/ \E p \in Inside[top] :
             /\ _exists(p)
             /\ Holds_nothing(p)
             /\ Copied(p, Absent, DEFAULT_FILE_MODE)
             /\ job' = <<Task("remove", p, p, p, {})>> \o job
             /\ UNCHANGED <<suspect, faults>>
       \/ /\ ~_exists(top)
          /\ job' = <<Task("remove", top, top, top, {})>> \o Tail(job)
          /\ UNCHANGED <<disk, intent, suspect, faults>>
       \/ _exists(top) /\ job' = Tail(job) /\ Fault /\ UNCHANGED <<disk, intent, suspect>>
       \/ \E p \in Inside[top] :
             /\ _exists(p) /\ Fault
             /\ job' = <<Task("remove", p, p, p, {})>> \o Tail(job)
             /\ suspect' = suspect \cup Wrong(Inside[p], NoTable)
             /\ UNCHANGED <<disk, intent>>
    /\ UNCHANGED <<cache, stored, clipboard, unsaved>>

(* The call of pyperm that ends an operation.  chmod() raises when os.stat()
   fails, which the copy passes over. *)
table ==
    /\ job # <<>> /\ Head(job).op \in {"chmod", "remove", "move"}
    /\ LET t == Head(job) IN
       \/ t.op = "chmod"  /\ perm_chmod(t.to, t.mode)
       \/ /\ t.op = "chmod" /\ Fault
          /\ suspect' = suspect \cup Wrong({t.to}, cache)
          /\ UNCHANGED <<cache, stored, unsaved>>
       \/ t.op = "remove" /\ perm_remove(t.to)
       \/ t.op = "move"   /\ perm_move(t.from, t.to)
    /\ job' = Tail(job)
    /\ UNCHANGED <<disk, clipboard, intent>>

-----------------------------------------------------------------------------
(* What the tools do not control. *)

(* The paths whose entries the operation in hand has yet to write. *)
InHand == UNION {Inside[job[n].from] \cup Inside[job[n].top] :
                     n \in {n \in DOMAIN job : job[n].op # "paste"}}

(* AC/ON: KeyboardInterrupt leaves the operation where it is, and with it
   the file manager. *)
interrupt ==
    /\ ~Idle /\ Fault
    /\ job' = <<>> /\ clipboard' = NoClipboard
    /\ suspect' = suspect \cup Wrong(InHand, cache)
    /\ UNCHANGED <<disk, cache, stored, intent, unsaved>>

(* _load() passes over an error: what was read before it is the table. *)
Read_before(p) == [q \in Paths |-> IF Before(q, p) THEN stored[q] ELSE None]

(* A reset: pyperm loads the table again. *)
restart ==
    /\ Fault
    /\ \/ cache' = stored /\ unsaved' = FALSE
       \/ (\E p \in Paths : cache' = Read_before(p)) /\ unsaved' = TRUE
    /\ job' = <<>> /\ clipboard' = NoClipboard
    /\ suspect' = suspect \cup
           Wrong(InHand \cup {p \in Paths : cache'[p] # cache[p]}, cache')
    /\ UNCHANGED <<disk, stored, intent>>

(* A program writes a file, or removes something, with open() and os. *)
script(p) ==
    /\ Idle /\ Fault
    /\ \/ Is_file(p) /\ (\E t \in Texts : Put(p, t)) /\ UNCHANGED <<intent, suspect>>
       \/ /\ _exists(p) /\ Holds_nothing(p)
          /\ Copied(p, Absent, DEFAULT_FILE_MODE)
          /\ suspect' = IF cache[p] = None THEN suspect ELSE suspect \cup {p}
    /\ UNCHANGED <<cache, stored, job, clipboard, unsaved>>

Selections == UNION {[1 .. n -> Paths] : n \in 1 .. MaxMarked}

Next ==
    \/ \E p \in Paths : \/ \E what \in {Empty, Folder} : create(p, what)
                        \/ \E t \in Texts : save_file(p, t)
                        \/ save_interrupted(p)
                        \/ \E q \in Paths : cp(p, q) \/ cp_unseen(p, q) \/ mv(p, q)
                        \/ \E m \in Modes : chmod(p, m)
                        \/ delete(p) \/ script(p)
    \/ \E marked \in Selections, mode \in {"copy", "cut"} : set_clipboard(mode, marked)
    \/ clear_clipboard
    \/ \E folder \in Paths \cup {<<>>} : paste_clipboard(folder)
    \/ paste \/ paste_unseen \/ _copy_file \/ _copy_tree \/ listdir \/ _remove_tree
    \/ table \/ interrupt \/ restart

Spec == Init /\ [][Next]_vars

-----------------------------------------------------------------------------
(* Types. *)
Tasks == [op : {"paste", "copy_file", "copy_tree", "list", "undo", "chmod", "remove", "move"},
          from : Paths, to : Seq(Nat), top : Seq(Nat), mode : AllModes]

TypeOK ==
    /\ disk \in [Paths -> Texts \cup {Absent, Folder, Torn}]
    /\ \A p \in Paths : _exists(p) => Has_parent(p)
    /\ cache \in Tables /\ stored \in Tables
    /\ job \in Seq(Tasks)
    /\ clipboard \in [mode : {"none", "copy", "cut"},
                     items : Seq([path : Paths, is_dir : BOOLEAN])]
    /\ intent \in [Paths -> AllModes]
    /\ suspect \subseteq Paths /\ unsaved \in BOOLEAN /\ faults \in 0 .. MaxFaults

(* The mode that the tools enforce for a file or folder is the one the user
   gave it, however it was renamed, moved, copied or recreated since, and a
   name that is free has no entry that a new file would inherit.  Excepted
   are the names that a fault or a script made suspect. *)
ModeFollows ==
    Idle => \A p \in Paths \ suspect :
                IF _exists(p) THEN get_mode(p) = intent[p] ELSE cache[p] = None

(* "Permission records are stored persistently": unless the last save failed,
   or the load after the last reset did, the file holds the table, so that a
   reset after which it can be read changes no mode. *)
Persistent == Idle /\ ~unsaved => stored = cache

(* The paths that the operation in hand makes, or takes back. *)
Made == UNION {Inside[job[n].top] : n \in {n \in DOMAIN job : job[n].op # "paste"}}

(* No tool changes, moves or removes a file whose mode, as the user gave it,
   has no write access: neither directly nor while it pastes, nor while it
   undoes a copy, for no such file is where an operation begins to make or to
   take back something.  What is in a folder goes where the folder goes. *)
ProtectedStep ==
    \A p \in Paths \ suspect :
        Is_file(p) /\ "w" \notin intent[p] =>
            /\ p \in Made' => p \in Made
            /\ \/ p \in Made \/ disk'[p] = disk[p]
               \/ \E q, r \in Paths : Within(p, q) /\ p # q
                                      /\ disk' = Renamed(disk, q, r, Absent)

(* Scripts do not ask; and os.stat() may fail for the target. *)
ProtectedKept ==
    [][\/ ProtectedStep \/ paste_unseen
       \/ \E p, q \in Paths : script(p) \/ cp_unseen(p, q)]_vars
=============================================================================
