------------------------------- MODULE ZipFile ------------------------------
(***************************************************************************)
(* ZIP archives (modules/zipfile): compress() and extract().               *)
(*                                                                         *)
(* One action is one operation on the storage, which may raise OSError.    *)
(* extract() notes the files and folders it creates, and its handler       *)
(* "except Exception" gives them to _cleanup().  KeyboardInterrupt is not  *)
(* an Exception: AC/ON, like a reset, leaves what is there.                *)
(*                                                                         *)
(* The archive file is a sequence of members; byte layouts, DEFLATE and    *)
(* CRC are the fault of a member.  The storage is external.                *)
(***************************************************************************)
EXTENDS PathNames

CONSTANTS
    Paths,        \* absolute paths, sequences of names; names are numbers
    Texts,        \* what a file may hold
    Source,       \* what compress() is given
    Destination,  \* where extract() puts the members
    Archives      \* archives made elsewhere, sequences of members

Absent == "absent"
Folder == "folder"
Torn   == "torn"     \* a file being written

ASSUME TextsAreFiles == Texts # {} /\ Texts \cap {Absent, Folder, Torn} = {}

ASSUME PathsAssumption ==
    /\ Paths \subseteq Seq(Nat) \ {<<>>}
    /\ \A p \in Paths : \A n \in 1 .. Len(p) : Prefix(p, n) \in Paths
    /\ Source \in Paths /\ Destination \in Paths

(* What is wrong with a member: nothing; found on its name or flags; found
   in its local header; found in its method, data, size or CRC. *)
Faults == {"none", "entry", "header", "data"}

(* A member's path is relative to the destination; one that is <<>> is what
   _safe_name() makes of a name such as "./". *)
Members == [path : Seq(Nat), folder : BOOLEAN, text : Texts \cup {Torn}, fault : Faults]

ASSUME ArchivesAssumption ==
    /\ Archives \subseteq Seq(Members)
    /\ \A a \in Archives : \A i \in DOMAIN a : Destination \o a[i].path \in Paths

ASSUME SourceFits ==
    \A p \in Paths : Within(p, Source)
        => Destination \o SubSeq(p, Len(Source), Len(p)) \in Paths

VARIABLES
    disk,       \* what is at every path
    archive,    \* the archive file: [state, members]
    pc,         \* the next operation
    i,          \* the member in hand
    goal, depth,                      \* _mkdirs(): its path, and how far it is
    created_files, created_folders,   \* the locals of extract()
    before,     \* history: the disk when extract() was called
    kept,       \* history: a removal of _cleanup() failed
    origin      \* history: the disk that compress() read; <<>> for other archives

locals  == <<i, goal, depth, created_files, created_folders>>
history == <<before, kept, origin>>
vars    == <<disk, archive, pc, locals, history>>

NoArchive == [state |-> "absent", members |-> <<>>]
Ended     == {"done", "failed", "interrupted"}
Running   == {"mkdirs", "member", "open", "write", "clean"}

(* Every path that is there lies in a folder. *)
Tree(d) == \A p \in Paths : d[p] # Absent /\ Len(p) > 1 => d[Parent(p)] = Folder

Init ==
    /\ disk \in [Paths -> Texts \cup {Absent, Folder}] /\ Tree(disk)
    /\ archive = NoArchive
    /\ pc = "idle"
    /\ i = 1 /\ goal = <<>> /\ depth = 1
    /\ created_files = <<>> /\ created_folders = <<>>
    /\ before = disk /\ kept = FALSE /\ origin = <<>>

-----------------------------------------------------------------------------
(* compress() *)

(* Mutant: folders get no entry of their own. *)
walk_files == {p \in Paths : Within(p, Source) /\ disk[p] \notin {Absent, Folder}}

(* The source and all it holds. *)
_walk == {p \in Paths : Within(p, Source) /\ disk[p] # Absent}

(* The name in the archive starts at the source's own name.  What is left of
   a file that was not written to its end is archived like any other text. *)
Entry(p) == [path   |-> SubSeq(p, Len(Source), Len(p)),
             folder |-> disk[p] = Folder,
             text   |-> IF disk[p] = Folder THEN CHOOSE t \in Texts : TRUE ELSE disk[p],
             fault  |-> "none"]

(* What the walk has not come to yet. *)
Left == {p \in _walk : \A n \in DOMAIN archive.members : archive.members[n] # Entry(p)}

(* The target must not exist; open(archive, "wb") creates it. *)
compress ==
    /\ pc = "idle"
    /\ archive.state = "absent"
    /\ archive' = [state |-> "partial", members |-> <<>>]
    /\ pc' = "compress"
    /\ UNCHANGED <<disk, locals, history>>

(* The next of them, in the order of the walk. *)
_write_entry ==
    /\ pc = "compress"
    /\ \E p \in Left :
         /\ \A q \in Left \ {p} : Before(p, q)
         /\ archive' = [archive EXCEPT !.members = Append(@, Entry(p))]
    /\ UNCHANGED <<disk, pc, locals, history>>

(* The central directory and the end record make it an archive. *)
compress_end ==
    /\ pc = "compress"
    /\ Left = {}
    /\ archive.members # <<>>
    /\ archive' = [archive EXCEPT !.state = "whole"]
    /\ origin' = disk
    /\ pc' = "idle"
    /\ UNCHANGED <<disk, locals, before, kept>>

(* An error removes the archive; an absent source is one. *)
compress_error ==
    /\ pc = "compress"
    /\ \/ archive' = NoArchive
       \/ UNCHANGED archive        \* os.remove() raised, or KeyboardInterrupt
    /\ pc' = "idle"
    /\ UNCHANGED <<disk, locals, history>>

(* An archive from elsewhere takes its place, or the user removes it. *)
supply(a) ==
    /\ pc = "idle"
    /\ archive.state = "absent"
    /\ archive' = [state |-> "whole", members |-> a] /\ origin' = <<>>
    /\ UNCHANGED <<disk, pc, locals, before, kept>>

discard ==
    /\ pc = "idle"
    /\ archive.state # "absent"
    /\ archive' = NoArchive /\ origin' = <<>>
    /\ UNCHANGED <<disk, pc, locals, before, kept>>

-----------------------------------------------------------------------------
(* extract() *)

member == archive.members[i]
target == Destination \o member.path

Raise == pc' = "clean" /\ UNCHANGED <<disk, locals>>
Next_member == pc' = "member" /\ i' = i + 1 /\ goal' = <<>> /\ depth' = 1

(* Mutant: the part before the first slash is not skipped. *)
mkdirs_root(path) == pc' = "mkdirs" /\ goal' = path /\ depth' = 0

_mkdirs(path) == pc' = "mkdirs" /\ goal' = path /\ depth' = 1

(* _entries() reads the whole directory of the archive, or raises, before
   the destination is made. *)
extract ==
    /\ pc = "idle"
    /\ archive.state # "absent"
    /\ before' = disk /\ kept' = FALSE
    /\ i' = 0
    /\ \/ archive.state = "whole" /\ _mkdirs(Destination)
       \/ pc' = "clean" /\ UNCHANGED <<goal, depth>>
    /\ UNCHANGED <<disk, archive, created_files, created_folders, origin>>

(* One turn of _mkdirs(): os.mkdir() fails on what is there, which only
   matters if it is not a folder. *)
mkdir ==
    /\ pc = "mkdirs" /\ depth <= Len(goal)
    /\ LET current == Prefix(goal, depth) IN
       \/ /\ disk[current] = Absent
          /\ disk' = [disk EXCEPT ![current] = Folder]
          /\ created_folders' = Append(created_folders, current)
          /\ depth' = depth + 1
          /\ UNCHANGED <<pc, i, goal, created_files>>
       \/ /\ disk[current] = Folder
          /\ depth' = depth + 1
          /\ UNCHANGED <<disk, pc, i, goal, created_files, created_folders>>
       \/ disk[current] # Folder /\ Raise
    /\ UNCHANGED <<archive, history>>

(* The folders are there: on to the first member, to the next one, or to
   the file that goes into them. *)
mkdirs_end ==
    /\ pc = "mkdirs" /\ depth > Len(goal)
    /\ IF i = 0 \/ member.folder
       THEN Next_member
       ELSE pc' = "open" /\ goal' = <<>> /\ depth' = 1 /\ UNCHANGED i
    /\ UNCHANGED <<disk, archive, created_files, created_folders, history>>

(* The checks of a member's flags and name, and its folders. *)
enter ==
    /\ pc = "member" /\ i <= Len(archive.members)
    /\ \/ member.fault = "entry" /\ Raise
       \/ /\ member.fault # "entry" /\ member.path = <<>>
          /\ Next_member /\ UNCHANGED <<disk, created_files, created_folders>>
       \/ /\ member.fault # "entry" /\ member.path # <<>>
          /\ _mkdirs(IF member.folder THEN target ELSE Parent(target))
          /\ UNCHANGED <<disk, i, created_files, created_folders>>
    /\ UNCHANGED <<archive, history>>

(* Mutant: an existing target is not looked for. *)
open_over ==
    /\ pc = "open"
    /\ IF disk[target] # Folder /\ member.fault # "header"
       THEN /\ disk' = [disk EXCEPT ![target] = Torn]
            /\ created_files' = Append(created_files, target)
            /\ pc' = "write"
            /\ UNCHANGED <<i, goal, depth, created_folders>>
       ELSE Raise
    /\ UNCHANGED <<archive, history>>

(* The target must not exist, then the local header must be good, then
   open(target, "wb") creates the file or raises. *)
open ==
    /\ pc = "open"
    /\ \/ /\ disk[target] = Absent /\ member.fault # "header"
          /\ disk' = [disk EXCEPT ![target] = Torn]
          /\ created_files' = Append(created_files, target)
          /\ pc' = "write"
          /\ UNCHANGED <<i, goal, depth, created_folders>>
       \/ Raise
    /\ UNCHANGED <<archive, history>>

(* Mutant: size and CRC are not compared. *)
write_unverified ==
    /\ pc = "write"
    /\ disk' = [disk EXCEPT ![target] = IF member.fault = "data" THEN Torn ELSE member.text]
    /\ Next_member
    /\ UNCHANGED <<created_files, created_folders, archive, history>>

(* The blocks are written, then size and CRC are compared. *)
write ==
    /\ pc = "write"
    /\ \/ /\ member.fault # "data"
          /\ disk' = [disk EXCEPT ![target] = member.text]
          /\ Next_member
          /\ UNCHANGED <<created_files, created_folders>>
       \/ Raise
    /\ UNCHANGED <<archive, history>>

extract_end ==
    /\ pc = "member" /\ i > Len(archive.members)
    /\ pc' = "done"
    /\ UNCHANGED <<disk, archive, locals, history>>

(* Mutant: folders are removed in the order in which they were made. *)
cleanup_forward ==
    /\ pc = "clean"
    /\ \/ /\ created_files # <<>>
          /\ created_files' = Front(created_files)
          /\ disk' = [disk EXCEPT ![Last(created_files)] = Absent]
          /\ UNCHANGED <<pc, created_folders, kept>>
       \/ /\ created_files = <<>> /\ created_folders # <<>>
          /\ created_folders' = Tail(created_folders)
          /\ disk' = [disk EXCEPT ![Head(created_folders)] =
                 IF \A p \in Paths : disk[p] = Absent \/ Len(p) = 1
                                        \/ Parent(p) # Head(created_folders)
                 THEN Absent ELSE Folder]
          /\ UNCHANGED <<pc, created_files, kept>>
       \/ /\ created_files = <<>> /\ created_folders = <<>>
          /\ pc' = "failed"
          /\ UNCHANGED <<disk, created_files, created_folders, kept>>
    /\ UNCHANGED <<archive, i, goal, depth, before, origin>>

(* One turn of _cleanup(), files then folders, each from the last: rmdir()
   needs an empty folder, and any OSError is passed over. *)
_cleanup ==
    /\ pc = "clean"
    /\ \/ /\ created_files # <<>>
          /\ created_files' = Front(created_files)
          /\ \/ disk' = [disk EXCEPT ![Last(created_files)] = Absent] /\ UNCHANGED kept
             \/ UNCHANGED disk /\ kept' = TRUE
          /\ UNCHANGED <<pc, created_folders>>
       \/ /\ created_files = <<>> /\ created_folders # <<>>
          /\ created_folders' = Front(created_folders)
          /\ \/ /\ \A p \in Paths : disk[p] # Absent /\ Len(p) > 1
                                       => Parent(p) # Last(created_folders)
                /\ disk' = [disk EXCEPT ![Last(created_folders)] = Absent]
                /\ UNCHANGED kept
             \/ /\ \E p \in Paths : disk[p] # Absent /\ Len(p) > 1
                                       /\ Parent(p) = Last(created_folders)
                /\ UNCHANGED <<disk, kept>>
             \/ UNCHANGED disk /\ kept' = TRUE
          /\ UNCHANGED <<pc, created_files>>
       \/ /\ created_files = <<>> /\ created_folders = <<>>
          /\ pc' = "failed"
          /\ UNCHANGED <<disk, created_files, created_folders, kept>>
    /\ UNCHANGED <<archive, i, goal, depth, before, origin>>

(* AC/ON raises KeyboardInterrupt, or the calculator is reset. *)
interrupt ==
    /\ pc \in Running
    /\ pc' = "interrupted"
    /\ UNCHANGED <<disk, archive, locals, history>>

(* extract() is left, with its locals. *)
return ==
    /\ pc \in Ended
    /\ pc' = "idle"
    /\ i' = 1 /\ goal' = <<>> /\ depth' = 1
    /\ created_files' = <<>> /\ created_folders' = <<>>
    /\ UNCHANGED <<disk, archive, history>>

Next ==
    \/ compress \/ _write_entry \/ compress_end \/ compress_error
    \/ \E a \in Archives : supply(a)
    \/ discard
    \/ extract \/ mkdir \/ mkdirs_end \/ enter \/ open \/ write \/ extract_end
    \/ _cleanup \/ interrupt \/ return

Spec == Init /\ [][Next]_vars

-----------------------------------------------------------------------------
(* Types. *)
TypeOK ==
    /\ disk \in [Paths -> Texts \cup {Absent, Folder, Torn}]
    /\ archive \in [state : {"absent", "partial", "whole"}, members : Seq(Members)]
    /\ pc \in Running \cup Ended \cup {"idle", "compress"}
    /\ i \in Nat /\ goal \in Paths \cup {<<>>} /\ depth \in Nat \ {0}
    /\ created_files \in Seq(Paths) /\ created_folders \in Seq(Paths)
    /\ before \in [Paths -> Texts \cup {Absent, Folder, Torn}]
    /\ kept \in BOOLEAN
    /\ origin \in [Paths -> Texts \cup {Absent, Folder, Torn}] \cup {<<>>}

(* Whatever extract() does, at every step, interrupted or failing, and while
   _cleanup() removes things: what was on the disk when it was called is
   unchanged ("Remove only output paths created by the failed operation"). *)
ExistingKept ==
    pc \in Running \cup Ended =>
        \A p \in Paths : before[p] # Absent => disk[p] = before[p]

(* An extraction that fails leaves the disk as it found it, provided that
   each removal of _cleanup() that the storage could do was done: no folder
   stays because it was removed before what it holds. *)
RolledBack == pc = "failed" /\ ~kept => disk = before

(* An extraction that succeeds has put every member in place, whole, and
   nothing but members and the folders they lie in. *)
Extracted ==
    pc = "done" =>
        /\ \A n \in DOMAIN archive.members : LET m == archive.members[n] IN
               m.path # <<>> =>
                   disk[Destination \o m.path] = IF m.folder THEN Folder ELSE m.text
        /\ \A p \in Paths : disk[p] # before[p] =>
               \/ Within(Destination, p)
               \/ \E n \in DOMAIN archive.members :
                      Within(Destination \o archive.members[n].path, p)

(* What compress() read is what extract() makes of its archive, below the
   destination: every file and every folder, empty ones included. *)
RoundTrip ==
    pc = "done" /\ origin # <<>> =>
        \A p \in Paths : Within(p, Source) /\ origin[p] # Absent =>
            disk[Destination \o SubSeq(p, Len(Source), Len(p))] = origin[p]
=============================================================================
