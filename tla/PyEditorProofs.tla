---------------------------- MODULE PyEditorProofs --------------------------
(***************************************************************************)
(* The editor's save is safe for every set of files and texts and every    *)
(* number of siblings.  The invariant says, for each step of a save, under *)
(* which name the old text and the new one are.                            *)
(***************************************************************************)
EXTENDS PyEditor, SumTheorems

USE DEF Absent, Torn, None, Source, Sibling

(* A file that is there holds what was last stored under its name. *)
SourcesCurrent == \A f \in Files : disk[Source(f)] \in {Absent, saved[f]}

(* The locals of a save belong to the file being saved. *)
LocalsOfFile ==
    /\ temporary # None => temporary[1] = filename
    /\ backup # None => backup[1] = filename

(* Where a save has got to. *)
Progress ==
    /\ ~open => pc = "idle"
    /\ pc \in {"idle", "exec"} => temporary = None /\ backup = None
    /\ pc \notin {"idle", "exec"} => ~load_failed
    /\ pc \in {"create", "write", "backup", "publish"} => temporary # None
    /\ pc = "create" => disk[temporary] = Absent
    /\ pc \in {"create", "write", "backup"} => backup = None
    /\ pc \in {"backup", "publish"} => disk[temporary] = lines
    /\ pc \in {"publish", "rollback"} =>
         /\ disk[Source(filename)] = Absent
         /\ backup # None => /\ disk[backup] = saved[filename]
                             /\ disk[backup] # Absent
                             /\ ~dirty => Shows(backup)
    /\ pc = "rollback" => backup # None
    /\ pc = "clean" => disk[Source(filename)] = lines /\ saved[filename] = lines

(* CleanIsStored, also while a save is under way. *)
CleanStored ==
    (open /\ ~dirty /\ ~load_failed) =>
        \/ Shows(Source(filename))
        \/ /\ ~_exists(Source(filename))
           /\ \/ lines = Empty
              \/ \E k \in 0 .. MaxSuffix : Shows(Sibling(filename, "pu-backup", k))

IInv ==
    /\ TypeOK
    /\ Normal[lines] = lines
    /\ NeverTruncated
    /\ SourcesCurrent
    /\ TextKept
    /\ LocalsOfFile
    /\ Progress
    /\ CleanStored

-----------------------------------------------------------------------------
(* Names of different kinds differ. *)
LEMMA Naming ==
    /\ \A f \in Files : /\ Source(f) \in Names
                        /\ Source(f)[1] = f /\ Source(f)[2] = "source"
                        /\ Source(f) # None
    /\ \A e \in {"pu-tmp", "pu-backup"} : \A n \in Siblings(e) :
           /\ n \in Names /\ n[2] = e /\ n[1] \in Files
           /\ n # None
           /\ \E k \in 0 .. MaxSuffix : n = Sibling(n[1], e, k)
    /\ \A e \in {"pu-tmp", "pu-backup"}, f \in Files, k \in 0 .. MaxSuffix :
           Sibling(f, e, k) \in Siblings(e)
  BY DEF Names, Siblings

(* _unused_filename() returns a sibling that is not there, or None. *)
LEMMA Unused ==
    ASSUME NEW f \in Files, NEW e \in {"pu-tmp", "pu-backup"},
           NEW n, n = _unused_filename(f, e), n # None
    PROVE  n \in Siblings(e) /\ n[1] = f /\ disk[n] = Absent
<1> DEFINE unused == {k \in 0 .. MaxSuffix : ~_exists(Sibling(f, e, k))}
           m == CHOOSE k \in unused : \A j \in unused : k <= j
<1>1. unused # {} /\ n = Sibling(f, e, m)
  BY DEF _unused_filename
<1>2. m \in unused
  <2>1. unused \in SUBSET Nat
    BY PyEditorAssumption
  <2> HIDE DEF unused
  <2>2. \E x \in unused : \A y \in unused : x <= y
    BY <1>1, <2>1, LeastNat
  <2> QED BY <2>2
<1>3. m \in 0 .. MaxSuffix /\ disk[Sibling(f, e, m)] = Absent
  BY <1>2 DEF _exists
<1> HIDE DEF m
<1> QED BY <1>1, <1>3, Naming

LEMMA InitOK == Init => IInv
<1> SUFFICES ASSUME Init PROVE IInv
  OBVIOUS
<1>1. TypeOK /\ Normal[lines] = lines
  <2>1. /\ disk \in [Names -> Texts \cup {Absent, Torn}]
        /\ filename \in Files
        /\ lines \in Texts /\ Normal[lines] = lines
    BY PyEditorAssumption DEF Init
  <2>2. saved \in [Files -> Texts \cup {Absent}]
    BY Naming DEF Init
  <2>3. open \in BOOLEAN /\ dirty \in BOOLEAN /\ load_failed \in BOOLEAN
    BY Zenon DEF Init
  <2> QED BY <2>1, <2>2, <2>3 DEF Init, TypeOK
<1>2. NeverTruncated
  BY TextsDiffer DEF Init, NeverTruncated
<1>3. SourcesCurrent /\ TextKept
  BY Naming DEF Init, SourcesCurrent, TextKept
<1>4. LocalsOfFile /\ Progress /\ CleanStored
  BY DEF Init, LocalsOfFile, Progress, CleanStored
<1> QED BY <1>1, <1>2, <1>3, <1>4 DEF IInv

-----------------------------------------------------------------------------
(* Steps that leave the files alone. *)

(* The parts of the invariant that only speak of the files. *)
LEMMA FilesKept ==
    ASSUME IInv, UNCHANGED <<disk, saved>>
    PROVE  NeverTruncated' /\ SourcesCurrent' /\ TextKept'
  BY DEF IInv, NeverTruncated, SourcesCurrent, TextKept

(* The editor ends. *)
LEMMA CloseOK ==
    ASSUME IInv, Close, UNCHANGED <<disk, saved>>
    PROVE  IInv'
<1>1. TypeOK' /\ (Normal[lines] = lines)'
  <2>1. (lines \in Texts /\ Normal[lines] = lines)'
    BY PyEditorAssumption DEF Close
  <2>2. (open \in BOOLEAN /\ dirty \in BOOLEAN /\ load_failed \in BOOLEAN)'
    BY Zenon DEF Close
  <2> QED BY <2>1, <2>2 DEF IInv, TypeOK, Close, NoLocals
<1>2. LocalsOfFile' /\ Progress' /\ CleanStored'
  BY DEF Close, NoLocals, LocalsOfFile, Progress, CleanStored
<1> QED BY <1>1, <1>2, FilesKept DEF IInv

(* A buffer, old or new, is shown in the main loop. *)
LEMMA BufferOK ==
    ASSUME IInv, UNCHANGED <<disk, saved, pc, locals>>, pc = "idle",
           open' = TRUE, filename' \in Files,
           lines' \in Texts, Normal[lines'] = lines',
           dirty' \in BOOLEAN, load_failed' \in BOOLEAN,
           dirty' \/ load_failed' \/ Shows(Source(filename))'
                  \/ (lines' = Empty /\ ~_exists(Source(filename))')
    PROVE  IInv'
<1>1. open' \in BOOLEAN
  BY Zenon
<1>2. TypeOK'
  BY <1>1 DEF IInv, TypeOK, locals
<1>3. LocalsOfFile' /\ Progress'
  BY DEF IInv, LocalsOfFile, Progress, locals
<1>4. CleanStored'
  BY DEF CleanStored, Shows, _exists
<1> QED BY <1>2, <1>3, <1>4, FilesKept DEF IInv

LEMMA OpenOK ==
    ASSUME IInv, NEW f \in Files,
           open_file(f) \/ new_file(f) \/ load_file(f) \/ start_new(f)
    PROVE  IInv'
<1>1. /\ UNCHANGED <<disk, saved, pc, locals>> /\ pc = "idle"
      /\ filename' = f
  BY DEF IInv, Progress, open_file, new_file, load_file, start_new, Idle
<1>2. open' = TRUE /\ dirty' \in BOOLEAN /\ load_failed' \in BOOLEAN
  <2>1. CASE open_file(f) BY <2>1, Zenon DEF open_file
  <2>2. CASE new_file(f) BY <2>2, Zenon DEF new_file
  <2>3. CASE load_file(f)
    <3>1. open \in BOOLEAN BY DEF IInv, TypeOK
    <3> QED BY <2>3, <3>1, Zenon DEF load_file, Idle
  <2>4. CASE start_new(f)
    <3>1. open \in BOOLEAN BY DEF IInv, TypeOK
    <3> QED BY <2>4, <3>1, Zenon DEF start_new, Idle
  <2> QED BY <2>1, <2>2, <2>3, <2>4
<1>3. Source(f) \in Names /\ disk[Source(f)] \in Texts \cup {Absent}
  BY Naming DEF IInv, TypeOK, NeverTruncated
<1>4. \/ lines' = Empty /\ (dirty' \/ load_failed' \/ disk[Source(f)] = Absent)
      \/ lines' = Normal[disk[Source(f)]] /\ disk[Source(f)] \in Texts
  BY <1>3 DEF open_file, new_file, load_file, start_new, _exists
<1>5. lines' \in Texts /\ Normal[lines'] = lines'
  BY <1>4, PyEditorAssumption
<1>6. dirty' \/ load_failed' \/ Shows(Source(filename))'
             \/ (lines' = Empty /\ ~_exists(Source(filename))')
  BY <1>1, <1>4 DEF Shows, _exists
<1> QED BY <1>1, <1>2, <1>5, <1>6, BufferOK

LEMMA EditOK ==
    ASSUME IInv, NEW t \in Texts, edit(t)
    PROVE  IInv'
<1>1. /\ UNCHANGED <<disk, saved, pc, locals>> /\ pc = "idle"
      /\ filename' \in Files
      /\ lines' \in Texts /\ Normal[lines'] = lines'
      /\ load_failed' \in BOOLEAN
  BY PyEditorAssumption DEF IInv, TypeOK, edit, Idle
<1>2. open' = TRUE /\ dirty' = TRUE
  <2>1. open \in BOOLEAN BY DEF IInv, TypeOK
  <2> QED BY <2>1, Zenon DEF edit, Idle
<1> QED BY <1>1, <1>2, BufferOK

(* A save starts. *)
LEMMA BeginOK ==
    ASSUME IInv, NEW purpose \in {"stay", "run"}, Idle, begin_save(purpose)
    PROVE  IInv'
<1>1. /\ temporary' \in Siblings("pu-tmp") /\ temporary'[1] = filename
      /\ disk[temporary'] = Absent
  BY Unused DEF IInv, TypeOK, begin_save, StagingName
<1>2. UNCHANGED <<disk, open, editor, saved>> /\ pc' = "create" /\ open
  BY DEF begin_save, Idle
<1>3. TypeOK'
  BY <1>1, <1>2 DEF IInv, TypeOK, begin_save, editor
<1>4. LocalsOfFile'
  BY <1>1, <1>2 DEF LocalsOfFile, begin_save, editor
<1>5. Progress'
  BY <1>1, <1>2, Naming DEF Progress, begin_save, editor
<1>6. CleanStored' /\ (Normal[lines] = lines)'
  BY <1>2 DEF IInv, CleanStored, editor, Shows, _exists
<1> QED BY <1>2, <1>3, <1>4, <1>5, <1>6, FilesKept DEF IInv

(* A save, or a save that fails or is interrupted, goes to the "finally". *)
LEMMA EndOK ==
    ASSUME IInv, NEW result \in {"saved", "failed", "interrupted"}, EndSave(result),
           open, pc \notin {"idle", "exec"},
           UNCHANGED <<disk, open, editor, temporary, then, saved>>,
           backup' \in Siblings("pu-backup") \cup {None},
           backup' # None => backup'[1] = filename
    PROVE  IInv'
<1>1. TypeOK'
  BY DEF IInv, TypeOK, EndSave, editor
<1>2. LocalsOfFile'
  BY DEF IInv, LocalsOfFile, editor
<1>3. Progress'
  BY DEF IInv, Progress, EndSave, editor
<1>4. CleanStored' /\ (Normal[lines] = lines)'
  BY DEF IInv, CleanStored, editor, Shows, _exists
<1> QED BY <1>1, <1>2, <1>3, <1>4, FilesKept DEF IInv

-----------------------------------------------------------------------------
(* Steps that change files. *)

(* The temporary file says nothing about the stored texts. *)
LEMMA TemporaryChanged ==
    ASSUME IInv, NEW n \in Siblings("pu-tmp"),
           NEW v \in Texts \cup {Absent, Torn},
           disk' = [disk EXCEPT ![n] = v], UNCHANGED saved
    PROVE  /\ disk' \in [Names -> Texts \cup {Absent, Torn}]
           /\ disk'[n] = v
           /\ \A x \in Names : x[2] # "pu-tmp" => disk'[x] = disk[x]
           /\ NeverTruncated' /\ SourcesCurrent' /\ TextKept'
<1>1. disk \in [Names -> Texts \cup {Absent, Torn}] /\ n \in Names /\ n[2] = "pu-tmp"
  BY Naming DEF IInv, TypeOK
<1>2. \A x \in Names : x[2] # "pu-tmp" => disk'[x] = disk[x]
  BY <1>1
<1>3. NeverTruncated'
  BY <1>1 DEF IInv, NeverTruncated
<1>4. SourcesCurrent'
  BY <1>2, Naming DEF IInv, SourcesCurrent
<1>5. TextKept'
  <2>1. \A f \in Files : disk'[Source(f)] = disk[Source(f)]
    BY <1>2, Naming
  <2>2. \A f \in Files, k \in 0 .. MaxSuffix :
          disk'[Sibling(f, "pu-backup", k)] = disk[Sibling(f, "pu-backup", k)]
    BY <1>2, Naming
  <2> QED BY <2>1, <2>2 DEF IInv, TextKept
<1> QED BY <1>1, <1>2, <1>3, <1>4, <1>5

(* ... nor about a clean buffer. *)
LEMMA TemporaryClean ==
    ASSUME IInv, \A x \in Names : x[2] # "pu-tmp" => disk'[x] = disk[x],
           UNCHANGED <<open, editor>>
    PROVE  CleanStored'
<1>1. filename \in Files /\ disk'[Source(filename)] = disk[Source(filename)]
  BY Naming DEF IInv, TypeOK
<1>2. \A k \in 0 .. MaxSuffix : disk'[Sibling(filename, "pu-backup", k)]
                                 = disk[Sibling(filename, "pu-backup", k)]
  BY <1>1, Naming
<1> QED BY <1>1, <1>2 DEF IInv, CleanStored, Shows, _exists, editor

LEMMA CreateOK == IInv /\ create_temporary => IInv'
<1> SUFFICES ASSUME IInv, create_temporary PROVE IInv'
  OBVIOUS
<1>1. CASE EndSave("failed") /\ UNCHANGED disk
  BY <1>1, EndOK DEF IInv, TypeOK, LocalsOfFile, create_temporary
<1>2. CASE disk' = [disk EXCEPT ![temporary] = Torn] /\ pc' = "write" /\ UNCHANGED outcome
  <2>1. temporary \in Siblings("pu-tmp")
    BY DEF IInv, TypeOK, Progress, create_temporary
  <2>2. UNCHANGED <<open, editor, temporary, backup, then, saved>> /\ open
    BY DEF create_temporary
  <2>3. /\ disk' \in [Names -> Texts \cup {Absent, Torn}]
        /\ \A x \in Names : x[2] # "pu-tmp" => disk'[x] = disk[x]
        /\ NeverTruncated' /\ SourcesCurrent' /\ TextKept'
    BY <1>2, <2>1, <2>2, TemporaryChanged
  <2>4. TypeOK' /\ LocalsOfFile' /\ (Normal[lines] = lines)'
    BY <1>2, <2>2, <2>3 DEF IInv, TypeOK, LocalsOfFile, editor
  <2>5. Progress'
    BY <1>2, <2>2 DEF IInv, Progress, editor, create_temporary
  <2> QED BY <2>2, <2>3, <2>4, <2>5, TemporaryClean DEF IInv
<1> QED BY <1>1, <1>2 DEF create_temporary

LEMMA WriteOK == IInv /\ write_temporary => IInv'
<1> SUFFICES ASSUME IInv, write_temporary PROVE IInv'
  OBVIOUS
<1>1. CASE EndSave("failed") /\ UNCHANGED disk
  BY <1>1, EndOK DEF IInv, TypeOK, LocalsOfFile, write_temporary
<1>2. CASE disk' = [disk EXCEPT ![temporary] = lines] /\ pc' = "backup" /\ UNCHANGED outcome
  <2>1. temporary \in Siblings("pu-tmp") /\ lines \in Texts
    BY DEF IInv, TypeOK, Progress, write_temporary
  <2>2. UNCHANGED <<open, editor, temporary, backup, then, saved>> /\ open
    BY DEF write_temporary
  <2>3. /\ disk' \in [Names -> Texts \cup {Absent, Torn}]
        /\ disk'[temporary] = lines
        /\ \A x \in Names : x[2] # "pu-tmp" => disk'[x] = disk[x]
        /\ NeverTruncated' /\ SourcesCurrent' /\ TextKept'
    BY <1>2, <2>1, <2>2, TemporaryChanged
  <2>4. TypeOK' /\ LocalsOfFile' /\ (Normal[lines] = lines)'
    BY <1>2, <2>2, <2>3 DEF IInv, TypeOK, LocalsOfFile, editor
  <2>5. Progress'
    BY <1>2, <2>2, <2>3 DEF IInv, Progress, editor, write_temporary
  <2> QED BY <2>2, <2>3, <2>4, <2>5, TemporaryClean DEF IInv
<1> QED BY <1>1, <1>2 DEF write_temporary

(* The file moves to a backup, or there is none. *)
LEMMA BackUpOK == IInv /\ back_up => IInv'
<1> SUFFICES ASSUME IInv, back_up PROVE IInv'
  OBVIOUS
<1> DEFINE name == _unused_filename(filename, "pu-backup")
           source == Source(filename)
<1>1. /\ UNCHANGED <<open, editor, temporary, then, saved>> /\ open /\ pc = "backup"
      /\ filename \in Files /\ source \in Names /\ source[2] = "source" /\ source[1] = filename
      /\ disk \in [Names -> Texts \cup {Absent, Torn}]
      /\ temporary \in Siblings("pu-tmp") /\ disk[temporary] = lines /\ backup = None
      /\ temporary \in Names /\ temporary[2] = "pu-tmp"
  BY Naming DEF back_up, IInv, TypeOK, Progress
<1>2. name # None => name \in Siblings("pu-backup") /\ name[1] = filename /\ disk[name] = Absent
                     /\ name \in Names /\ name[2] = "pu-backup"
  BY <1>1, Unused, Naming
<1>3. CASE EndSave("failed") /\ UNCHANGED disk
  <2>1. backup' \in {backup, name}
    BY <1>3 DEF back_up
  <2>2. backup' \in Siblings("pu-backup") \cup {None} /\ (backup' # None => backup'[1] = filename)
    BY <1>1, <1>2, <2>1
  <2> QED BY <1>1, <1>3, <2>2, EndOK
<1>4. CASE ~_exists(source) /\ pc' = "publish" /\ UNCHANGED <<disk, backup, outcome>>
  <2>1. TypeOK' /\ LocalsOfFile' /\ (Normal[lines] = lines)'
    BY <1>1, <1>4 DEF IInv, TypeOK, LocalsOfFile, editor
  <2>2. Progress'
    BY <1>1, <1>4 DEF IInv, Progress, editor, _exists
  <2>3. CleanStored'
    BY <1>1, <1>4 DEF IInv, CleanStored, Shows, _exists, editor
  <2> QED BY <1>1, <1>4, <2>1, <2>2, <2>3, FilesKept DEF IInv
<1>5. CASE /\ _exists(source) /\ name # None /\ backup' = name
           /\ disk' = SetAside(name) /\ pc' = "publish" /\ UNCHANGED outcome
  <2> HIDE DEF name, source
  <2>1. /\ disk' \in [Names -> Texts \cup {Absent, Torn}]
        /\ disk'[source] = Absent /\ disk'[name] = disk[source]
        /\ \A x \in Names \ {source, name} : disk'[x] = disk[x]
    BY <1>1, <1>2, <1>5 DEF SetAside, Renamed, source
  <2>2. disk[source] = saved[filename] /\ disk[source] \in Texts
    <3>1. disk[source] # Absent
      BY <1>5 DEF _exists
    <3>2. disk[source] # Torn
      BY <1>1 DEF IInv, NeverTruncated
    <3>3. disk[source] \in {Absent, saved[filename]}
      BY <1>1 DEF IInv, SourcesCurrent, source
    <3> QED BY <1>1, <3>1, <3>2, <3>3
  <2>3. TypeOK' /\ LocalsOfFile' /\ (Normal[lines] = lines)'
    BY <1>1, <1>2, <1>5, <2>1 DEF IInv, TypeOK, LocalsOfFile, editor
  <2>4. ~load_failed /\ (~dirty => Normal[disk[source]] = lines)
    BY <1>1, <2>2, TextsDiffer DEF IInv, Progress, CleanStored, Shows, _exists, source
  <2>5. disk'[temporary] = lines
    <3>1. temporary # source
      BY <1>1, Zenon
    <3>2. temporary # name
      BY <1>1, <1>2, <1>5, Zenon
    <3> QED BY <1>1, <2>1, <3>1, <3>2
  <2>6. Progress'
    <3>1. /\ temporary' # None
          /\ disk'[temporary'] = lines'
          /\ disk'[Source(filename')] = Absent
          /\ disk'[backup'] = saved'[filename'] /\ disk'[backup'] # Absent
      BY <1>1, <1>5, <2>1, <2>2, <2>5, Naming, TextsDiffer DEF editor, source
    <3>2. ~dirty' => Shows(backup)'
      BY <1>1, <1>5, <2>1, <2>2, <2>4 DEF Shows, editor
    <3>3. open' /\ ~load_failed'
      BY <1>1, <2>4 DEF editor
    <3> QED BY <1>5, <3>1, <3>2, <3>3 DEF Progress
  <2>7. NeverTruncated'
    BY <1>1, <1>2, <2>1, <2>2, TextsDiffer DEF IInv, NeverTruncated
  <2>8. SourcesCurrent'
    <3> SUFFICES ASSUME NEW f \in Files
                 PROVE  disk'[Source(f)] \in {Absent, saved[f]}
      BY <1>1 DEF SourcesCurrent
    <3>1. disk'[Source(f)] \in {Absent, disk[Source(f)]}
      BY <1>1, <1>2, <1>5, <2>1, Naming DEF source
    <3> QED BY <3>1 DEF IInv, SourcesCurrent
  <2>9. PICK k \in 0 .. MaxSuffix : name = Sibling(filename, "pu-backup", k)
    BY <1>2, <1>5, Naming
  <2>10. TextKept'
    <3> SUFFICES ASSUME NEW f \in Files, saved[f] # Absent
                 PROVE  \/ disk'[Source(f)] = saved[f]
                        \/ \E j \in 0 .. MaxSuffix : disk'[Sibling(f, "pu-backup", j)] = saved[f]
      BY <1>1 DEF TextKept
    <3>1. CASE f = filename
      BY <2>1, <2>2, <2>9, <3>1
    <3>2. CASE f # filename
      <4>1. disk'[Source(f)] = disk[Source(f)]
        BY <1>1, <1>2, <2>1, <3>2, Naming
      <4>2. \A j \in 0 .. MaxSuffix : disk'[Sibling(f, "pu-backup", j)] = disk[Sibling(f, "pu-backup", j)]
        BY <1>1, <1>2, <2>1, <3>2, Naming
      <4> QED BY <4>1, <4>2 DEF IInv, TextKept
    <3> QED BY <3>1, <3>2
  <2>11. CleanStored'
    BY <1>1, <2>1, <2>2, <2>4, <2>9 DEF CleanStored, Shows, _exists, editor, source
  <2> QED BY <2>3, <2>6, <2>7, <2>8, <2>10, <2>11 DEF IInv
<1> QED BY <1>3, <1>4, <1>5 DEF back_up

(* The new text gets the file's name, or the rename fails. *)
LEMMA PublishOK == IInv /\ publish => IInv'
<1> SUFFICES ASSUME IInv, publish PROVE IInv'
  OBVIOUS
<1> DEFINE source == Source(filename)
<1>1. /\ UNCHANGED <<open, editor, backup, then>> /\ open /\ pc = "publish"
      /\ filename \in Files /\ source \in Names /\ source[2] = "source"
      /\ disk \in [Names -> Texts \cup {Absent, Torn}]
      /\ temporary \in Names /\ temporary[2] = "pu-tmp" /\ disk[temporary] = lines
      /\ lines \in Texts /\ Normal[lines] = lines
      /\ saved \in [Files -> Texts \cup {Absent}]
  BY Naming DEF publish, IInv, TypeOK, Progress
<1>2. CASE EndSave("failed") /\ UNCHANGED <<disk, temporary, saved>>
  BY <1>1, <1>2, EndOK DEF IInv, TypeOK, LocalsOfFile
<1>3. CASE backup # None /\ pc' = "rollback" /\ UNCHANGED <<disk, temporary, outcome, saved>>
  <2>1. TypeOK' /\ LocalsOfFile' /\ (Normal[lines] = lines)'
    BY <1>1, <1>3 DEF IInv, TypeOK, LocalsOfFile, editor
  <2>2. Progress'
    BY <1>1, <1>3 DEF IInv, Progress, Shows, editor
  <2>3. CleanStored'
    BY <1>1, <1>3 DEF IInv, CleanStored, Shows, _exists, editor
  <2> QED BY <1>3, <2>1, <2>2, <2>3, FilesKept DEF IInv
<1>4. CASE /\ disk' = Renamed(temporary, source)
           /\ saved' = [saved EXCEPT ![filename] = lines]
           /\ temporary' = None /\ pc' = "clean" /\ UNCHANGED outcome
  <2> HIDE DEF source
  <2>1. temporary # source
    BY <1>1, Zenon
  <2>2. /\ disk' \in [Names -> Texts \cup {Absent, Torn}]
        /\ disk'[source] = lines /\ disk'[temporary] = Absent
        /\ \A x \in Names \ {source, temporary} : disk'[x] = disk[x]
        /\ saved' \in [Files -> Texts \cup {Absent}]
        /\ saved'[filename] = lines
        /\ \A f \in Files \ {filename} : saved'[f] = saved[f]
    BY <1>1, <1>4, <2>1 DEF Renamed
  <2>3. TypeOK' /\ LocalsOfFile' /\ (Normal[lines] = lines)'
    BY <1>1, <1>4, <2>2 DEF IInv, TypeOK, LocalsOfFile, editor
  <2>4. Progress'
    BY <1>1, <1>4, <2>2 DEF IInv, Progress, editor, source
  <2>5. NeverTruncated'
    BY <1>1, <2>2, TextsDiffer DEF IInv, NeverTruncated
  <2>6. ASSUME NEW f \in Files \ {filename}
        PROVE  /\ disk'[Source(f)] = disk[Source(f)]
               /\ \A k \in 0 .. MaxSuffix :
                     disk'[Sibling(f, "pu-backup", k)] = disk[Sibling(f, "pu-backup", k)]
    <3>1. Source(f) \in Names \ {source, temporary}
      BY <1>1, Naming DEF source
    <3>2. \A k \in 0 .. MaxSuffix : Sibling(f, "pu-backup", k) \in Names \ {source, temporary}
      BY <1>1, Naming
    <3> QED BY <2>2, <3>1, <3>2
  <2>7. SourcesCurrent' /\ TextKept'
    BY <2>2, <2>6 DEF IInv, SourcesCurrent, TextKept, source
  <2>8. CleanStored'
    BY <1>1, <2>2 DEF CleanStored, Shows, editor, source
  <2> QED BY <2>3, <2>4, <2>5, <2>7, <2>8 DEF IInv
<1> QED BY <1>2, <1>3, <1>4 DEF publish

(* The old text gets its name back, or even that fails. *)
LEMMA RollbackOK == IInv /\ rollback => IInv'
<1> SUFFICES ASSUME IInv, rollback PROVE IInv'
  OBVIOUS
<1> DEFINE source == Source(filename)
<1>1. /\ UNCHANGED <<open, editor, temporary, then, saved>> /\ open /\ pc = "rollback"
      /\ EndSave("failed")
      /\ filename \in Files /\ source \in Names /\ source[2] = "source"
      /\ disk \in [Names -> Texts \cup {Absent, Torn}]
      /\ backup \in Names /\ backup[2] = "pu-backup" /\ backup[1] = filename
      /\ disk[backup] = saved[filename] /\ disk[backup] # Absent
      /\ ~dirty => Shows(backup)
      /\ saved \in [Files -> Texts \cup {Absent}]
  BY Naming DEF rollback, IInv, TypeOK, Progress, LocalsOfFile
<1>2. CASE UNCHANGED <<disk, backup>>
  BY <1>1, <1>2, EndOK DEF IInv, TypeOK, LocalsOfFile
<1>3. CASE disk' = Renamed(backup, source) /\ backup' = None
  <2> HIDE DEF source
  <2>1. backup # source
    BY <1>1, Zenon
  <2>2. /\ disk' \in [Names -> Texts \cup {Absent, Torn}]
        /\ disk'[source] = saved[filename] /\ disk'[backup] = Absent
        /\ \A x \in Names \ {source, backup} : disk'[x] = disk[x]
        /\ saved[filename] \in Texts
    BY <1>1, <1>3, <2>1 DEF Renamed
  <2>3. TypeOK' /\ LocalsOfFile' /\ (Normal[lines] = lines)'
    BY <1>1, <1>3, <2>2 DEF IInv, TypeOK, LocalsOfFile, editor, EndSave
  <2>4. Progress'
    BY <1>1, <1>3 DEF IInv, Progress, editor, EndSave
  <2>5. NeverTruncated'
    BY <1>1, <2>2, TextsDiffer DEF IInv, NeverTruncated
  <2>6. ASSUME NEW f \in Files \ {filename}
        PROVE  /\ disk'[Source(f)] = disk[Source(f)]
               /\ \A k \in 0 .. MaxSuffix :
                     disk'[Sibling(f, "pu-backup", k)] = disk[Sibling(f, "pu-backup", k)]
    <3>1. Source(f) \in Names \ {source, backup}
      BY <1>1, Naming DEF source
    <3>2. \A k \in 0 .. MaxSuffix : Sibling(f, "pu-backup", k) \in Names \ {source, backup}
      BY <1>1, Naming
    <3> QED BY <2>2, <3>1, <3>2
  <2>7. SourcesCurrent' /\ TextKept'
    BY <1>1, <2>2, <2>6 DEF IInv, SourcesCurrent, TextKept, source
  <2>8. CleanStored'
    BY <1>1, <2>2 DEF CleanStored, Shows, editor, source
  <2> QED BY <2>3, <2>4, <2>5, <2>7, <2>8 DEF IInv
<1> QED BY <1>2, <1>3 DEF rollback

(* The backup goes once the new text is in place. *)
LEMMA CleanUpOK == IInv /\ clean_up => IInv'
<1> SUFFICES ASSUME IInv, clean_up PROVE IInv'
  OBVIOUS
<1> DEFINE source == Source(filename)
<1>1. /\ UNCHANGED <<open, filename, lines, load_failed, temporary, backup, then, saved>>
      /\ dirty' = FALSE /\ open /\ EndSave("saved")
      /\ filename \in Files /\ source \in Names /\ source[2] = "source"
      /\ disk \in [Names -> Texts \cup {Absent, Torn}]
      /\ disk[source] = lines /\ saved[filename] = lines
      /\ lines \in Texts /\ Normal[lines] = lines
      /\ ~load_failed
  BY Naming DEF clean_up, IInv, TypeOK, Progress
<1>2. backup # None => backup \in Names /\ backup[2] = "pu-backup" /\ backup[1] = filename
  BY Naming DEF IInv, TypeOK, LocalsOfFile
<1>3. /\ disk' \in [Names -> Texts \cup {Absent, Torn}]
      /\ disk'[source] = lines
      /\ \A x \in Names : disk'[x] = disk[x] \/ (disk'[x] = Absent /\ x = backup /\ backup # None)
  BY <1>1, <1>2 DEF clean_up, Removed
<1> HIDE DEF source
<1>4. TypeOK' /\ LocalsOfFile' /\ (Normal[lines] = lines)'
  <2>1. dirty' \in BOOLEAN
    BY <1>1, Zenon
  <2>2. (temporary \in Siblings("pu-tmp") \cup {None} /\ backup \in Siblings("pu-backup") \cup {None})'
    BY <1>1 DEF IInv, TypeOK
  <2>3. LocalsOfFile'
    BY <1>1 DEF IInv, LocalsOfFile
  <2>4. (open \in BOOLEAN /\ load_failed \in BOOLEAN)'
    BY <1>1 DEF IInv, TypeOK
  <2> HIDE DEF None
  <2> QED BY <1>1, <1>3, <2>1, <2>2, <2>3, <2>4 DEF IInv, TypeOK, EndSave
<1>5. Progress'
  BY <1>1 DEF IInv, Progress, EndSave
<1>6. NeverTruncated'
  BY <1>3 DEF IInv, NeverTruncated
<1>7. ASSUME NEW f \in Files \ {filename}
      PROVE  /\ disk'[Source(f)] = disk[Source(f)]
             /\ \A k \in 0 .. MaxSuffix :
                   disk'[Sibling(f, "pu-backup", k)] = disk[Sibling(f, "pu-backup", k)]
  <2>1. Source(f) \in Names /\ (backup # None => Source(f) # backup)
    BY <1>2, Naming
  <2>2. \A x \in Names : (backup # None => x # backup) => disk'[x] = disk[x]
    BY <1>3, Zenon
  <2>3. disk'[Source(f)] = disk[Source(f)]
    BY <2>1, <2>2, Zenon
  <2>4. ASSUME NEW k \in 0 .. MaxSuffix
        PROVE  disk'[Sibling(f, "pu-backup", k)] = disk[Sibling(f, "pu-backup", k)]
    <3> DEFINE x == Sibling(f, "pu-backup", k)
    <3>1. x \in Names /\ (backup # None => x # backup)
      BY <1>2, Naming
    <3> HIDE DEF x
    <3>2. disk'[x] = disk[x]
      BY <2>2, <3>1, Zenon
    <3> QED BY <3>2 DEF x
  <2> QED BY <2>3, <2>4
<1>8. SourcesCurrent' /\ TextKept'
  BY <1>1, <1>3, <1>7 DEF IInv, SourcesCurrent, TextKept, source
<1>9. CleanStored'
  BY <1>1, <1>3 DEF CleanStored, Shows, source
<1> QED BY <1>4, <1>5, <1>6, <1>8, <1>9 DEF IInv

(* The "finally". *)
LEMMA FinishOK == IInv /\ finish_save => IInv'
<1> SUFFICES ASSUME IInv, finish_save PROVE IInv'
  OBVIOUS
<1>1. open /\ pc = "finally" /\ UNCHANGED saved
  BY DEF finish_save
<1>2. /\ disk' \in [Names -> Texts \cup {Absent, Torn}]
      /\ \A x \in Names : x[2] # "pu-tmp" => disk'[x] = disk[x]
      /\ NeverTruncated' /\ SourcesCurrent' /\ TextKept'
  <2>1. CASE temporary # None /\ disk' = Removed(temporary)
    BY <1>1, <2>1, TemporaryChanged DEF IInv, TypeOK, Removed
  <2>2. CASE UNCHANGED disk
    BY <1>1, <2>2, FilesKept DEF IInv, TypeOK
  <2> QED BY <2>1, <2>2 DEF finish_save
<1>3. CASE Close
  <2>1. TypeOK' /\ (Normal[lines] = lines)'
    <3>1. (lines \in Texts /\ Normal[lines] = lines)'
      BY <1>3, PyEditorAssumption DEF Close
    <3>2. (open \in BOOLEAN /\ dirty \in BOOLEAN /\ load_failed \in BOOLEAN)'
      BY <1>3, Zenon DEF Close
    <3> QED BY <1>1, <1>2, <1>3, <3>1, <3>2 DEF IInv, TypeOK, Close, NoLocals
  <2>2. LocalsOfFile' /\ Progress' /\ CleanStored'
    BY <1>3 DEF Close, NoLocals, LocalsOfFile, Progress, CleanStored
  <2> QED BY <1>2, <2>1, <2>2 DEF IInv
<1>4. CASE pc' \in {"exec", "idle"} /\ NoLocals /\ UNCHANGED <<open, editor>>
  <2>1. TypeOK' /\ (Normal[lines] = lines)'
    BY <1>1, <1>2, <1>4 DEF IInv, TypeOK, NoLocals, editor
  <2>2. LocalsOfFile' /\ Progress'
    BY <1>1, <1>4 DEF IInv, LocalsOfFile, Progress, NoLocals, editor
  <2> QED BY <1>2, <1>4, <2>1, <2>2, TemporaryClean DEF IInv
<1> QED BY <1>3, <1>4 DEF finish_save

LEMMA InterruptOK == IInv /\ interrupt_save => IInv'
  BY EndOK DEF interrupt_save, Interruptible, IInv, TypeOK, LocalsOfFile

(* run_code() when there is nothing to save, and the end of the script. *)
LEMMA ExecOK ==
    ASSUME IInv, open, pc \in {"idle", "exec"}, pc' \in {"idle", "exec"},
           UNCHANGED <<disk, open, editor, locals, saved>>
    PROVE  IInv'
<1>1. TypeOK' /\ (Normal[lines] = lines)'
  BY DEF IInv, TypeOK, editor, locals
<1>2. LocalsOfFile' /\ Progress'
  BY DEF IInv, LocalsOfFile, Progress, editor, locals
<1>3. CleanStored'
  BY DEF IInv, CleanStored, Shows, _exists, editor
<1> QED BY <1>1, <1>2, <1>3, FilesKept DEF IInv

-----------------------------------------------------------------------------
LEMMA StepOK == IInv /\ [Next]_vars => IInv'
<1> SUFFICES ASSUME IInv, [Next]_vars PROVE IInv'
  OBVIOUS
<1>1. CASE UNCHANGED vars
  <2>1. UNCHANGED <<disk, open, filename, lines, dirty, load_failed, pc,
                    temporary, backup, then, outcome, saved>>
    BY <1>1 DEF vars, editor, locals
  <2>2. TypeOK' /\ (Normal[lines] = lines)' /\ LocalsOfFile'
    BY <2>1 DEF IInv, TypeOK, LocalsOfFile
  <2>3. Progress' /\ CleanStored'
    BY <2>1 DEF IInv, Progress, CleanStored, Shows, _exists
  <2> QED BY <2>1, <2>2, <2>3, FilesKept DEF IInv
<1>2. CASE \E f \in Files : open_file(f) \/ new_file(f) \/ load_file(f) \/ start_new(f)
  BY <1>2, OpenOK
<1>3. CASE \E t \in Texts : edit(t)
  BY <1>3, EditOK
<1>4. CASE leave \/ interrupt_finally \/ crash
  BY <1>4, CloseOK DEF leave, interrupt_finally, crash
<1>5. CASE save_file
  BY <1>5, BeginOK DEF save_file
<1>6. CASE run_code
  BY <1>6, BeginOK, ExecOK DEF run_code, Idle
<1>7. CASE exec_code
  BY <1>7, CloseOK, ExecOK DEF exec_code
<1> QED
  BY <1>1, <1>2, <1>3, <1>4, <1>5, <1>6, <1>7, CreateOK, WriteOK, BackUpOK, PublishOK,
     RollbackOK, CleanUpOK, FinishOK, InterruptOK DEF Next

(* The invariant holds in every reachable state, whatever fails. *)
THEOREM EditorInvariance == Spec => []IInv
  BY InitOK, StepOK, PTL DEF Spec

(* Every variable keeps its type: the buffer holds a whole text and a save
   works on siblings of the file (save_file()). *)
THEOREM EditorTypeCorrect == Spec => []TypeOK
<1>1. IInv => TypeOK
  BY DEF IInv
<1> QED BY <1>1, EditorInvariance, PTL

(* No failed file operation, interrupt or reset during save_file() loses the
   text last stored under a file's name. *)
THEOREM TextAlwaysKept == Spec => []TextKept
<1>1. IInv => TextKept
  BY DEF IInv
<1> QED BY <1>1, EditorInvariance, PTL

(* Part of a text is never found under the name of a file or of a backup. *)
THEOREM SourceNeverTruncated == Spec => []NeverTruncated
<1>1. IInv => NeverTruncated
  BY DEF IInv
<1> QED BY <1>1, EditorInvariance, PTL

(* What run_code() does not save and confirm_discard() does not ask about is
   on disk. *)
THEOREM CleanBufferStored == Spec => []CleanIsStored
<1>1. IInv => CleanIsStored
  BY DEF IInv, CleanStored, CleanIsStored, Idle
<1> QED BY <1>1, EditorInvariance, PTL

(* No step of the editor replaces what an existing file holds, except for the
   temporary file that it is writing. *)
THEOREM NothingOverwritten == Spec => NoOverwrite
<1> DEFINE Kept == \A n \in Names :
                     disk'[n] # disk[n] => \/ disk'[n] = Absent
                                           \/ disk[n] = Absent
                                           \/ pc = "write" /\ n = temporary
<1>1. ASSUME IInv, Next PROVE Kept
  <2>1. disk \in [Names -> Texts \cup {Absent, Torn}] /\ filename \in Files
        /\ Source(filename) \in Names
    BY <1>1, Naming DEF IInv, TypeOK
  <2>2. CASE create_temporary
    BY <1>1, <2>1, <2>2 DEF create_temporary, IInv, Progress
  <2>3. CASE write_temporary
    BY <2>1, <2>3 DEF write_temporary
  <2>4. CASE back_up
    <3> DEFINE name == _unused_filename(filename, "pu-backup")
    <3>1. name # None => disk[name] = Absent
      BY <2>1, Unused
    <3>2. UNCHANGED disk \/ (name # None /\ disk' = Renamed(Source(filename), name))
      BY <2>4 DEF back_up, SetAside
    <3> HIDE DEF name
    <3> QED BY <2>1, <3>1, <3>2 DEF Renamed
  <2>5. CASE publish
    BY <1>1, <2>1, <2>5 DEF publish, IInv, Progress, Renamed
  <2>6. CASE rollback
    BY <1>1, <2>1, <2>6 DEF rollback, IInv, Progress, Renamed
  <2>7. CASE clean_up
    BY <2>1, <2>7 DEF clean_up, Removed
  <2>8. CASE finish_save
    BY <2>1, <2>8 DEF finish_save, Removed
  <2>9. CASE UNCHANGED disk
    BY <2>9
  <2> QED
    BY <1>1, <2>2, <2>3, <2>4, <2>5, <2>6, <2>7, <2>8, <2>9
    DEF Next, open_file, new_file, load_file, start_new, edit, leave, save_file,
        begin_save, interrupt_save, interrupt_finally, run_code, exec_code, crash
<1>2. IInv /\ [Next]_vars => [Kept]_vars
  BY <1>1
<1>3. Spec => [][Kept]_vars
  BY <1>2, EditorInvariance, PTL DEF Spec
<1> QED BY <1>3 DEF NoOverwrite
=============================================================================
