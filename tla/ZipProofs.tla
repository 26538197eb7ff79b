----------------------------- MODULE ZipProofs ------------------------------
(***************************************************************************)
(* The properties of ZipFile for every set of paths, every archive and     *)
(* every source and destination.  The invariant says that what extract()   *)
(* changed is what it noted, that the noted folders are in the order in    *)
(* which they can be removed from the last, and that the members before    *)
(* the one in hand are in place.                                           *)
(***************************************************************************)
EXTENDS ZipFile, TLAPS

Active == {"mkdirs", "member", "open", "write"}
Noted  == Range(created_files) \cup Range(created_folders)

(* A folder is noted before the folders made in it. *)
Ordered(folders) ==
    \A n, m \in 1 .. Len(folders) :
        Len(folders[m]) > 1 /\ Parent(folders[m]) = folders[n] => n < m

(* Every member has a place below the destination. *)
Fits(members) == \A n \in 1 .. Len(members) : Destination \o members[n].path \in Paths

(* The loop of _mkdirs(), and the path it was given. *)
InFolders ==
    /\ goal \in Paths
    /\ \A k \in 1 .. Len(goal) : k < depth => disk[Prefix(goal, k)] = Folder
    /\ i = 0 => goal = Destination
    /\ i # 0 => /\ i \in 1 .. Len(archive.members) /\ member.path # <<>>
                /\ goal = IF member.folder THEN target ELSE Parent(target)

(* A file is about to be made, or being written. *)
InFile ==
    /\ i \in 1 .. Len(archive.members) /\ member.path # <<>> /\ ~member.folder
    /\ disk[Parent(target)] = Folder
    /\ pc = "write" => disk[target] = Torn /\ before[target] = Absent
                         /\ target \in Range(created_files)
                         /\ \A n \in 1 .. Len(archive.members) :
                               n < i /\ archive.members[n].path # <<>> =>
                                   Destination \o archive.members[n].path # target

Where ==
    /\ Fits(archive.members)
    /\ pc \in {"idle", "compress", "failed"} => created_files = <<>> /\ created_folders = <<>>
    /\ pc = "compress" => archive.state = "partial"
    /\ pc \in Active \cup {"done"} => kept = FALSE
    /\ pc = "member" => i # 0
    /\ pc = "mkdirs" => InFolders
    /\ pc \in {"open", "write"} => InFile

Disks ==
    /\ Tree(disk)
    /\ ExistingKept
    /\ pc \in Running \cup Ended => Tree(before) /\ \A p \in Noted : before[p] = Absent
    /\ \A p \in Range(created_files) : disk[p] # Folder
    /\ pc \in Active => /\ \A p \in Range(created_files) : disk[p] # Absent
                       /\ \A p \in Range(created_folders) : disk[p] = Folder
    /\ Ordered(created_folders)
    /\ pc \in Running \cup {"done", "failed"} /\ kept = FALSE =>
         \A p \in Paths : disk[p] # before[p] => p \in Noted

(* Member n is in place. *)
Placed(n) ==
    archive.members[n].path # <<>> =>
        /\ disk[Destination \o archive.members[n].path] =
               IF archive.members[n].folder THEN Folder ELSE archive.members[n].text
        /\ archive.members[n].folder \/ archive.members[n].fault # "data"

(* p is the destination, a member, or a folder that one of these lies in. *)
Belongs(p) ==
    \/ Within(Destination, p)
    \/ \E n \in 1 .. Len(archive.members) : Within(Destination \o archive.members[n].path, p)

Done ==
    /\ pc \in Active => \A n \in 1 .. Len(archive.members) : n < i => Placed(n)
    /\ pc = "done" => \A n \in 1 .. Len(archive.members) : Placed(n)
    /\ pc \in Active \cup {"done"} => \A p \in Noted : Belongs(p)

(* The entry of p when the disk is d. *)
EntryOf(d, p) == [path   |-> SubSeq(p, Len(Source), Len(p)),
                  folder |-> d[p] = Folder,
                  text   |-> IF d[p] = Folder THEN CHOOSE t \in Texts : TRUE ELSE d[p],
                  fault  |-> "none"]

(* The archive that compress() made has an entry for all that it read. *)
Whole ==
    origin # <<>> =>
        /\ archive.state = "whole"
        /\ \A p \in Paths : Within(p, Source) /\ origin[p] # Absent =>
               \E n \in 1 .. Len(archive.members) : archive.members[n] = EntryOf(origin, p)

IInv == TypeOK /\ Where /\ Disks /\ Done /\ Whole

USE DEF Absent, Folder, Torn

-----------------------------------------------------------------------------
(* Sequences and paths *)

LEMMA FrontLast ==
    ASSUME NEW s \in Seq(Paths), s # <<>>
    PROVE  /\ Front(s) \in Seq(Paths) /\ Len(Front(s)) = Len(s) - 1 /\ Last(s) \in Paths
           /\ Len(s) \in Nat \ {0} /\ Last(s) = s[Len(s)]
           /\ \A n \in 1 .. Len(s) - 1 : Front(s)[n] = s[n]
<1>1. Len(s) \in Nat \ {0}
  OBVIOUS
<1>2. Front(s) = SubSeq(s, 1, Len(s) - 1) /\ Last(s) = s[Len(s)]
  BY DEF Front, Last
<1>3. PICK k \in Nat : k = Len(s) - 1
  BY <1>1
<1>4. /\ SubSeq(s, 1, k) \in Seq(Paths) /\ Len(SubSeq(s, 1, k)) = k
      /\ \A n \in 1 .. k : SubSeq(s, 1, k)[n] = s[n]
  BY <1>1, <1>3
<1>5. Last(s) \in Paths
  BY <1>1, <1>2
<1> QED  BY <1>1, <1>2, <1>3, <1>4, <1>5, Zenon

LEMMA RangeFacts ==
    ASSUME NEW s \in Seq(Paths)
    PROVE  /\ Range(s) \subseteq Paths /\ Range(s) = {s[n] : n \in 1 .. Len(s)}
           /\ \A x \in Paths : Range(Append(s, x)) = Range(s) \cup {x}
           /\ s # <<>> => Range(s) = Range(Front(s)) \cup {Last(s)}
<1>1. Range(s) = {s[n] : n \in 1 .. Len(s)}
  BY DEF Range
<1>2. ASSUME NEW x \in Paths PROVE Range(Append(s, x)) = Range(s) \cup {x}
  <2>1. /\ Append(s, x) \in Seq(Paths) /\ Len(Append(s, x)) = Len(s) + 1 /\ Len(s) \in Nat
        /\ \A n \in 1 .. Len(s) : Append(s, x)[n] = s[n]
        /\ Append(s, x)[Len(s) + 1] = x
    OBVIOUS
  <2>2. Range(Append(s, x)) = {Append(s, x)[n] : n \in 1 .. Len(s) + 1}
    BY <2>1 DEF Range
  <2> HIDE DEF Range
  <2> QED  BY <1>1, <2>1, <2>2
<1>3. ASSUME s # <<>> PROVE Range(s) = Range(Front(s)) \cup {Last(s)}
  <2>1. Range(Front(s)) = {Front(s)[n] : n \in 1 .. Len(s) - 1}
    BY <1>3, FrontLast DEF Range
  <2>2. 1 .. Len(s) = (1 .. Len(s) - 1) \cup {Len(s)}
    BY <1>3, FrontLast
  <2>3. \A n \in 1 .. Len(s) - 1 : Front(s)[n] = s[n]
    BY <1>3, FrontLast
  <2>4. Last(s) = s[Len(s)]
    BY <1>3, FrontLast
  <2> QED  BY <1>1, <2>1, <2>2, <2>3, <2>4, SMTT(40)
<1> QED  BY <1>1, <1>2, <1>3

LEMMA EmptyRange == Range(<<>>) = {}
  BY DEF Range

LEMMA PathFacts ==
    ASSUME NEW p \in Paths
    PROVE  /\ p \in Seq(Nat) /\ Len(p) \in Nat \ {0}
           /\ \A n \in 1 .. Len(p) : Prefix(p, n) \in Paths /\ Len(Prefix(p, n)) = n
           /\ Prefix(p, Len(p)) = p
           /\ Len(p) > 1 => Parent(p) \in Paths /\ Len(Parent(p)) = Len(p) - 1
           /\ \A n \in 2 .. Len(p) : Parent(Prefix(p, n)) = Prefix(p, n - 1)
           /\ \A n \in 1 .. Len(p) : Within(p, Prefix(p, n))
<1>1. p \in Seq(Nat) /\ Len(p) \in Nat \ {0}
  BY PathsAssumption
<1>2. \A n \in 1 .. Len(p) : Prefix(p, n) \in Paths /\ Len(Prefix(p, n)) = n
  BY <1>1, PathsAssumption DEF Prefix
<1>3. Prefix(p, Len(p)) = p
  BY <1>1 DEF Prefix
<1>4. Len(p) > 1 => Parent(p) \in Paths /\ Len(Parent(p)) = Len(p) - 1
  BY <1>1, <1>2 DEF Parent
<1>5. \A n \in 2 .. Len(p) : Parent(Prefix(p, n)) = Prefix(p, n - 1)
  BY <1>1 DEF Prefix, Parent
<1>6. \A n \in 1 .. Len(p) : Within(p, Prefix(p, n))
  BY <1>1, <1>2 DEF Within
<1> QED  BY <1>1, <1>2, <1>3, <1>4, <1>5, <1>6

(* The place of a member, and the folder it lies in. *)
LEMMA TargetFacts ==
    ASSUME TypeOK, Fits(archive.members), NEW n \in 1 .. Len(archive.members),
           archive.members[n].path # <<>>
    PROVE  LET t == Destination \o archive.members[n].path IN
           t \in Paths /\ Len(t) > 1 /\ Parent(t) \in Paths /\ Within(t, Parent(t)) /\ Within(t, t)
<1> DEFINE m == archive.members[n]
           t == Destination \o m.path
<1>1. m \in Members /\ t \in Paths
  BY DEF TypeOK, Fits
<1>2. m.path \in Seq(Nat) /\ Len(m.path) > 0
  BY <1>1 DEF Members
<1>3. Len(t) = Len(Destination) + Len(m.path) /\ Len(Destination) > 0
  BY <1>2, PathFacts, PathsAssumption
<1>4. Len(t) > 1
  BY <1>2, <1>3, PathFacts, PathsAssumption
<1> HIDE DEF m, t
<1>5. Parent(t) = Prefix(t, Len(t) - 1) /\ Len(t) - 1 \in 1 .. Len(t)
  BY <1>1, <1>4, PathFacts DEF Parent
<1>6. Parent(t) \in Paths /\ Within(t, Parent(t)) /\ Within(t, t)
  BY <1>1, <1>4, <1>5, PathFacts
<1> QED  BY <1>1, <1>4, <1>6 DEF t, m

LEMMA EntryFacts ==
    ASSUME NEW d \in [Paths -> Texts \cup {Absent, Folder, Torn}],
           NEW p \in Paths, Within(p, Source), d[p] # Absent
    PROVE  /\ EntryOf(d, p) \in Members /\ EntryOf(d, p).path # <<>>
           /\ Destination \o EntryOf(d, p).path \in Paths
<1>1. Len(Source) \in 1 .. Len(p) /\ p \in Seq(Nat)
  BY PathFacts, PathsAssumption DEF Within
<1>2. SubSeq(p, Len(Source), Len(p)) \in Seq(Nat) /\ Len(SubSeq(p, Len(Source), Len(p))) > 0
  BY <1>1
<1>3. (IF d[p] = Folder THEN CHOOSE t \in Texts : TRUE ELSE d[p]) \in Texts \cup {Torn}
  BY TextsAreFiles
<1>4. EntryOf(d, p) \in Members
  BY <1>2, <1>3 DEF EntryOf, Members, Faults
<1>5. EntryOf(d, p).path = SubSeq(p, Len(Source), Len(p))
  BY DEF EntryOf
<1>6. Destination \o SubSeq(p, Len(Source), Len(p)) \in Paths
  BY SourceFits
<1>7. SubSeq(p, Len(Source), Len(p)) # <<>>
  <2>1. PICK q \in Seq(Nat) : q = SubSeq(p, Len(Source), Len(p))
    BY <1>2
  <2>2. Len(q) > 0
    BY <2>1, <1>2
  <2>3. q # <<>>
    BY <2>2
  <2> QED  BY <2>1, <2>3
<1> QED  BY <1>4, <1>5, <1>6, <1>7

LEMMA EmptyArchive ==
    /\ NoArchive \in [state : {"absent", "partial", "whole"}, members : Seq(Members)]
    /\ [state |-> "partial", members |-> <<>>]
           \in [state : {"absent", "partial", "whole"}, members : Seq(Members)]
  BY DEF NoArchive

LEMMA InitOK == Init => IInv
<1> SUFFICES ASSUME Init PROVE IInv
  OBVIOUS
<1>1. TypeOK
  <2>1. /\ archive \in [state : {"absent", "partial", "whole"}, members : Seq(Members)]
        /\ created_files \in Seq(Paths) /\ created_folders \in Seq(Paths)
    BY DEF Init, NoArchive
  <2>2. /\ disk \in [Paths -> Texts \cup {Absent, Folder, Torn}]
        /\ before \in [Paths -> Texts \cup {Absent, Folder, Torn}]
        /\ i \in Nat /\ depth \in Nat \ {0} /\ origin = <<>> /\ goal = <<>>
    BY DEF Init
  <2>3. kept \in BOOLEAN
    BY Zenon DEF Init
  <2> QED  BY <2>1, <2>2, <2>3, Zenon DEF Init, TypeOK
<1>2. Where
  BY DEF Init, Where, Fits, NoArchive, Active
<1>3. Disks
  BY EmptyRange DEF Init, Disks, ExistingKept, Running, Ended, Ordered, Noted, Active
<1>4. Done /\ Whole
  BY DEF Init, Done, Whole, Active
<1> QED  BY <1>1, <1>2, <1>3, <1>4 DEF IInv

USE DEF locals, history

-----------------------------------------------------------------------------
(* compress(), and what happens to the archive *)

LEMMA WriteEntryOK == IInv /\ _write_entry => IInv'
<1> SUFFICES ASSUME IInv, _write_entry PROVE IInv'
  OBVIOUS
<1>1. PICK p \in _walk : archive' = [archive EXCEPT !.members = Append(@, EntryOf(disk, p))]
  BY DEF _write_entry, Left, Entry, EntryOf
<1>2. /\ p \in Paths /\ EntryOf(disk, p) \in Members
      /\ Destination \o EntryOf(disk, p).path \in Paths
  BY EntryFacts DEF _walk, IInv, TypeOK
<1>3. PICK e \in Members : e = EntryOf(disk, p)
  BY <1>2
<1>4. /\ archive.members \in Seq(Members) /\ archive'.members = Append(archive.members, e)
      /\ archive'.state = archive.state /\ archive' \in [state : {"absent", "partial", "whole"},
                                                         members : Seq(Members)]
  <2>1. /\ archive \in [state : {"absent", "partial", "whole"}, members : Seq(Members)]
        /\ archive' = [archive EXCEPT !.members = Append(archive.members, e)]
    BY <1>1, <1>3 DEF IInv, TypeOK
  <2>2. Append(archive.members, e) \in Seq(Members)
    BY <2>1
  <2>3. archive' = [state |-> archive.state, members |-> Append(archive.members, e)]
    BY <2>1
  <2> QED  BY <2>1, <2>2, <2>3
<1>5. Fits(archive'.members)
  BY <1>2, <1>3, <1>4 DEF Fits, IInv, Where
<1>6. /\ pc = "compress" /\ pc' = "compress" /\ archive.state = "partial" /\ origin = <<>>
      /\ UNCHANGED <<disk, i, goal, depth, created_files, created_folders, before, kept, origin>>
  BY DEF _write_entry, IInv, Where, Whole
<1>7. TypeOK'
  BY <1>4, <1>6 DEF IInv, TypeOK
<1>8. Where'
  BY <1>4, <1>5, <1>6 DEF IInv, Where, Active
<1>9. Disks'
  BY <1>6 DEF IInv, Disks, ExistingKept, Noted, Running, Ended, Active
<1>10. Done' /\ Whole'
  BY <1>6 DEF Done, Whole, Active
<1> QED  BY <1>7, <1>8, <1>9, <1>10 DEF IInv

(* The other actions that run outside extract(). *)
LEMMA ArchiveOK ==
    IInv /\ (compress \/ compress_end \/ compress_error \/ discard \/ \E a \in Archives : supply(a))
        => IInv'
<1> SUFFICES ASSUME IInv,
                    compress \/ compress_end \/ compress_error \/ discard \/ \E a \in Archives : supply(a)
             PROVE  IInv'
  OBVIOUS
<1>1. /\ pc \in {"idle", "compress"} /\ pc' \in {"idle", "compress"}
      /\ UNCHANGED <<disk, i, goal, depth, created_files, created_folders, before, kept>>
  BY DEF compress, compress_end, compress_error, discard, supply
<1>2. \A a \in Archives : a \in Seq(Members) /\ Fits(a)
  BY ArchivesAssumption DEF Fits
<1>3. /\ <<>> \in Seq(Members) /\ Fits(<<>>)
      /\ archive \in [state : {"absent", "partial", "whole"}, members : Seq(Members)]
      /\ Fits(archive.members)
  BY DEF Fits, IInv, TypeOK, Where
<1>4. /\ archive' \in [state : {"absent", "partial", "whole"}, members : Seq(Members)]
      /\ Fits(archive'.members)
      /\ pc' = "compress" => archive'.state = "partial"
  <2>1. CASE compress \/ discard
    <3>1. archive'.members = <<>> /\ (pc' = "compress" => archive'.state = "partial")
      BY <2>1 DEF compress, discard, NoArchive
    <3>2. archive' \in [state : {"absent", "partial", "whole"}, members : Seq(Members)]
      BY <2>1, EmptyArchive DEF compress, discard
    <3> QED  BY <3>1, <3>2, <1>3
  <2>3. CASE compress_end
    <3>1. archive' = [state |-> "whole", members |-> archive.members] /\ pc' = "idle"
      BY <2>3, <1>3 DEF compress_end
    <3> QED  BY <3>1, <1>3
  <2>4. CASE compress_error
    <3>1. archive'.members \in {<<>>, archive.members} /\ pc' = "idle"
      BY <2>4 DEF compress_error, NoArchive
    <3>2. archive' \in [state : {"absent", "partial", "whole"}, members : Seq(Members)]
      BY <2>4, <1>3, EmptyArchive DEF compress_error
    <3> QED  BY <3>1, <3>2, <1>3
  <2>2. CASE \E a \in Archives : supply(a)
    BY <2>2, <1>2, <1>3 DEF supply
  <2> QED  BY <2>1, <2>2, <2>3, <2>4
<1>5. origin' \in {origin, disk, <<>>}
  BY DEF compress, compress_end, compress_error, discard, supply
<1>6. TypeOK'
  BY <1>1, <1>4, <1>5 DEF IInv, TypeOK
<1>7. Where'
  BY <1>1, <1>4 DEF IInv, Where, Active
<1>8. Disks'
  BY <1>1 DEF IInv, Disks, ExistingKept, Noted, Running, Ended, Active
<1>9. Done'
  BY <1>1 DEF Done, Active
<1>10. Whole'
  <2>1. CASE compress_end
    <3> SUFFICES ASSUME NEW p \in Paths, Within(p, Source), disk[p] # Absent
                 PROVE  \E n \in 1 .. Len(archive.members) : archive.members[n] = EntryOf(disk, p)
      BY <2>1, <1>3 DEF compress_end, Whole
    <3>1. p \in _walk /\ p \notin Left
      BY <2>1 DEF _walk, compress_end
    <3>2. \E n \in DOMAIN archive.members : archive.members[n] = EntryOf(disk, p)
      BY <3>1 DEF Left, Entry, EntryOf
    <3> QED  BY <3>2, <1>3
  <2>2. CASE discard \/ \E a \in Archives : supply(a)
    BY <2>2 DEF discard, supply, Whole
  <2>3. CASE compress \/ compress_error
    <3>1. archive.state # "whole"
      BY <2>3 DEF compress, compress_error, IInv, Where
    <3> QED  BY <3>1, <2>3 DEF compress, compress_error, Whole, IInv
  <2> QED  BY <2>1, <2>2, <2>3
<1> QED  BY <1>6, <1>7, <1>8, <1>9, <1>10 DEF IInv

-----------------------------------------------------------------------------
(* extract(): the actions that leave the disk alone *)

LEMMA ExtractOK == IInv /\ extract => IInv'
<1> SUFFICES ASSUME IInv, extract PROVE IInv'
  OBVIOUS
<1>1. /\ pc = "idle" /\ created_files = <<>> /\ created_folders = <<>>
      /\ before' = disk /\ kept' = FALSE /\ i' = 0
      /\ UNCHANGED <<disk, archive, created_files, created_folders, origin>>
      /\ \/ pc' = "mkdirs" /\ goal' = Destination /\ depth' = 1
         \/ pc' = "clean" /\ goal' = goal /\ depth' = depth
  BY DEF extract, _mkdirs, IInv, Where
<1>2. TypeOK'
  <2>1. kept' \in BOOLEAN
    BY <1>1, Zenon
  <2> QED  BY <1>1, <2>1, PathsAssumption DEF IInv, TypeOK, Running
<1>3. Where'
  BY <1>1, PathsAssumption DEF IInv, Where, Active, InFolders
<1>4. Disks'
  BY <1>1, EmptyRange DEF IInv, Disks, ExistingKept, Noted, Running, Ended, Active, Ordered
<1>5. Done' /\ Whole'
  BY <1>1, EmptyRange DEF IInv, Done, Whole, Noted, TypeOK, Active
<1> QED  BY <1>2, <1>3, <1>4, <1>5 DEF IInv

LEMMA MkdirsEndOK == IInv /\ mkdirs_end => IInv'
<1> SUFFICES ASSUME IInv, mkdirs_end PROVE IInv'
  OBVIOUS
<1>1. /\ pc = "mkdirs" /\ depth > Len(goal) /\ goal' = <<>> /\ depth' = 1
      /\ UNCHANGED <<disk, archive, created_files, created_folders, before, kept, origin>>
      /\ \/ (i = 0 \/ member.folder) /\ pc' = "member" /\ i' = i + 1
         \/ i # 0 /\ ~member.folder /\ pc' = "open" /\ i' = i
  BY DEF mkdirs_end, Next_member
<1>2. InFolders /\ goal \in Paths /\ Len(goal) \in Nat \ {0} /\ depth \in Nat /\ i \in Nat
  BY <1>1, PathFacts DEF IInv, Where, InFolders, TypeOK
<1>3. disk[goal] = Folder
  BY <1>1, <1>2, PathFacts DEF InFolders
<1>4. TypeOK'
  BY <1>1, <1>2 DEF IInv, TypeOK, Running
<1>5. Where'
  <2>1. CASE pc' = "member"
    BY <2>1, <1>1, <1>2 DEF IInv, Where, Active
  <2>2. CASE pc' = "open"
    BY <2>2, <1>1, <1>2, <1>3 DEF IInv, Where, Active, InFolders, InFile, member, target
  <2> QED  BY <2>1, <2>2, <1>1
<1>6. Disks'
  BY <1>1 DEF IInv, Disks, ExistingKept, Noted, Running, Ended, Active
<1>7. Done'
  <2>1. \A n \in 1 .. Len(archive.members) : n < i => Placed(n)
    BY <1>1 DEF IInv, Done, Active
  <2>2. i # 0 /\ member.folder => Placed(i)
    BY <1>2, <1>3 DEF InFolders, Placed, member, target
  <2>3. \A n \in 1 .. Len(archive.members) : n < i' => Placed(n)
    BY <2>1, <2>2, <1>1, <1>2
  <2> QED  BY <2>3, <1>1 DEF IInv, Done, Active, Placed, Noted, Belongs
<1>8. Whole'
  BY <1>1 DEF IInv, Whole
<1> QED  BY <1>4, <1>5, <1>6, <1>7, <1>8 DEF IInv

LEMMA EnterOK == IInv /\ enter => IInv'
<1> SUFFICES ASSUME IInv, enter PROVE IInv'
  OBVIOUS
<1>1. /\ pc = "member" /\ i <= Len(archive.members) /\ i \in Nat /\ i # 0
      /\ i \in 1 .. Len(archive.members)
      /\ UNCHANGED <<disk, archive, created_files, created_folders, before, kept, origin>>
      /\ \/ pc' = "clean" /\ i' = i /\ goal' = goal /\ depth' = depth
         \/ pc' = "member" /\ i' = i + 1 /\ goal' = <<>> /\ depth' = 1 /\ member.path = <<>>
         \/ /\ pc' = "mkdirs" /\ i' = i /\ depth' = 1 /\ member.path # <<>>
            /\ goal' = IF member.folder THEN target ELSE Parent(target)
  BY DEF enter, Raise, Next_member, _mkdirs, IInv, Where, TypeOK
<1>2. member.path # <<>> => target \in Paths /\ Parent(target) \in Paths
  BY <1>1, TargetFacts DEF IInv, Where, member, target
<1>3. TypeOK'
  BY <1>1, <1>2 DEF IInv, TypeOK, Running
<1>4. Where'
  <2>1. CASE pc' # "mkdirs"
    BY <2>1, <1>1 DEF IInv, Where, Active
  <2>2. CASE pc' = "mkdirs"
    <3>1. i' = i /\ member' = member /\ target' = target /\ depth' = 1 /\ member.path # <<>>
            /\ goal' = IF member.folder THEN target ELSE Parent(target)
      BY <2>2, <1>1 DEF member, target
    <3>2. \A k \in 1 .. Len(goal') : ~ (k < depth')
      BY <3>1, <1>2, PathFacts
    <3>3. InFolders'
      BY <3>1, <3>2, <1>1, <1>2 DEF InFolders
    <3> QED  BY <2>2, <3>3, <1>1 DEF IInv, Where, Active
  <2> QED  BY <2>1, <2>2
<1>5. Disks'
  BY <1>1 DEF IInv, Disks, ExistingKept, Noted, Running, Ended, Active
<1>6. Done'
  <2>1. \A n \in 1 .. Len(archive.members) : n < i => Placed(n)
    BY <1>1 DEF IInv, Done, Active
  <2>2. member.path = <<>> => Placed(i)
    BY DEF Placed, member
  <2>3. \A n \in 1 .. Len(archive.members) : n < i' => Placed(n)
    BY <2>1, <2>2, <1>1
  <2> QED  BY <2>3, <1>1 DEF IInv, Done, Active, Placed, Noted, Belongs
<1>7. Whole'
  BY <1>1 DEF IInv, Whole
<1> QED  BY <1>3, <1>4, <1>5, <1>6, <1>7 DEF IInv

(* The end of an extraction, normal or not, and an error inside of it. *)
LEMMA LeaveOK == IInv /\ (extract_end \/ interrupt \/ return) => IInv'
<1> SUFFICES ASSUME IInv, extract_end \/ interrupt \/ return PROVE IInv'
  OBVIOUS
<1> USE DEF Running, Ended, Active
<1>1. UNCHANGED <<disk, archive, before, kept, origin>>
  BY DEF extract_end, interrupt, return
<1>2. CASE extract_end \/ interrupt
  <2>1. /\ UNCHANGED <<i, goal, depth, created_files, created_folders>>
        /\ \/ pc = "member" /\ i > Len(archive.members) /\ pc' = "done"
           \/ pc \in Running /\ pc' = "interrupted"
    BY <1>2 DEF extract_end, interrupt
  <2>2. TypeOK' /\ Where' /\ Whole'
    BY <1>1, <2>1 DEF IInv, TypeOK, Where, Whole
  <2>3. Disks'
    BY <1>1, <2>1 DEF IInv, Disks, ExistingKept, Noted
  <2>4. Done'
    <3>1. CASE pc' = "done"
      <4>1. \A n \in 1 .. Len(archive.members) : Placed(n)
        BY <3>1, <2>1 DEF IInv, Done, TypeOK
      <4> QED  BY <4>1, <3>1, <1>1, <2>1 DEF IInv, Done, Placed, Noted, Belongs
    <3>2. CASE pc' = "interrupted"
      BY <3>2 DEF Done
    <3> QED  BY <3>1, <3>2, <2>1
  <2> QED  BY <2>2, <2>3, <2>4 DEF IInv
<1>3. CASE return
  <2>1. /\ pc \in Ended /\ pc' = "idle" /\ i' = 1 /\ goal' = <<>> /\ depth' = 1
        /\ created_files' = <<>> /\ created_folders' = <<>>
    BY <1>3 DEF return
  <2>2. TypeOK' /\ Where' /\ Whole'
    BY <1>1, <2>1 DEF IInv, TypeOK, Where, Whole
  <2>3. Disks' /\ Done'
    BY <1>1, <2>1, EmptyRange DEF IInv, Disks, ExistingKept, Noted, Ordered, Done
  <2> QED  BY <2>2, <2>3 DEF IInv
<1> QED  BY <1>2, <1>3

LEMMA RaiseOK ==
    ASSUME IInv, pc \in Active, pc' = "clean",
           UNCHANGED <<disk, archive, i, goal, depth, created_files, created_folders, before, kept, origin>>
    PROVE  IInv'
<1>1. TypeOK' /\ Where' /\ Done' /\ Whole'
  BY DEF IInv, TypeOK, Where, Whole, Done, Running, Active
<1>2. Disks'
  BY DEF IInv, Disks, ExistingKept, Noted, Running, Ended, Active
<1> QED  BY <1>1, <1>2 DEF IInv

-----------------------------------------------------------------------------
(* extract(): the actions that change the disk *)

(* Something is made where nothing was, in a folder, and noted. *)
LEMMA MakeDisks ==
    ASSUME IInv, pc \in Active, NEW x \in Paths, NEW what \in {Folder, Torn},
           disk[x] = Absent, Len(x) > 1 => disk[Parent(x)] = Folder,
           disk' = [disk EXCEPT ![x] = what],
           \/ /\ what = Folder /\ created_folders' = Append(created_folders, x)
              /\ created_files' = created_files
           \/ /\ what = Torn /\ created_files' = Append(created_files, x)
              /\ created_folders' = created_folders,
           pc' \in Active, UNCHANGED <<before, kept>>
    PROVE  /\ Disks' /\ before[x] = Absent
           /\ Noted' = Noted \cup {x} /\ (what = Torn => x \in Range(created_files'))
<1>1. /\ disk \in [Paths -> Texts \cup {Absent, Folder, Torn}]
      /\ created_files \in Seq(Paths) /\ created_folders \in Seq(Paths)
      /\ before \in [Paths -> Texts \cup {Absent, Folder, Torn}]
  BY DEF IInv, TypeOK
<1>2. \A p \in Paths : disk'[p] = IF p = x THEN what ELSE disk[p]
  BY <1>1
<1>3. /\ Range(created_files) \subseteq Paths /\ Range(created_folders) \subseteq Paths
      /\ \/ /\ what = Folder /\ Range(created_folders') = Range(created_folders) \cup {x}
            /\ Range(created_files') = Range(created_files)
         \/ /\ what = Torn /\ Range(created_files') = Range(created_files) \cup {x}
            /\ Range(created_folders') = Range(created_folders)
  BY <1>1, RangeFacts, ZenonT(60)
<1>4. Noted' = Noted \cup {x} /\ (what = Torn => x \in Range(created_files'))
  BY <1>3 DEF Noted
<1>5. before[x] = Absent
  BY DEF IInv, Disks, ExistingKept, Active, Running
<1>6. Tree(disk')
  <2> SUFFICES ASSUME NEW p \in Paths, disk'[p] # Absent, Len(p) > 1
               PROVE  disk'[Parent(p)] = Folder
    BY DEF Tree
  <2>1. Parent(p) \in Paths
    BY PathFacts
  <2>2. CASE p = x
    <3>1. Len(Parent(p)) # Len(p)
      BY PathFacts
    <3> QED  BY <2>1, <2>2, <3>1, <1>2
  <2>3. CASE p # x
    <3>1. disk[Parent(p)] = Folder
      BY <2>3, <1>2 DEF IInv, Disks, Tree
    <3> QED  BY <3>1, <2>1, <1>2
  <2> QED  BY <2>2, <2>3
<1>7. ExistingKept'
  BY <1>2, <1>5 DEF IInv, Disks, ExistingKept, Active, Running
<1>8. Tree(before') /\ \A p \in Noted' : before'[p] = Absent
  BY <1>4, <1>5 DEF IInv, Disks, Active, Running
<1>9. \A p \in Range(created_files') : disk'[p] # Folder /\ disk'[p] # Absent
  BY <1>2, <1>3 DEF IInv, Disks
<1>10. \A p \in Range(created_folders') : disk'[p] = Folder
  BY <1>2, <1>3 DEF IInv, Disks
<1>11. Ordered(created_folders')
  <2>1. CASE created_folders' = created_folders
    BY <2>1 DEF IInv, Disks
  <2>2. CASE created_folders' = Append(created_folders, x)
    <3> DEFINE s == created_folders
    <3>1. /\ Len(s) \in Nat /\ Len(created_folders') = Len(s) + 1
          /\ \A n \in 1 .. Len(s) : created_folders'[n] = s[n] /\ s[n] \in Range(s) /\ s[n] \in Paths
          /\ created_folders'[Len(s) + 1] = x
      BY <2>2, <1>1, RangeFacts
    <3>2. \A m \in 1 .. Len(s) : Len(s[m]) > 1 => Parent(s[m]) # x
      BY <3>1 DEF IInv, Disks, Tree
    <3>3. Len(x) > 1 => Parent(x) # x
      BY PathFacts
    <3>4. Ordered(s)
      BY DEF IInv, Disks
    <3> HIDE DEF s
    <3> SUFFICES ASSUME NEW n \in 1 .. Len(s) + 1, NEW m \in 1 .. Len(s) + 1,
                        Len(created_folders'[m]) > 1,
                        Parent(created_folders'[m]) = created_folders'[n]
                 PROVE  n < m
      BY <3>1 DEF Ordered
    <3>5. CASE n \in 1 .. Len(s) /\ m \in 1 .. Len(s)
      BY <3>5, <3>1, <3>4 DEF Ordered
    <3>6. CASE n = Len(s) + 1 /\ m \in 1 .. Len(s)
      BY <3>6, <3>1, <3>2
    <3>7. CASE m = Len(s) + 1
      BY <3>7, <3>1, <3>3
    <3> QED  BY <3>5, <3>6, <3>7, <3>1
  <2> QED  BY <2>1, <2>2
<1>12. kept' = FALSE => \A p \in Paths : disk'[p] # before'[p] => p \in Noted'
  BY <1>2, <1>4 DEF IInv, Disks, Active, Running
<1> QED
  BY <1>4, <1>5, <1>6, <1>7, <1>8, <1>9, <1>10, <1>11, <1>12 DEF Disks, Active, Running

(* What is in place stays in place. *)
LEMMA MakeDone ==
    ASSUME IInv, pc \in Active, NEW x \in Paths, disk[x] = Absent, NEW what,
           disk' = [disk EXCEPT ![x] = what], UNCHANGED <<archive, i>>
    PROVE  \A n \in 1 .. Len(archive.members) : n < i => Placed(n)'
<1> SUFFICES ASSUME NEW n \in 1 .. Len(archive.members), n < i PROVE Placed(n)'
  OBVIOUS
<1> DEFINE m == archive.members[n]
<1>1. m \in Members /\ Placed(n)
  BY DEF IInv, Done, TypeOK
<1>2. CASE m.path # <<>>
  <2>1. Destination \o m.path \in Paths
    BY DEF IInv, Where, Fits
  <2>2. disk[Destination \o m.path] # Absent
    BY <1>1, <1>2, TextsAreFiles DEF Placed, Members
  <2>3. disk'[Destination \o m.path] = disk[Destination \o m.path]
    BY <2>1, <2>2 DEF IInv, TypeOK
  <2> QED  BY <1>1, <2>3 DEF Placed
<1>3. CASE m.path = <<>>
  BY <1>3 DEF Placed
<1> QED  BY <1>2, <1>3

LEMMA MkdirOK == IInv /\ mkdir => IInv'
<1> SUFFICES ASSUME IInv, mkdir PROVE IInv'
  OBVIOUS
<1>0. PICK x : x = Prefix(goal, depth)
  OBVIOUS
<1>1. /\ pc = "mkdirs" /\ depth <= Len(goal) /\ goal \in Paths /\ InFolders
      /\ depth \in Nat \ {0} /\ Len(goal) \in Nat /\ i \in Nat
      /\ UNCHANGED <<archive, before, kept, origin>>
  BY PathFacts DEF mkdir, IInv, Where, InFolders, TypeOK
<1>2. x \in Paths /\ Within(goal, x) /\ Len(x) = depth
  BY <1>0, <1>1, PathFacts
<1>3. Len(x) > 1 => disk[Parent(x)] = Folder
  <2> SUFFICES ASSUME depth > 1 PROVE disk[Parent(x)] = Folder
    BY <1>2
  <2>1. Parent(x) = Prefix(goal, depth - 1) /\ depth - 1 \in 1 .. Len(goal) /\ depth - 1 < depth
    BY <1>0, <1>1, PathFacts
  <2> QED  BY <2>1, <1>1 DEF InFolders
<1>4. Belongs(x)
  <2>1. CASE i = 0
    BY <2>1, <1>1, <1>2 DEF InFolders, Belongs
  <2>2. CASE i # 0
    <3>1. /\ i \in 1 .. Len(archive.members) /\ member.path # <<>>
          /\ goal = IF member.folder THEN target ELSE Parent(target)
      BY <2>2, <1>1 DEF InFolders
    <3>2. target \in Paths /\ Len(target) > 1
      BY <3>1, TargetFacts DEF IInv, Where, member, target
    <3>3. Within(target, x)
      <4>1. CASE goal = target
        BY <4>1, <1>2
      <4>2. CASE goal = Parent(target)
        <5>1. goal = SubSeq(target, 1, Len(target) - 1) /\ Len(target) \in Nat /\ Len(goal) = Len(target) - 1
              /\ target \in Seq(Nat)
          BY <4>2, <3>2, PathFacts DEF Parent, Prefix
        <5>2. Prefix(goal, depth) = Prefix(target, depth) /\ depth <= Len(target)
          BY <5>1, <1>1 DEF Prefix
        <5> QED  BY <5>2, <1>0, <1>2 DEF Within
      <4> QED  BY <4>1, <4>2, <3>1
    <3> QED  BY <3>1, <3>3 DEF Belongs, member, target
  <2> QED  BY <2>1, <2>2
<1>5. CASE /\ disk[x] = Absent
           /\ disk' = [disk EXCEPT ![x] = Folder]
           /\ created_folders' = Append(created_folders, x)
           /\ depth' = depth + 1
           /\ UNCHANGED <<pc, i, goal, created_files>>
  <2>1. TypeOK'
    BY <1>5, <1>1, <1>2 DEF IInv, TypeOK
  <2>2. \A p \in Paths : disk'[p] = IF p = x THEN Folder ELSE disk[p]
    BY <1>5 DEF IInv, TypeOK
  <2>3. Disks' /\ Noted' = Noted \cup {x}
    BY <1>1, <1>2, <1>3, <1>5, MakeDisks DEF Active
  <2>4. InFolders'
    <3>1. \A k \in 1 .. Len(goal) : k < depth + 1 => disk'[Prefix(goal, k)] = Folder
      <4> SUFFICES ASSUME NEW k \in 1 .. Len(goal), k < depth + 1 PROVE disk'[Prefix(goal, k)] = Folder
        OBVIOUS
      <4>1. Prefix(goal, k) \in Paths
        BY <1>1, PathFacts
      <4>2. CASE k < depth
        BY <4>1, <4>2, <2>2, <1>1 DEF InFolders
      <4>3. CASE k = depth
        BY <4>1, <4>3, <2>2, <1>0
      <4> QED  BY <4>2, <4>3, <1>1
    <3> QED  BY <3>1, <1>1, <1>5 DEF InFolders, member, target
  <2>5. Where'
    BY <2>4, <1>1, <1>5 DEF IInv, Where, Active
  <2>6. Done'
    <3>1. \A n \in 1 .. Len(archive.members) : n < i => Placed(n)'
      BY <1>1, <1>2, <1>5, MakeDone, TextsAreFiles DEF Active
    <3>2. \A p \in Noted' : Belongs(p)'
      BY <2>3, <1>1, <1>4 DEF IInv, Done, Active, Belongs
    <3> QED  BY <3>1, <3>2, <1>1, <1>5 DEF Done
  <2> QED  BY <2>1, <2>3, <2>5, <2>6, <1>1 DEF IInv, Whole
<1>6. CASE /\ disk[x] = Folder
           /\ depth' = depth + 1
           /\ UNCHANGED <<disk, pc, i, goal, created_files, created_folders>>
  <2>1. TypeOK'
    BY <1>6, <1>1 DEF IInv, TypeOK
  <2>2. InFolders'
    <3>1. \A k \in 1 .. Len(goal) : k < depth + 1 => disk[Prefix(goal, k)] = Folder
      BY <1>0, <1>1, <1>6 DEF InFolders
    <3> QED  BY <3>1, <1>1, <1>6 DEF InFolders, member, target
  <2>3. Where'
    BY <2>2, <1>1, <1>6 DEF IInv, Where, Active
  <2>4. Disks' /\ Done' /\ Whole'
    BY <1>1, <1>6 DEF IInv, Disks, ExistingKept, Noted, Done, Placed, Belongs, Whole
  <2> QED  BY <2>1, <2>3, <2>4 DEF IInv
<1>7. CASE Raise
  BY <1>7, <1>1, RaiseOK DEF Raise, Active
<1> QED  BY <1>0, <1>5, <1>6, <1>7 DEF mkdir

LEMMA OpenOK == IInv /\ open => IInv'
<1> SUFFICES ASSUME IInv, open PROVE IInv'
  OBVIOUS
<1>1. /\ pc = "open" /\ InFile /\ UNCHANGED <<archive, before, kept, origin>>
      /\ i \in 1 .. Len(archive.members) /\ member.path # <<>>
  BY DEF open, IInv, Where, InFile
<1>2. target \in Paths /\ Len(target) > 1 /\ Parent(target) \in Paths /\ Within(target, target)
  BY <1>1, TargetFacts DEF IInv, Where, member, target
<1>3. CASE /\ disk[target] = Absent
           /\ disk' = [disk EXCEPT ![target] = Torn]
           /\ created_files' = Append(created_files, target)
           /\ pc' = "write"
           /\ UNCHANGED <<i, goal, depth, created_folders>>
  <2>1. member' = member /\ target' = target
    BY <1>1, <1>3 DEF member, target
  <2>2. TypeOK'
    BY <1>1, <1>2, <1>3 DEF IInv, TypeOK, Running
  <2>3. /\ Disks' /\ before[target] = Absent
        /\ Noted' = Noted \cup {target} /\ target \in Range(created_files')
    BY <1>1, <1>2, <1>3, MakeDisks DEF Active, InFile
  <2>4. disk'[target] = Torn /\ disk'[Parent(target)] = Folder
    <3>1. Len(Parent(target)) # Len(target)
      BY <1>2, PathFacts
    <3> QED  BY <3>1, <1>1, <1>2, <1>3 DEF IInv, TypeOK, InFile
  <2>7. ASSUME NEW n \in 1 .. Len(archive.members), n < i, archive.members[n].path # <<>>
        PROVE  Destination \o archive.members[n].path # target
    <3>1. archive.members[n] \in Members /\ Placed(n)
      BY <1>1, <2>7 DEF IInv, Done, TypeOK, Active
    <3> QED  BY <1>3, <2>7, <3>1, TextsAreFiles DEF Placed, Members
  <2>5. Where'
    BY <2>1, <2>3, <2>4, <2>7, <1>1, <1>3 DEF IInv, Where, Active, InFile
  <2>6. Done'
    <3>1. \A n \in 1 .. Len(archive.members) : n < i => Placed(n)'
      BY <1>1, <1>2, <1>3, MakeDone, TextsAreFiles DEF Active
    <3>2. Belongs(target)
      BY <1>1, <1>2 DEF Belongs, member, target
    <3>3. \A p \in Noted' : Belongs(p)'
      BY <2>3, <3>2, <1>1 DEF IInv, Done, Active, Belongs
    <3> QED  BY <3>1, <3>3, <1>1, <1>3 DEF Done
  <2> QED  BY <2>2, <2>3, <2>5, <2>6, <1>1 DEF IInv, Whole
<1>4. CASE Raise
  BY <1>4, <1>1, RaiseOK DEF Raise, Active
<1> QED  BY <1>3, <1>4 DEF open

LEMMA WriteOK == IInv /\ write => IInv'
<1> SUFFICES ASSUME IInv, write PROVE IInv'
  OBVIOUS
<1>1. /\ pc = "write" /\ InFile /\ UNCHANGED <<archive, before, kept, origin>>
      /\ i \in 1 .. Len(archive.members) /\ member.path # <<>> /\ ~member.folder
      /\ disk[target] = Torn /\ before[target] = Absent /\ target \in Range(created_files)
  BY DEF write, IInv, Where, InFile
<1>2. target \in Paths
  BY <1>1, TargetFacts DEF IInv, Where, member, target
<1>3. CASE /\ member.fault # "data"
           /\ disk' = [disk EXCEPT ![target] = member.text]
           /\ Next_member
           /\ UNCHANGED <<created_files, created_folders>>
  <2>1. /\ pc' = "member" /\ i' = i + 1 /\ goal' = <<>> /\ depth' = 1
        /\ member.text \in Texts \cup {Torn} /\ i \in Nat
    <3>1. archive.members \in Seq(Members) /\ i \in Nat
      BY DEF IInv, TypeOK
    <3>2. member \in Members
      BY <3>1, <1>1 DEF member
    <3>3. member.text \in Texts \cup {Torn}
      BY <3>2 DEF Members
    <3> QED  BY <3>1, <3>3, <1>3 DEF Next_member
  <2>2. \A p \in Paths : disk'[p] = IF p = target THEN member.text ELSE disk[p]
    BY <1>2, <1>3 DEF IInv, TypeOK
  <2>3. member.text # Absent /\ member.text # Folder
    BY <2>1, TextsAreFiles
  <2>4. TypeOK'
    BY <1>1, <1>2, <1>3, <2>1 DEF IInv, TypeOK, Running
  <2>5. Where'
    BY <1>1, <1>3, <2>1 DEF IInv, Where, Active
  <2>6. Tree(disk')
    <3> SUFFICES ASSUME NEW p \in Paths, disk'[p] # Absent, Len(p) > 1 PROVE disk'[Parent(p)] = Folder
      BY DEF Tree
    <3>1. Parent(p) \in Paths /\ disk[p] # Absent
      BY <2>2, <1>1, PathFacts
    <3> QED  BY <3>1, <2>2, <1>1 DEF IInv, Disks, Tree
  <2>7. Disks'
    <3>1. ExistingKept'
      BY <2>1, <2>2, <1>1 DEF IInv, Disks, ExistingKept, Running
    <3>2. Noted' = Noted /\ target \in Noted
      BY <1>1, <1>3 DEF Noted
    <3>3. Range(created_files) \subseteq Paths /\ Range(created_folders) \subseteq Paths
      BY RangeFacts DEF IInv, TypeOK
    <3>4. \A p \in Range(created_files') : disk'[p] # Folder /\ disk'[p] # Absent
      BY <3>3, <2>2, <2>3, <1>1, <1>3 DEF IInv, Disks, Active
    <3>5. \A p \in Range(created_folders') : disk'[p] = Folder
      BY <3>3, <2>2, <1>1, <1>3 DEF IInv, Disks, Active
    <3>6. kept' = FALSE => \A p \in Paths : disk'[p] # before'[p] => p \in Noted'
      BY <3>2, <2>2, <1>1 DEF IInv, Disks, Running
    <3>7. Tree(before') /\ \A p \in Noted' : before'[p] = Absent
      BY <3>2, <1>1 DEF IInv, Disks, Running
    <3> QED
      BY <2>1, <2>6, <3>1, <3>4, <3>5, <3>6, <3>7, <1>3 DEF IInv, Disks, Running, Active
  <2>8. Done'
    <3>1. \A n \in 1 .. Len(archive.members) : n < i => Placed(n)'
      <4> SUFFICES ASSUME NEW n \in 1 .. Len(archive.members), n < i PROVE Placed(n)'
        OBVIOUS
      <4> DEFINE m == archive.members[n]
      <4>1. m \in Members /\ Placed(n)
        BY <1>1 DEF IInv, Done, TypeOK, Active
      <4>2. CASE m.path # <<>>
        <5>1. Destination \o m.path \in Paths
          BY DEF IInv, Where, Fits
        <5>2. Destination \o m.path # target
          BY <1>1, <4>2 DEF InFile
        <5>3. disk'[Destination \o m.path] = disk[Destination \o m.path]
          BY <5>1, <5>2, <2>2
        <5> QED  BY <4>1, <5>3, <1>1 DEF Placed
      <4>3. CASE m.path = <<>>
        BY <4>3, <1>1 DEF Placed
      <4> QED  BY <4>2, <4>3
    <3>2. ASSUME NEW n, n = i PROVE Placed(n)'
      <4>1. disk'[Destination \o archive.members[n].path] = archive.members[n].text
        BY <3>2, <1>2, <2>2 DEF member, target
      <4> QED  BY <4>1, <3>2, <1>1, <1>3 DEF Placed, member
    <3>3. \A n \in 1 .. Len(archive.members) : n < i + 1 => Placed(n)'
      BY <3>1, <3>2, <2>1
    <3>4. \A p \in Noted' : Belongs(p)'
      BY <1>1, <1>3 DEF IInv, Done, Active, Noted, Belongs
    <3> QED  BY <3>3, <3>4, <2>1, <1>1 DEF Done
  <2> QED  BY <2>4, <2>5, <2>7, <2>8, <1>1 DEF IInv, Whole
<1>4. CASE Raise
  BY <1>4, <1>1, RaiseOK DEF Raise, Active
<1> QED  BY <1>3, <1>4 DEF write

-----------------------------------------------------------------------------
(* _cleanup() *)

(* The last folder is empty, once the files are gone. *)
LEMMA LastEmpty ==
    ASSUME IInv, pc = "clean", kept = FALSE, created_files = <<>>, created_folders # <<>>
    PROVE  \A p \in Paths : disk[p] # Absent /\ Len(p) > 1 => Parent(p) # Last(created_folders)
<1> SUFFICES ASSUME NEW p \in Paths, disk[p] # Absent, Len(p) > 1,
                    Parent(p) = Last(created_folders)
             PROVE  FALSE
  OBVIOUS
<1> DEFINE s == created_folders
           l == Last(s)
<1>1. /\ s \in Seq(Paths) /\ l \in Paths /\ l = s[Len(s)] /\ Len(s) \in Nat \ {0}
      /\ Range(s) = {s[n] : n \in 1 .. Len(s)}
  BY FrontLast, RangeFacts DEF IInv, TypeOK
<1>2. Noted = Range(s)
  BY EmptyRange DEF Noted
<1>3. l \in Range(s)
  BY <1>1
<1>4. before[l] = Absent
  BY <1>2, <1>3 DEF IInv, Disks, Running
<1>5. before[p] = Absent
  BY <1>4 DEF IInv, Disks, Tree, Running
<1>6. p \in Range(s)
  BY <1>2, <1>5 DEF IInv, Disks, Running
<1>7. PICK n \in 1 .. Len(s) : s[n] = p
  BY <1>1, <1>6
<1>8. Len(s) < n
  BY <1>1, <1>7 DEF IInv, Disks, Ordered
<1> QED  BY <1>1, <1>7, <1>8

(* Something noted is removed. *)
LEMMA CleanupOK == IInv /\ _cleanup => IInv'
<1> SUFFICES ASSUME IInv, _cleanup PROVE IInv'
  OBVIOUS
<1> USE DEF Running, Ended, Active
<1>1. /\ pc = "clean" /\ UNCHANGED <<archive, i, goal, depth, before, origin>>
  BY DEF _cleanup
<1>2. /\ disk \in [Paths -> Texts \cup {Absent, Folder, Torn}]
      /\ created_files \in Seq(Paths) /\ created_folders \in Seq(Paths)
  BY DEF IInv, TypeOK
<1>3. CASE created_files = <<>> /\ created_folders = <<>>
  <2>1. pc' = "failed" /\ UNCHANGED <<disk, created_files, created_folders, kept>>
    BY <1>3 DEF _cleanup
  <2>2. TypeOK' /\ Where' /\ Done' /\ Whole'
    BY <2>1, <1>1, <1>3 DEF IInv, TypeOK, Where, Done, Whole
  <2>3. Disks'
    BY <2>1, <1>1 DEF IInv, Disks, ExistingKept, Noted
  <2> QED  BY <2>2, <2>3 DEF IInv
<1>4. CASE created_files # <<>>
  <2> DEFINE x == Last(created_files)
  <2>1. /\ pc' = "clean" /\ created_folders' = created_folders /\ created_files' = Front(created_files)
        /\ \/ disk' = [disk EXCEPT ![x] = Absent] /\ kept' = kept
           \/ disk' = disk /\ kept' = TRUE
    BY <1>1, <1>4 DEF _cleanup
  <2>2. /\ x \in Paths /\ Front(created_files) \in Seq(Paths)
        /\ Range(created_files) = Range(created_files') \cup {x}
    BY <2>1, <1>2, <1>4, FrontLast, RangeFacts
  <2> HIDE DEF x
  <2>3. Noted = Noted' \cup {x} /\ x \in Range(created_files)
    BY <2>1, <2>2 DEF Noted
  <2>4. disk[x] # Folder /\ before[x] = Absent
    BY <2>2, <2>3, <1>1 DEF IInv, Disks
  <2>5. TypeOK' /\ Where' /\ Done' /\ Whole'
    <3>1. kept' \in BOOLEAN
      BY <2>1, Zenon DEF IInv, TypeOK
    <3>2. TypeOK'
      BY <3>1, <2>1, <2>2, <1>1, <1>2 DEF IInv, TypeOK
    <3> QED  BY <3>2, <2>1, <1>1 DEF IInv, Where, Done, Whole
  <2>6. Disks'
    <3>1. CASE disk' = disk /\ kept' = TRUE
      BY <3>1, <2>1, <2>2, <2>3, <1>1 DEF IInv, Disks, ExistingKept
    <3>2. CASE disk' = [disk EXCEPT ![x] = Absent] /\ kept' = kept
      <4>1. \A p \in Paths : disk'[p] = IF p = x THEN Absent ELSE disk[p]
        BY <3>2, <1>2
      <4>2. Tree(disk')
        <5> SUFFICES ASSUME NEW p \in Paths, disk'[p] # Absent, Len(p) > 1
                     PROVE  disk'[Parent(p)] = Folder
          BY DEF Tree
        <5>1. Parent(p) \in Paths /\ disk[p] # Absent
          BY <4>1, PathFacts
        <5>2. disk[Parent(p)] = Folder
          BY <5>1 DEF IInv, Disks, Tree
        <5> QED  BY <5>1, <5>2, <4>1, <2>4
      <4>3. ExistingKept'
        BY <4>1, <2>4, <1>1 DEF IInv, Disks, ExistingKept
      <4>4. \A p \in Range(created_files') : disk'[p] # Folder
        <5>1. Range(created_files') \subseteq Paths
          BY <2>2, <1>2, RangeFacts
        <5> QED  BY <5>1, <4>1, <2>2 DEF IInv, Disks
      <4>5. kept' = FALSE => \A p \in Paths : disk'[p] # before'[p] => p \in Noted'
        BY <4>1, <2>3, <2>4, <3>2, <1>1 DEF IInv, Disks
      <4>6. Tree(before') /\ \A p \in Noted' : before'[p] = Absent
        BY <2>3, <1>1 DEF IInv, Disks
      <4> QED  BY <4>2, <4>3, <4>4, <4>5, <4>6, <2>1, <1>1 DEF IInv, Disks
    <3> QED  BY <3>1, <3>2, <2>1
  <2> QED  BY <2>5, <2>6 DEF IInv
<1>5. CASE created_files = <<>> /\ created_folders # <<>>
  <2> DEFINE x == Last(created_folders)
             Empty == \A p \in Paths : disk[p] # Absent /\ Len(p) > 1 => Parent(p) # x
  <2>1. /\ pc' = "clean" /\ created_files' = created_files /\ created_folders' = Front(created_folders)
        /\ \/ Empty /\ disk' = [disk EXCEPT ![x] = Absent] /\ kept' = kept
           \/ ~Empty /\ disk' = disk /\ kept' = kept
           \/ disk' = disk /\ kept' = TRUE
    BY <1>1, <1>5 DEF _cleanup
  <2>2. /\ x \in Paths /\ Front(created_folders) \in Seq(Paths)
        /\ Range(created_folders) = Range(created_folders') \cup {x}
    BY <2>1, <1>2, <1>5, FrontLast, RangeFacts
  <2>3. kept = FALSE => Empty
    BY <1>1, <1>5, LastEmpty
  <2>4. Ordered(created_folders')
    <3>1. /\ Len(created_folders') = Len(created_folders) - 1 /\ Len(created_folders) \in Nat
          /\ \A n \in 1 .. Len(created_folders) - 1 : created_folders'[n] = created_folders[n]
      BY <2>1, <1>2, <1>5, FrontLast
    <3>2. Ordered(created_folders)
      BY DEF IInv, Disks
    <3> QED  BY <3>1, <3>2 DEF Ordered
  <2> HIDE DEF x
  <2>5. Noted = Noted' \cup {x} /\ Range(created_files') = Range(created_files)
    BY <2>1, <2>2 DEF Noted
  <2>6. before[x] = Absent
    BY <2>5, <1>1 DEF IInv, Disks
  <2>7. TypeOK' /\ Where' /\ Done' /\ Whole'
    <3>1. kept' \in BOOLEAN
      BY <2>1, Zenon DEF IInv, TypeOK
    <3>2. TypeOK'
      BY <3>1, <2>1, <2>2, <1>1, <1>2 DEF IInv, TypeOK
    <3> QED  BY <3>2, <2>1, <1>1 DEF IInv, Where, Done, Whole
  <2>8. Disks'
    <3>1. CASE disk' = disk /\ kept' # FALSE
      BY <3>1, <2>1, <2>4, <2>5, <1>1 DEF IInv, Disks, ExistingKept
    <3>2. CASE Empty /\ disk' = [disk EXCEPT ![x] = Absent] /\ kept' = kept
      <4>1. \A p \in Paths : disk'[p] = IF p = x THEN Absent ELSE disk[p]
        BY <3>2, <1>2
      <4>2. Tree(disk')
        <5> SUFFICES ASSUME NEW p \in Paths, disk'[p] # Absent, Len(p) > 1
                     PROVE  disk'[Parent(p)] = Folder
          BY DEF Tree
        <5>1. Parent(p) \in Paths /\ disk[p] # Absent
          BY <4>1, PathFacts
        <5>2. disk[Parent(p)] = Folder /\ Parent(p) # x
          BY <5>1, <3>2 DEF IInv, Disks, Tree
        <5> QED  BY <5>1, <5>2, <4>1
      <4>3. ExistingKept'
        BY <4>1, <2>6, <1>1 DEF IInv, Disks, ExistingKept
      <4>4. \A p \in Range(created_files') : disk'[p] # Folder
        BY <2>1, <1>5, EmptyRange
      <4>5. kept' = FALSE => \A p \in Paths : disk'[p] # before'[p] => p \in Noted'
        BY <4>1, <2>5, <2>6, <3>2, <1>1 DEF IInv, Disks
      <4>6. Tree(before') /\ \A p \in Noted' : before'[p] = Absent
        BY <2>5, <1>1 DEF IInv, Disks
      <4> QED  BY <4>2, <4>3, <4>4, <4>5, <4>6, <2>1, <2>4, <1>1 DEF IInv, Disks
    <3>3. CASE ~Empty /\ disk' = disk /\ kept' = kept
      BY <3>1, <3>3, <2>3
    <3> QED  BY <3>1, <3>2, <3>3, <2>1
  <2> QED  BY <2>7, <2>8 DEF IInv
<1> QED  BY <1>3, <1>4, <1>5

-----------------------------------------------------------------------------
LEMMA StepOK == IInv /\ [Next]_vars => IInv'
<1> SUFFICES ASSUME IInv, [Next]_vars PROVE IInv'
  OBVIOUS
<1>1. CASE UNCHANGED vars
  <2>1. TypeOK' /\ Whole'
    BY <1>1 DEF vars, locals, history, IInv, TypeOK, Whole
  <2>2. Disks'
    BY <1>1 DEF vars, locals, history, IInv, Disks, ExistingKept, Noted
  <2>3. Where'
    BY <1>1 DEF vars, locals, history, IInv, Where, InFolders, InFile, member, target
  <2>4. Done'
    BY <1>1 DEF vars, locals, history, IInv, Done, Placed, Belongs, Noted
  <2> QED  BY <2>1, <2>2, <2>3, <2>4 DEF IInv
<1>2. CASE Next
  BY <1>2, WriteEntryOK, ArchiveOK, ExtractOK, MkdirOK, MkdirsEndOK, EnterOK, OpenOK, WriteOK,
     LeaveOK, CleanupOK DEF Next
<1> QED  BY <1>1, <1>2

LEMMA Invariance == Spec => []IInv
<1> QED  BY InitOK, StepOK, PTL DEF Spec

(* The types of the state of compress() and extract(). *)
THEOREM TypeCorrect == Spec => []TypeOK
<1>1. IInv => TypeOK
  BY DEF IInv
<1> QED  BY <1>1, Invariance, PTL

(* extract() and _cleanup() leave alone what was there before. *)
THEOREM Preservation == Spec => []ExistingKept
<1>1. IInv => ExistingKept
  BY DEF IInv, Disks
<1> QED  BY <1>1, Invariance, PTL

(* A failed extract() is undone: rmdir() never meets a folder that is not
   empty, because the folders are noted in an order that _cleanup() reverses. *)
THEOREM Rollback == Spec => []RolledBack
<1>1. IInv => RolledBack
  <2> SUFFICES ASSUME IInv, pc = "failed", ~kept PROVE disk = before
    BY DEF RolledBack
  <2>1. kept = FALSE
    BY DEF IInv, TypeOK
  <2>2. Noted = {}
    BY EmptyRange DEF IInv, Where, Noted
  <2>3. \A p \in Paths : disk[p] = before[p]
    BY <2>1, <2>2 DEF IInv, Disks
  <2> QED  BY <2>3 DEF IInv, TypeOK
<1> QED  BY <1>1, Invariance, PTL

(* A successful extract() has put every member in place and nothing else. *)
THEOREM Extraction == Spec => []Extracted
<1>1. IInv => Extracted
  <2> SUFFICES ASSUME IInv, pc = "done" PROVE Extracted
    BY DEF Extracted
  <2>1. DOMAIN archive.members = 1 .. Len(archive.members)
    BY DEF IInv, TypeOK
  <2>2. \A n \in 1 .. Len(archive.members) : Placed(n)
    BY DEF IInv, Done
  <2>3. kept = FALSE
    BY DEF IInv, Where, Active
  <2>4. \A p \in Paths : disk[p] # before[p] => Belongs(p)
    BY <2>3 DEF IInv, Disks, Done, Active
  <2> QED  BY <2>1, <2>2, <2>4 DEF Extracted, Placed, Belongs
<1> QED  BY <1>1, Invariance, PTL

(* extract() gives back what compress() was given. *)
THEOREM Inversion == Spec => []RoundTrip
<1>1. IInv => RoundTrip
  <2> SUFFICES ASSUME IInv, pc = "done", origin # <<>>,
                      NEW p \in Paths, Within(p, Source), origin[p] # Absent
               PROVE  disk[Destination \o SubSeq(p, Len(Source), Len(p))] = origin[p]
    BY DEF RoundTrip
  <2>1. PICK n \in 1 .. Len(archive.members) : archive.members[n] = EntryOf(origin, p)
    BY DEF IInv, Whole
  <2>2. origin \in [Paths -> Texts \cup {Absent, Folder, Torn}]
    BY DEF IInv, TypeOK
  <2> DEFINE m == archive.members[n]
  <2>3. /\ m.path = SubSeq(p, Len(Source), Len(p)) /\ m.path # <<>>
        /\ m.folder <=> origin[p] = Folder
        /\ m.text = IF origin[p] = Folder THEN CHOOSE t \in Texts : TRUE ELSE origin[p]
    <3>1. EntryOf(origin, p).path # <<>>
      BY <2>2, EntryFacts
    <3>2. /\ EntryOf(origin, p).path = SubSeq(p, Len(Source), Len(p))
          /\ EntryOf(origin, p).text =
                 IF origin[p] = Folder THEN CHOOSE t \in Texts : TRUE ELSE origin[p]
      BY DEF EntryOf
    <3>3. EntryOf(origin, p).folder = (origin[p] = Folder)
      BY DEF EntryOf
    <3> QED  BY <3>1, <3>2, <3>3, <2>1
  <2>4. Placed(n)
    BY DEF IInv, Done
  <2> HIDE DEF m
  <2>5. disk[Destination \o m.path] = IF m.folder THEN Folder ELSE m.text
    BY <2>3, <2>4 DEF Placed, m
  <2> QED  BY <2>2, <2>3, <2>5
<1> QED  BY <1>1, Invariance, PTL
=============================================================================
