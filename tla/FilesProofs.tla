----------------------------- MODULE FilesProofs ----------------------------
(***************************************************************************)
(* The table and the storage agree, for every set of paths and of modes,   *)
(* every clipboard and any number of faults: proofs about Files.           *)
(*                                                                         *)
(* ModeFollows is not inductive: it is about an idle tool, and says        *)
(* nothing of an operation that is half done.  The invariant adds which    *)
(* entries the task at the head of job still owes the table, and what the  *)
(* tasks behind it rely on: a copy writes into what is free, in a folder   *)
(* that exists, and apart from what the other tasks of the copy write.     *)
(***************************************************************************)
EXTENDS Files, SumTheorems, SequenceTheorems, FiniteSetTheorems

Copying  == {"copy_file", "copy_tree"}
Building == Copying \cup {"list"}

(* What the tools enforce at p is what the user gave it. *)
Right(p) == IF _exists(p) THEN get_mode(p) = intent[p] ELSE cache[p] = None

(* Nothing is at p, nor below. *)
Free(p) == \A q \in Inside[p] : ~_exists(q)

(* What is at p, or below, needs no entry. *)
Plain(p) == \A q \in Inside[p] \ suspect : _exists(q) => intent[q] = Default(disk[q])

(* The entries that the task t has yet to write. *)
Owed(t) ==
    {p \in Paths : \/ t.op = "chmod" /\ p = t.to
                   \/ t.op = "remove" /\ p \in Inside[t.to]
                   \/ t.op = "move" /\ (p \in Inside[t.from] \/ p \in Inside[t.to])}

Settled == \A p \in Paths \ suspect : (job = <<>> \/ p \notin Owed(Head(job))) => Right(p)

(* The storage renamed old to new, and the table does not know yet. *)
Renaming(old, new) ==
    /\ Inside[old] \cap Inside[new] = {} /\ Free(old)
    /\ \A q \in Inside[new] \ suspect : cache[q] = None
    /\ \A q \in Inside[new] :
          LET s == Rebase(q, new, old) IN
          /\ s \notin Paths => ~_exists(q)
          /\ s \in Paths \ suspect =>
                IF _exists(q) THEN intent[q] = IF cache[s] # None THEN cache[s] ELSE Default(disk[q])
                ELSE cache[s] = None

TaskOK(t) ==
    /\ t.op # "paste" => t.top \in Paths /\ t.to \in Inside[t.top]
    /\ t.op = "paste" => t.to # <<>> /\ t.top = t.to
    /\ t.op = "paste" /\ clipboard.mode = "copy" => Has_parent(t.to)
    /\ t.op \in Copying => Has_parent(t.to) /\ Free(t.to)
    /\ t.op = "list" => _is_dir(t.to) /\ Holds_nothing(t.to)
    /\ t.op = "chmod" => _exists(t.to) /\ t.mode = intent[t.to]
    /\ t.op = "remove" => Plain(t.to)
    /\ t.op = "move" => Renaming(t.from, t.to)

(* How the task u behind t goes with it. *)
PairOK(t, u) ==
    /\ u.op \in Building \cup {"undo", "paste"}
    /\ t.op \in {"paste", "undo"} => u.op = "paste"
    /\ t.op \in Building /\ u.op \in Building => ~Within(t.to, u.to) /\ ~Within(u.to, t.to)
    /\ t.op \in Building \cup {"undo", "paste"} /\ u.op = "paste" /\ clipboard.mode = "copy" =>
           Parent(u.to) = Parent(t.top)

JobOK ==
    /\ \A n \in DOMAIN job : TaskOK(job[n])
    /\ \A m, n \in DOMAIN job : m < n => PairOK(job[m], job[n])

Saved == ~unsaved => stored = cache

IInv == TypeOK /\ JobOK /\ Settled /\ Saved

USE DEF Absent, Folder, Torn

-----------------------------------------------------------------------------
(* Paths.  Within is a partial order whose upper sets are chains; Rebase
   carries what is in one folder into another and back. *)

LEMMA WithinPoints ==
    ASSUME NEW p \in Seq(Nat), NEW q \in Seq(Nat)
    PROVE  Within(p, q) <=> Len(q) <= Len(p) /\ \A i \in 1 .. Len(q) : p[i] = q[i]
<1>1. CASE Len(q) <= Len(p)
  <2>1. /\ Prefix(p, Len(q)) \in Seq(Nat)
        /\ Len(Prefix(p, Len(q))) = Len(q)
        /\ \A i \in 1 .. Len(q) : Prefix(p, Len(q))[i] = p[i]
    BY <1>1 DEF Prefix
  <2>2. Prefix(p, Len(q)) = q <=> \A i \in 1 .. Len(q) : p[i] = q[i]
    BY <2>1, SeqEqual
  <2> QED BY <1>1, <2>2 DEF Within
<1>2. CASE ~(Len(q) <= Len(p))
  BY <1>2 DEF Within
<1> QED BY <1>1, <1>2

LEMMA WithinSelf ==
    ASSUME NEW p \in Seq(Nat)
    PROVE  Within(p, p)
BY WithinPoints

LEMMA WithinTrans ==
    ASSUME NEW p \in Seq(Nat), NEW q \in Seq(Nat), NEW r \in Seq(Nat),
           Within(p, q), Within(q, r)
    PROVE  Within(p, r)
BY WithinPoints

LEMMA WithinSame ==
    ASSUME NEW p \in Seq(Nat), NEW q \in Seq(Nat), Within(p, q), Len(p) <= Len(q)
    PROVE  p = q
<1>1. Len(p) = Len(q) /\ \A i \in 1 .. Len(q) : p[i] = q[i]
  BY WithinPoints
<1> QED BY <1>1, SeqEqual

LEMMA WithinChain ==
    ASSUME NEW p \in Seq(Nat), NEW q \in Seq(Nat), NEW r \in Seq(Nat),
           Within(p, q), Within(p, r), Len(q) <= Len(r)
    PROVE  Within(r, q)
<1>1. /\ \A i \in 1 .. Len(q) : p[i] = q[i]
      /\ \A i \in 1 .. Len(r) : p[i] = r[i]
  BY WithinPoints
<1>2. ASSUME NEW i \in 1 .. Len(q) PROVE r[i] = q[i]
  <2>1. i \in 1 .. Len(r)
    OBVIOUS
  <2> QED BY <1>1, <2>1
<1> QED BY <1>2, WithinPoints

LEMMA ParentFacts ==
    ASSUME NEW p \in Seq(Nat), p # <<>>
    PROVE  /\ Len(p) \in Nat \ {0}
           /\ Parent(p) \in Seq(Nat) /\ Len(Parent(p)) = Len(p) - 1
           /\ \A i \in 1 .. Len(p) - 1 : Parent(p)[i] = p[i]
           /\ Within(p, Parent(p)) /\ ~Within(Parent(p), p)
<1>1. Len(p) \in Nat \ {0}
  OBVIOUS
<1>2. /\ Parent(p) \in Seq(Nat) /\ Len(Parent(p)) = Len(p) - 1
      /\ \A i \in 1 .. Len(p) - 1 : Parent(p)[i] = p[i]
  <2>1. \A i \in 1 .. Len(p) - 1 : p[i] \in Nat
    BY <1>1
  <2>2. 1 \in Int /\ Len(p) - 1 \in Int
    BY <1>1
  <2>3. /\ SubSeq(p, 1, Len(p) - 1) \in Seq(Nat)
        /\ Len(SubSeq(p, 1, Len(p) - 1)) = IF 1 <= Len(p) - 1 THEN (Len(p) - 1) - 1 + 1 ELSE 0
        /\ \A i \in 1 .. (Len(p) - 1) - 1 + 1 : SubSeq(p, 1, Len(p) - 1)[i] = p[1 + i - 1]
    BY <2>1, <2>2, SubSeqProperties
  <2>4. (Len(p) - 1) - 1 + 1 = Len(p) - 1 /\ \A i \in 1 .. Len(p) - 1 : 1 + i - 1 = i
    BY <1>1
  <2> QED BY <1>1, <2>3, <2>4 DEF Parent, Prefix
<1>3. Within(p, Parent(p))
  <2>1. Len(Parent(p)) <= Len(p)
    BY <1>1, <1>2
  <2>2. \A i \in 1 .. Len(Parent(p)) : p[i] = Parent(p)[i]
    BY <1>2
  <2> QED BY <1>2, <2>1, <2>2, WithinPoints
<1>4. ~Within(Parent(p), p)
  BY <1>1, <1>2 DEF Within
<1> QED BY <1>1, <1>2, <1>3, <1>4

LEMMA ParentWithin ==
    ASSUME NEW p \in Seq(Nat), p # <<>>, NEW q \in Seq(Nat)
    PROVE  /\ Within(Parent(p), q) => Within(p, q)
           /\ Within(p, q) /\ p # q => Within(Parent(p), q)
<1>1. Within(Parent(p), q) => Within(p, q)
  BY ParentFacts, WithinTrans
<1>2. ASSUME Within(p, q), p # q PROVE Within(Parent(p), q)
  <2>1. Len(q) < Len(p)
    BY <1>2, WithinSame, WithinPoints
  <2> QED BY <1>2, <2>1, ParentFacts, WithinChain
<1> QED BY <1>1, <1>2

LEMMA RebaseFacts ==
    ASSUME NEW p \in Seq(Nat), NEW q \in Seq(Nat), NEW r \in Seq(Nat), Within(p, q)
    PROVE  /\ Rebase(p, q, r) \in Seq(Nat)
           /\ Len(Rebase(p, q, r)) = Len(r) + Len(p) - Len(q)
           /\ \A i \in 1 .. Len(r) : Rebase(p, q, r)[i] = r[i]
           /\ \A i \in 1 .. Len(p) - Len(q) : Rebase(p, q, r)[Len(r) + i] = p[Len(q) + i]
           /\ Within(Rebase(p, q, r), r)
<1> DEFINE s == SubSeq(p, Len(q) + 1, Len(p))
<1>1. Len(q) \in Nat /\ Len(p) \in Nat /\ Len(r) \in Nat /\ Len(q) <= Len(p)
  BY DEF Within
<1>2. s \in Seq(Nat) /\ Len(s) = Len(p) - Len(q)
      /\ \A i \in 1 .. Len(p) - Len(q) : s[i] = p[Len(q) + i]
  BY <1>1
<1>3. Rebase(p, q, r) = r \o s
  BY DEF Rebase
<1> HIDE DEF s
<1>4. r \o s \in Seq(Nat) /\ Len(r \o s) = Len(r) + Len(s)
      /\ \A i \in 1 .. Len(r) + Len(s) : (r \o s)[i] = IF i <= Len(r) THEN r[i] ELSE s[i - Len(r)]
  BY <1>2, ConcatProperties
<1> DEFINE t == r \o s
<1> HIDE DEF t
<1>5. t \in Seq(Nat) /\ Len(t) = Len(r) + Len(p) - Len(q)
  BY <1>1, <1>2, <1>4 DEF t
<1>6. ASSUME NEW i \in 1 .. Len(r) PROVE t[i] = r[i]
  <2>1. i \in 1 .. Len(r) + Len(s) /\ i <= Len(r)
    BY <1>1, <1>2
  <2> QED BY <2>1, <1>4 DEF t
<1>7. ASSUME NEW i \in 1 .. Len(p) - Len(q) PROVE t[Len(r) + i] = p[Len(q) + i]
  <2>1. /\ Len(r) + i \in 1 .. Len(r) + Len(s) /\ ~(Len(r) + i <= Len(r))
        /\ (Len(r) + i) - Len(r) = i
    BY <1>1, <1>2
  <2>2. t[Len(r) + i] = s[i]
    BY <2>1, <1>4 DEF t
  <2> QED BY <2>2, <1>2
<1>8. Within(t, r)
  <2>1. Len(r) <= Len(t)
    BY <1>1, <1>5
  <2> QED BY <2>1, <1>5, <1>6, WithinPoints
<1> QED BY <1>3, <1>5, <1>6, <1>7, <1>8 DEF t

(* The same, as one predicate on the result x. *)
IsRebase(x, p, q, r) ==
    /\ x \in Seq(Nat) /\ Len(x) = Len(r) + Len(p) - Len(q) /\ Within(x, r)
    /\ \A i \in 1 .. Len(r) : x[i] = r[i]
    /\ \A i \in 1 .. Len(p) - Len(q) : x[Len(r) + i] = p[Len(q) + i]

LEMMA Rebased ==
    ASSUME NEW p \in Seq(Nat), NEW q \in Seq(Nat), NEW r \in Seq(Nat), Within(p, q)
    PROVE  IsRebase(Rebase(p, q, r), p, q, r)
BY RebaseFacts, Zenon DEF IsRebase

LEMMA RebaseBack ==
    ASSUME NEW p \in Seq(Nat), NEW q \in Seq(Nat), NEW r \in Seq(Nat), Within(p, q)
    PROVE  Rebase(Rebase(p, q, r), r, q) = p
<1> DEFINE s == Rebase(p, q, r)
           t == Rebase(s, r, q)
<1>1. /\ s \in Seq(Nat) /\ Len(s) = Len(r) + Len(p) - Len(q) /\ Within(s, r)
      /\ \A i \in 1 .. Len(p) - Len(q) : s[Len(r) + i] = p[Len(q) + i]
  BY RebaseFacts
<1> HIDE DEF s
<1>2. /\ t \in Seq(Nat) /\ Len(t) = Len(q) + Len(s) - Len(r)
      /\ \A i \in 1 .. Len(q) : t[i] = q[i]
      /\ \A i \in 1 .. Len(s) - Len(r) : t[Len(q) + i] = s[Len(r) + i]
  <2>1. IsRebase(t, s, r, q)
    BY <1>1, Rebased
  <2> HIDE DEF t
  <2> QED BY <2>1 DEF IsRebase
<1> HIDE DEF t
<1>3. Len(q) <= Len(p) /\ \A i \in 1 .. Len(q) : p[i] = q[i]
  BY WithinPoints
<1>4. Len(t) = Len(p)
  BY <1>1, <1>2
<1>5. ASSUME NEW i \in 1 .. Len(p) PROVE t[i] = p[i]
  <2>1. CASE i <= Len(q)
    BY <2>1, <1>2, <1>3
  <2>2. CASE i > Len(q)
    <3>1. i - Len(q) \in 1 .. Len(p) - Len(q) /\ Len(q) + (i - Len(q)) = i
      BY <2>2
    <3>2. t[Len(q) + (i - Len(q))] = s[Len(r) + (i - Len(q))]
      <4>1. i - Len(q) \in 1 .. Len(s) - Len(r)
        BY <3>1, <1>1
      <4> QED BY <4>1, <1>2
    <3>3. s[Len(r) + (i - Len(q))] = p[Len(q) + (i - Len(q))]
      BY <3>1, <1>1
    <3> QED BY <3>1, <3>2, <3>3
  <2> QED BY <2>1, <2>2
<1>6. t = p
  BY <1>2, <1>4, <1>5, SeqEqual
<1> QED BY <1>6 DEF s, t

LEMMA RebaseParent ==
    ASSUME NEW p \in Seq(Nat), NEW q \in Seq(Nat), NEW r \in Seq(Nat),
           Within(p, q), p # q, p # <<>>
    PROVE  /\ Rebase(p, q, r) # <<>>
           /\ Parent(Rebase(p, q, r)) = Rebase(Parent(p), q, r)
<1> DEFINE s == Rebase(p, q, r)
           t == Rebase(Parent(p), q, r)
<1>1. Len(q) < Len(p) /\ Within(Parent(p), q)
  BY WithinSame, WithinPoints, ParentWithin
<1>2. /\ s \in Seq(Nat) /\ Len(s) = Len(r) + Len(p) - Len(q)
      /\ \A i \in 1 .. Len(r) : s[i] = r[i]
      /\ \A i \in 1 .. Len(p) - Len(q) : s[Len(r) + i] = p[Len(q) + i]
  <2>1. IsRebase(s, p, q, r)
    BY Rebased
  <2> HIDE DEF s
  <2> QED BY <2>1 DEF IsRebase
<1>3. /\ Parent(p) \in Seq(Nat) /\ Len(Parent(p)) = Len(p) - 1
      /\ \A i \in 1 .. Len(p) - 1 : Parent(p)[i] = p[i]
  BY ParentFacts
<1>4. /\ t \in Seq(Nat) /\ Len(t) = Len(r) + (Len(p) - 1) - Len(q)
      /\ \A i \in 1 .. Len(r) : t[i] = r[i]
      /\ \A i \in 1 .. (Len(p) - 1) - Len(q) : t[Len(r) + i] = Parent(p)[Len(q) + i]
  <2>1. PICK x : x = Parent(p)
    OBVIOUS
  <2>2. x \in Seq(Nat) /\ Within(x, q)
    BY <1>1, <1>3, <2>1
  <2>3. IsRebase(t, x, q, r)
    BY <2>1, <2>2, Rebased
  <2> HIDE DEF t
  <2> QED BY <1>3, <2>1, <2>3 DEF IsRebase
<1> HIDE DEF s, t
<1>5. s # <<>>
  BY <1>1, <1>2
<1>6. /\ Parent(s) \in Seq(Nat) /\ Len(Parent(s)) = Len(s) - 1
      /\ \A i \in 1 .. Len(s) - 1 : Parent(s)[i] = s[i]
  BY <1>2, <1>5, ParentFacts
<1>7. Len(Parent(s)) = Len(t)
  BY <1>1, <1>2, <1>4, <1>6
<1>8. ASSUME NEW i \in 1 .. Len(t) PROVE Parent(s)[i] = t[i]
  <2>0. Parent(s)[i] = s[i]
    BY <1>6, <1>7
  <2>1. CASE i <= Len(r)
    BY <2>0, <2>1, <1>2, <1>4
  <2>2. CASE i > Len(r)
    <3> DEFINE k == i - Len(r)
    <3>1. k \in 1 .. (Len(p) - 1) - Len(q) /\ Len(r) + k = i
      BY <2>2, <1>4
    <3>2. Len(q) + k \in 1 .. Len(p) - 1 /\ k \in 1 .. Len(p) - Len(q)
      BY <3>1, <1>1
    <3> HIDE DEF k
    <3>3. t[Len(r) + k] = Parent(p)[Len(q) + k] /\ Parent(p)[Len(q) + k] = p[Len(q) + k]
      BY <3>1, <3>2, <1>3, <1>4
    <3>4. s[Len(r) + k] = p[Len(q) + k]
      BY <3>2, <1>2
    <3> QED BY <2>0, <3>1, <3>3, <3>4
  <2> QED BY <2>1, <2>2
<1>9. Parent(s) = t
  BY <1>4, <1>6, <1>7, <1>8, SeqEqual
<1> QED BY <1>5, <1>9 DEF s, t

LEMMA RebaseWhole ==
    ASSUME NEW q \in Seq(Nat), NEW r \in Seq(Nat)
    PROVE  Rebase(q, q, r) = r
<1>1. /\ Rebase(q, q, r) \in Seq(Nat) /\ Len(Rebase(q, q, r)) = Len(r) + Len(q) - Len(q)
      /\ \A i \in 1 .. Len(r) : Rebase(q, q, r)[i] = r[i]
  BY WithinSelf, RebaseFacts
<1>2. Len(r) + Len(q) - Len(q) = Len(r)
  OBVIOUS
<1> QED BY <1>1, <1>2, SeqEqual

-----------------------------------------------------------------------------
(* The storage. *)

Contents == Texts \cup {Absent, Folder, Torn}

(* Everything that is there is in a folder that is there. *)
Rooted == disk \in [Paths -> Contents] /\ \A p \in Paths : _exists(p) => Has_parent(p)

LEMMA PathFacts ==
    ASSUME NEW p \in Paths
    PROVE  /\ p \in Seq(Nat) /\ p # <<>> /\ Len(p) \in Nat \ {0}
           /\ Parent(p) \in Seq(Nat) /\ Parent(p) \in Paths \cup {<<>>} /\ Parent(p) # p
           /\ p \in Inside[p] /\ Inside[p] \subseteq Paths
           /\ \A q \in Inside[p] : Within(q, p)
           /\ \A q \in Paths : Within(q, p) => q \in Inside[p]
<1>1. p \in Seq(Nat) /\ p # <<>>
  BY FilesAssumption
<1>2. /\ Len(p) \in Nat \ {0} /\ Parent(p) \in Seq(Nat) /\ Len(Parent(p)) = Len(p) - 1
  BY <1>1, ParentFacts
<1>3. Parent(p) \in Paths \cup {<<>>}
  <2>1. CASE Len(p) = 1
    BY <1>2, <2>1
  <2>2. CASE Len(p) # 1
    BY <1>2, <2>2, FilesAssumption DEF Parent
  <2> QED BY <2>1, <2>2
<1>4. Parent(p) # p
  BY <1>2
<1>5. p \in Inside[p]
  BY <1>1, WithinSelf DEF Inside
<1> QED BY <1>1, <1>2, <1>3, <1>4, <1>5 DEF Inside

(* What holds something is a folder. *)
LEMMA HolderIsFolder ==
    ASSUME Rooted, NEW p \in Paths, NEW q \in Inside[p], q # p, _exists(q)
    PROVE  _is_dir(p)
<1> DEFINE S == {n \in Nat : \A r \in Inside[p] : Len(r) = Len(p) + n + 1 /\ _exists(r) => _is_dir(p)}
<1>1. ASSUME NEW r \in Inside[p], r # p, _exists(r)
      PROVE  /\ Parent(r) \in Inside[p] /\ _is_dir(Parent(r)) /\ Len(r) > Len(p)
             /\ Len(Parent(r)) = Len(r) - 1
  <2>1. r \in Paths /\ Within(r, p) /\ r \in Seq(Nat) /\ p \in Seq(Nat) /\ r # <<>> /\ p # <<>>
    BY PathFacts
  <2>2. Within(Parent(r), p) /\ Parent(r) \in Seq(Nat) /\ Len(Parent(r)) = Len(r) - 1
    BY <1>1, <2>1, ParentWithin, ParentFacts
  <2>3. Len(p) <= Len(Parent(r)) /\ Len(p) \in Nat \ {0} /\ Len(r) \in Nat
    BY <2>1, <2>2, PathFacts DEF Within
  <2>4. Parent(r) # <<>>
    BY <2>2, <2>3
  <2>5. Parent(r) \in Paths
    BY <2>1, <2>4, PathFacts
  <2>6. Parent(r) \in Folders
    BY <1>1, <2>1 DEF Rooted, Has_parent
  <2> QED BY <2>2, <2>3, <2>4, <2>5, <2>6, PathFacts DEF Folders
<1>2. 0 \in S
  <2> SUFFICES ASSUME NEW r \in Inside[p], Len(r) = Len(p) + 0 + 1, _exists(r) PROVE _is_dir(p)
    OBVIOUS
  <2>1. Len(p) \in Nat
    BY PathFacts
  <2>2. r # p
    BY <2>1
  <2>3. Parent(r) \in Inside[p] /\ _is_dir(Parent(r)) /\ Len(Parent(r)) = Len(p)
    BY <1>1, <2>1, <2>2
  <2>4. Parent(r) = p
    BY <2>1, <2>3, PathFacts, WithinSame
  <2> QED BY <2>3, <2>4
<1>3. ASSUME NEW n \in S PROVE n + 1 \in S
  <2> SUFFICES ASSUME NEW r \in Inside[p], Len(r) = Len(p) + (n + 1) + 1, _exists(r)
               PROVE  _is_dir(p)
    OBVIOUS
  <2>1. Len(p) \in Nat /\ n \in Nat
    BY PathFacts
  <2>2. r # p
    BY <2>1
  <2>3. Parent(r) \in Inside[p] /\ _is_dir(Parent(r)) /\ Len(Parent(r)) = Len(p) + n + 1
    BY <1>1, <2>1, <2>2
  <2>4. _exists(Parent(r))
    BY <2>3 DEF _exists, _is_dir
  <2> QED BY <2>3, <2>4
<1>4. S = Nat
  <2> HIDE DEF S
  <2>1. S \in SUBSET Nat
    BY DEF S
  <2> QED BY <1>2, <1>3, <2>1, SetInduction
<1>5. Len(q) > Len(p) /\ Len(q) \in Nat /\ Len(p) \in Nat
  BY <1>1, PathFacts
<1>6. (Len(q) - Len(p)) - 1 \in Nat /\ Len(q) = Len(p) + ((Len(q) - Len(p)) - 1) + 1
  BY <1>5
<1>7. (Len(q) - Len(p)) - 1 \in S
  BY <1>4, <1>6, Zenon
<1> QED BY <1>6, <1>7

LEMMA FreeBelow ==
    ASSUME Rooted, NEW p \in Paths, ~_exists(p)
    PROVE  Free(p)
BY HolderIsFolder DEF Free, _exists, _is_dir

LEMMA FileHoldsNothing ==
    ASSUME Rooted, NEW p \in Paths, ~_is_dir(p)
    PROVE  Holds_nothing(p)
BY HolderIsFolder DEF Holds_nothing

(* One path changes: a folder, or something that nothing is in. *)
LEMMA PutRooted ==
    ASSUME Rooted, NEW p \in Paths, NEW what \in Contents, Put(p, what),
           what # Absent => Has_parent(p),
           what = Folder \/ Holds_nothing(p)
    PROVE  Rooted'
<1>1. disk' \in [Paths -> Contents] /\ disk' = [disk EXCEPT ![p] = what]
  BY DEF Rooted, Put
<1>2. ASSUME NEW q \in Paths, disk'[q] # Absent PROVE Has_parent(q)'
  <2>1. Has_parent(q)
    <3>1. CASE q = p
      BY <1>1, <1>2, <3>1 DEF Rooted
    <3>2. CASE q # p
      BY <1>1, <1>2, <3>2 DEF Rooted, _exists
    <3> QED BY <3>1, <3>2
  <2>2. CASE Parent(q) # p \/ what = Folder
    BY <1>1, <2>1, <2>2 DEF Has_parent, Folders, _is_dir, Rooted
  <2>3. CASE Parent(q) = p /\ what # Folder
    <3>1. q # p /\ q \in Inside[p]
      BY <2>3, PathFacts, ParentFacts
    <3>2. _exists(q)
      BY <1>1, <1>2, <3>1 DEF Rooted, _exists
    <3> QED BY <2>3, <3>1, <3>2 DEF Holds_nothing
  <2> QED BY <2>2, <2>3
<1> QED BY <1>1, <1>2 DEF Rooted, _exists

(* Renaming a folder, or a file, takes along all that is in it. *)
LEMMA RenameRooted ==
    ASSUME Rooted, NEW p \in Paths, NEW q \in Paths, Can_rename(p, q),
           disk' = Renamed(disk, p, q, Absent)
    PROVE  /\ Rooted' /\ Free(p)' /\ Inside[p] \cap Inside[q] = {}
           /\ \A r \in Inside[q] :
                  disk'[r] = IF Rebase(r, q, p) \in Paths THEN disk[Rebase(r, q, p)] ELSE Absent
           /\ \A r \in Paths \ (Inside[p] \cup Inside[q]) : disk'[r] = disk[r]
<1>1. Free(q)
  BY FreeBelow DEF Can_rename
<1>2. Inside[p] \cap Inside[q] = {}
  <2> SUFFICES ASSUME NEW r \in Inside[p], r \in Inside[q] PROVE FALSE
    OBVIOUS
  <2>1. r \in Seq(Nat) /\ p \in Seq(Nat) /\ q \in Seq(Nat) /\ Within(r, p) /\ Within(r, q)
    BY PathFacts
  <2>2. Within(q, p) \/ Within(p, q)
    <3>1. Len(p) \in Nat /\ Len(q) \in Nat
      BY PathFacts
    <3> QED BY <2>1, <3>1, WithinChain
  <2>3. ~Within(q, p)
    BY PathFacts DEF Can_rename
  <2>4. p \in Inside[q] /\ _exists(p)
    BY <2>2, <2>3, PathFacts DEF Can_rename
  <2> QED BY <1>1, <2>4 DEF Free
<1>3. disk' \in [Paths -> Contents]
  <2>1. \A r \in Paths : disk[r] \in Contents
    BY DEF Rooted
  <2> QED BY <2>1 DEF Renamed, Contents
<1>4. ASSUME NEW r \in Inside[q]
      PROVE  disk'[r] = IF Rebase(r, q, p) \in Paths THEN disk[Rebase(r, q, p)] ELSE Absent
  <2>1. r \in Paths /\ r \notin Inside[p]
    BY <1>2, PathFacts
  <2>2. disk[r] = Absent
    BY <1>1 DEF Free, _exists
  <2> QED BY <2>1, <2>2 DEF Renamed
<1>5. ASSUME NEW r \in Inside[p] PROVE disk'[r] = Absent
  <2>1. r \in Paths /\ r \notin Inside[q]
    BY <1>2, PathFacts
  <2> QED BY <2>1 DEF Renamed
<1>6. ASSUME NEW r \in Paths \ (Inside[p] \cup Inside[q]) PROVE disk'[r] = disk[r]
  BY DEF Renamed
<1>7. ASSUME NEW r \in Paths, disk'[r] # Absent PROVE Has_parent(r)'
  <2> USE DEF Has_parent, Folders, _is_dir
  <2>1. CASE r = q
    <3>1. Parent(q) \in Folders
      BY DEF Can_rename
    <3>2. ASSUME Parent(q) \in Paths PROVE Parent(q) \notin Inside[p] \cup Inside[q]
      <4>1. Parent(q) \notin Inside[q]
        BY PathFacts, ParentFacts
      <4>2. Parent(q) \notin Inside[p]
        BY PathFacts, ParentWithin DEF Can_rename
      <4> QED BY <4>1, <4>2
    <3>3. Parent(q) = <<>> \/ (Parent(q) \in Paths /\ disk'[Parent(q)] = Folder)
      BY <3>1, <3>2, <1>6
    <3> QED BY <2>1, <3>3
  <2>2. CASE r \in Inside[q] /\ r # q
    <3> DEFINE s == Rebase(r, q, p)
    <3>1. r \in Seq(Nat) /\ q \in Seq(Nat) /\ p \in Seq(Nat) /\ r # <<>> /\ q # <<>> /\ Within(r, q)
      BY <2>2, PathFacts
    <3>2. s \in Paths /\ disk[s] # Absent
      BY <1>4, <1>7, <2>2
    <3>3. Parent(s) = Rebase(Parent(r), q, p) /\ Within(Parent(r), q)
      BY <2>2, <3>1, RebaseParent, ParentWithin
    <3>4. Parent(r) \in Inside[q]
      <4>1. Parent(r) # <<>>
        <5>1. Len(q) <= Len(Parent(r)) /\ Len(q) \in Nat \ {0}
          BY <3>3, PathFacts DEF Within
        <5> QED BY <5>1
      <4> QED BY <3>3, <4>1, PathFacts
    <3>5. Within(Parent(s), p) /\ Parent(s) \in Seq(Nat)
      <4>1. Parent(r) \in Seq(Nat) /\ Parent(s) \in Seq(Nat)
        BY <3>1, <3>2, ParentFacts, PathFacts
      <4>2. Within(Rebase(Parent(r), q, p), p)
        BY <3>1, <3>3, <4>1, RebaseFacts
      <4> QED BY <3>3, <4>1, <4>2
    <3>6. Parent(s) # <<>>
      <4>1. Len(p) <= Len(Parent(s)) /\ Len(p) \in Nat \ {0}
        BY <3>5, PathFacts DEF Within
      <4> QED BY <4>1
    <3>7. Parent(s) \in Paths /\ disk[Parent(s)] = Folder
      BY <3>2, <3>6, PathFacts DEF Rooted, _exists
    <3>8. disk'[Parent(r)] = Folder
      BY <1>4, <3>3, <3>4, <3>7
    <3> QED BY <3>4, <3>8, PathFacts
  <2>3. CASE r \notin Inside[q]
    <3>1. r \notin Inside[p] /\ disk[r] # Absent
      BY <1>5, <1>6, <1>7, <2>3
    <3>2. Parent(r) \in Folders
      BY <3>1 DEF Rooted, _exists
    <3>3. ASSUME Parent(r) \in Paths PROVE Parent(r) \notin Inside[p] \cup Inside[q]
      <4>1. \A x \in Paths : Parent(r) \in Inside[x] => r \in Inside[x]
        BY PathFacts, ParentWithin
      <4> QED BY <2>3, <3>1, <4>1
    <3>4. Parent(r) = <<>> \/ (Parent(r) \in Paths /\ disk'[Parent(r)] = Folder)
      BY <3>2, <3>3, <1>6
    <3> QED BY <3>4
  <2> QED BY <2>1, <2>2, <2>3
<1>8. Rooted'
  BY <1>3, <1>7 DEF Rooted, _exists
<1>9. Free(p)'
  BY <1>5 DEF Free, _exists
<1> QED BY <1>2, <1>4, <1>6, <1>8, <1>9

-----------------------------------------------------------------------------
(* The table. *)

LEMMA ModeFacts ==
    /\ None \notin AllModes /\ {} \in AllModes
    /\ DEFAULT_FILE_MODE \in AllModes /\ DEFAULT_DIR_MODE \in AllModes
    /\ \A x : Default(x) \in AllModes
    /\ Modes \subseteq AllModes
<1>1. "none" \notin {"r", "w", "x"}
  OBVIOUS
<1> QED BY <1>1, FilesAssumption DEF None, AllModes, Default, DEFAULT_FILE_MODE, DEFAULT_DIR_MODE

LEMMA GetModeType ==
    ASSUME TypeOK, NEW p \in Paths
    PROVE  get_mode(p) \in AllModes
BY ModeFacts DEF TypeOK, Tables, get_mode

LEMMA SaveOK ==
    ASSUME TypeOK, NEW c \in Tables, _save(c)
    PROVE  /\ stored' \in Tables /\ unsaved' \in BOOLEAN /\ faults' \in 0 .. MaxFaults
           /\ ~unsaved' => stored' = c
<1>1. \A t \in CutShort(c) : t \in Tables
  <2> SUFFICES ASSUME NEW p \in Paths, NEW stem
               PROVE  [q \in Paths |-> IF q \in stem THEN c[p]
                                       ELSE IF Before(q, p) THEN c[q] ELSE None] \in Tables
    BY DEF CutShort
  <2>1. \A q \in Paths : c[q] \in AllModes \cup {None}
    BY DEF Tables
  <2> QED BY <2>1 DEF Tables
<1>2. CASE stored' = c /\ unsaved' = FALSE /\ UNCHANGED faults
  BY <1>2 DEF TypeOK
<1>3. CASE stored' \in {stored} \cup CutShort(c) /\ unsaved' = TRUE /\ Fault
  <2>1. stored' \in Tables
    BY <1>1, <1>3 DEF TypeOK
  <2>2. faults' \in 0 .. MaxFaults
    BY <1>3, FilesAssumption DEF TypeOK, Fault
  <2> QED BY <1>3, <2>1, <2>2
<1> QED BY <1>2, <1>3 DEF _save

(* The table's part of the invariant, after one of the calls of pyperm. *)
TableOK ==
    /\ cache \in Tables /\ stored \in Tables /\ suspect \subseteq Paths
    /\ unsaved \in BOOLEAN /\ faults \in 0 .. MaxFaults /\ Saved

LEMMA ChmodTable ==
    ASSUME TypeOK, NEW p \in Paths, NEW m \in AllModes, perm_chmod(p, m)
    PROVE  TableOK'
<1>1. cache' \in Tables
  BY DEF perm_chmod, TypeOK, Tables
<1> QED BY <1>1, SaveOK DEF perm_chmod, TableOK, Saved, TypeOK

LEMMA SavedIfChanged ==
    ASSUME TypeOK, Saved, cache' \in Tables,
           IF cache' # cache THEN _save(cache') ELSE UNCHANGED <<stored, unsaved, faults>>
    PROVE  /\ stored' \in Tables /\ unsaved' \in BOOLEAN /\ faults' \in 0 .. MaxFaults
           /\ Saved'
<1>1. CASE cache' # cache
  BY <1>1, SaveOK DEF Saved
<1>2. CASE cache' = cache
  BY <1>2 DEF Saved, TypeOK
<1> QED BY <1>1, <1>2

LEMMA RemoveTable ==
    ASSUME TypeOK, Saved, NEW p \in Paths, perm_remove(p)
    PROVE  TableOK'
<1>1. cache' \in Tables
  <2>1. \A q \in Paths : cache[q] \in AllModes \cup {None}
    BY DEF TypeOK, Tables
  <2> QED BY <2>1 DEF perm_remove, Tables
<1>2. suspect' \subseteq Paths
  BY DEF perm_remove, TypeOK
<1> QED BY <1>1, <1>2, SavedIfChanged DEF perm_remove, TableOK

LEMMA MoveTable ==
    ASSUME TypeOK, Saved, NEW p \in Paths, NEW q \in Paths, perm_move(p, q)
    PROVE  TableOK'
<1>1. cache' \in Tables
  <2>1. \A r \in Paths : cache[r] \in AllModes \cup {None}
    BY DEF TypeOK, Tables
  <2> QED BY <2>1 DEF perm_move, Tables
<1>2. suspect' \subseteq Paths
  BY DEF perm_move, TypeOK
<1> QED BY <1>1, <1>2, SavedIfChanged DEF perm_move, TableOK

-----------------------------------------------------------------------------
(* The tasks. *)

LEMMA FunctionIsSeq ==
    ASSUME NEW S, NEW n \in Nat, NEW f \in [1 .. n -> S]
    PROVE  f \in Seq(S) /\ Len(f) = n /\ DOMAIN f = 1 .. n
OBVIOUS

LEMMA TaskType ==
    ASSUME NEW op \in {"paste", "copy_file", "copy_tree", "list", "undo", "chmod", "remove", "move"},
           NEW from \in Paths, NEW to \in Seq(Nat), NEW top \in Seq(Nat), NEW mode \in AllModes
    PROVE  /\ Task(op, from, to, top, mode) \in Tasks
           /\ Task(op, from, to, top, mode).op = op
           /\ Task(op, from, to, top, mode).from = from
           /\ Task(op, from, to, top, mode).to = to
           /\ Task(op, from, to, top, mode).top = top
           /\ Task(op, from, to, top, mode).mode = mode
BY DEF Task, Tasks

LEMMA TaskFields ==
    ASSUME NEW t \in Tasks
    PROVE  /\ t.from \in Paths /\ t.to \in Seq(Nat) /\ t.top \in Seq(Nat) /\ t.mode \in AllModes
           /\ t.op \in {"paste", "copy_file", "copy_tree", "list", "undo", "chmod", "remove", "move"}
BY DEF Tasks

LEMMA HeadFacts ==
    ASSUME TypeOK, JobOK, job # <<>>
    PROVE  /\ Len(job) \in Nat \ {0} /\ 1 \in DOMAIN job /\ DOMAIN job = 1 .. Len(job)
           /\ Head(job) = job[1] /\ job[1] \in Tasks /\ TaskOK(job[1])
           /\ \A n \in 2 .. Len(job) : job[n] \in Tasks /\ TaskOK(job[n]) /\ PairOK(job[1], job[n])
<1>1. job \in Seq(Tasks)
  BY DEF TypeOK
<1>2. Len(job) \in Nat \ {0} /\ DOMAIN job = 1 .. Len(job) /\ Head(job) = job[1]
  BY <1>1
<1>3. \A n \in 1 .. Len(job) : job[n] \in Tasks
  BY <1>1
<1>4. \A n \in 2 .. Len(job) : n \in DOMAIN job /\ 1 < n
  BY <1>2
<1>5. 1 \in DOMAIN job
  BY <1>2
<1> QED BY <1>2, <1>3, <1>4, <1>5 DEF JobOK

(* One of the tasks from the k-th on. *)
Rest(k, t) == \E n \in k .. Len(job) : t = job[n]

(* The job becomes pre and what was left from the k-th task on. *)
LEMMA JobJoin ==
    ASSUME TypeOK, NEW pre \in Seq(Tasks), NEW k \in 1 .. Len(job) + 1,
           job' = pre \o SubSeq(job, k, Len(job)),
           \A i \in DOMAIN pre : TaskOK(pre[i])',
           \A i, j \in DOMAIN pre : i < j => PairOK(pre[i], pre[j])',
           \A i \in DOMAIN pre : \A u \in Tasks : Rest(k, u) => PairOK(pre[i], u)',
           \A u \in Tasks : Rest(k, u) => TaskOK(u)',
           \A m, n \in k .. Len(job) : m < n =>
               \A t, u \in Tasks : t = job[m] /\ u = job[n] => PairOK(t, u)'
    PROVE  job' \in Seq(Tasks) /\ JobOK'
<1> DEFINE s == SubSeq(job, k, Len(job))
           a == Len(pre)
<1>1. job \in Seq(Tasks) /\ Len(job) \in Nat /\ a \in Nat /\ k \in Nat \ {0} /\ DOMAIN pre = 1 .. a
  BY DEF TypeOK
<1>2. \A i \in k .. Len(job) : job[i] \in Tasks
  BY <1>1
<1>3. /\ s \in Seq(Tasks)
      /\ Len(s) = IF k <= Len(job) THEN Len(job) - k + 1 ELSE 0
      /\ \A i \in 1 .. Len(job) - k + 1 : s[i] = job[k + i - 1]
  BY <1>1, <1>2, SubSeqProperties
<1> HIDE DEF s
<1>4. Len(s) = Len(job) - k + 1 /\ Len(s) \in Nat
  BY <1>1, <1>3
<1>5. /\ pre \o s \in Seq(Tasks) /\ Len(pre \o s) = a + Len(s)
      /\ \A i \in 1 .. a + Len(s) : (pre \o s)[i] = IF i <= a THEN pre[i] ELSE s[i - a]
  BY <1>3, ConcatProperties
<1>6. job' = pre \o s
  BY DEF s
<1>7. job' \in Seq(Tasks) /\ Len(job') = a + Len(s) /\ DOMAIN job' = 1 .. a + Len(s)
  BY <1>4, <1>5, <1>6
<1>8. ASSUME NEW i \in 1 .. a PROVE job'[i] = pre[i] /\ i \in DOMAIN pre
  <2>1. i \in 1 .. a + Len(s) /\ i <= a
    BY <1>1, <1>4
  <2> QED BY <1>1, <1>5, <1>6, <2>1
<1>9. ASSUME NEW i \in 1 .. a + Len(s), i > a
      PROVE  /\ job'[i] = job[k + (i - a) - 1] /\ k + (i - a) - 1 \in k .. Len(job)
             /\ job[k + (i - a) - 1] \in Tasks
  <2>1. i - a \in 1 .. Len(job) - k + 1 /\ ~(i <= a)
    BY <1>1, <1>4, <1>9
  <2>2. job'[i] = s[i - a]
    BY <1>5, <1>6, <2>1
  <2>3. s[i - a] = job[k + (i - a) - 1]
    BY <1>3, <2>1
  <2>4. k + (i - a) - 1 \in k .. Len(job)
    BY <1>1, <2>1
  <2> QED BY <1>2, <2>2, <2>3, <2>4
<1>10. ASSUME NEW n \in DOMAIN job' PROVE TaskOK(job[n])'
  <2>1. CASE n <= a
    <3>1. n \in 1 .. a
      BY <1>1, <1>7, <2>1
    <3>2. job'[n] = pre[n] /\ n \in DOMAIN pre
      BY <3>1, <1>8
    <3> QED BY <3>2
  <2>2. CASE n > a
    <3>1. PICK m \in k .. Len(job) : job'[n] = job[m] /\ job[m] \in Tasks
      BY <1>7, <1>9, <2>2
    <3>2. PICK u \in Tasks : u = job[m]
      BY <3>1
    <3>3. Rest(k, u) /\ job'[n] = u
      BY <3>1, <3>2 DEF Rest
    <3>4. TaskOK(u)'
      BY <3>3
    <3> QED BY <3>3, <3>4
  <2> QED BY <1>1, <1>4, <1>7, <2>1, <2>2
<1>11. ASSUME NEW m \in DOMAIN job', NEW n \in DOMAIN job', m < n PROVE PairOK(job[m], job[n])'
  <2>0. m \in 1 .. a + Len(s) /\ n \in 1 .. a + Len(s) /\ a \in Nat /\ Len(s) \in Nat
    BY <1>1, <1>4, <1>7
  <2>1. CASE n <= a
    <3>1. m \in 1 .. a /\ n \in 1 .. a
      BY <1>11, <2>0, <2>1
    <3>2. job'[m] = pre[m] /\ m \in DOMAIN pre /\ job'[n] = pre[n] /\ n \in DOMAIN pre
      BY <3>1, <1>8
    <3>3. PairOK(pre[m], pre[n])'
      BY <3>2, <1>11
    <3> QED BY <3>2, <3>3
  <2>2. CASE m <= a /\ n > a
    <3>1. m \in 1 .. a
      BY <2>0, <2>2
    <3>2. job'[m] = pre[m] /\ m \in DOMAIN pre
      BY <3>1, <1>8
    <3>3. PICK y \in k .. Len(job) : job'[n] = job[y] /\ job[y] \in Tasks
      BY <1>9, <2>0, <2>2
    <3>4. PICK u \in Tasks : u = job[y]
      BY <3>3
    <3>5. Rest(k, u) /\ job'[n] = u
      BY <3>3, <3>4 DEF Rest
    <3>6. PairOK(pre[m], u)'
      BY <3>2, <3>5
    <3> QED BY <3>2, <3>5, <3>6
  <2>3. CASE m > a
    <3> DEFINE x == k + (m - a) - 1
               y == k + (n - a) - 1
    <3>1. n > a
      BY <1>11, <2>0, <2>3
    <3>2. job'[m] = job[x] /\ x \in k .. Len(job) /\ job[x] \in Tasks
      BY <1>9, <2>0, <2>3
    <3>3. job'[n] = job[y] /\ y \in k .. Len(job) /\ job[y] \in Tasks
      BY <1>9, <2>0, <3>1
    <3>4. x < y
      BY <1>1, <1>11, <2>0
    <3> HIDE DEF x, y
    <3>5. PICK t \in Tasks : t = job[x]
      BY <3>2
    <3>6. PICK u \in Tasks : u = job[y]
      BY <3>3
    <3>7. PairOK(t, u)'
      BY <3>2, <3>3, <3>4, <3>5, <3>6
    <3> QED BY <3>2, <3>3, <3>5, <3>6, <3>7
  <2>4. n <= a \/ (m <= a /\ n > a) \/ m > a
    BY <2>0
  <2> QED BY <2>1, <2>2, <2>3, <2>4
<1> QED BY <1>7, <1>10, <1>11 DEF JobOK

LEMMA NoTasks ==
    ASSUME job' = <<>>
    PROVE  job' \in Seq(Tasks) /\ JobOK'
BY DEF JobOK

(* The tasks that may wait do not depend on the table. *)
LEMMA TaskKept ==
    ASSUME NEW t \in Tasks, TaskOK(t), t.op \in Building \cup {"undo", "paste"}, disk' = disk,
           clipboard'.mode = "copy" => clipboard.mode = "copy"
    PROVE  TaskOK(t)'
<1>1. t.op \notin {"chmod", "remove", "move"}
  BY DEF Building, Copying
<1> QED BY <1>1 DEF TaskOK, Has_parent, Folders, Free, Holds_nothing, _is_dir, _exists

LEMMA IdleTaskKept ==
    ASSUME NEW t \in Tasks, TaskOK(t),
           t.op = "undo" \/ (t.op = "paste" /\ clipboard'.mode # "copy")
    PROVE  TaskOK(t)'
BY DEF TaskOK, Copying

LEMMA PairKept ==
    ASSUME NEW t \in Tasks, NEW u \in Tasks, PairOK(t, u),
           clipboard'.mode = "copy" => clipboard.mode = "copy"
    PROVE  PairOK(t, u)'
BY DEF PairOK

(* They do not depend on a path outside of what they write. *)
LEMMA TaskKeptPut ==
    ASSUME Rooted, NEW t \in Tasks, TaskOK(t), t.op \in Building \cup {"undo", "paste"},
           UNCHANGED clipboard, NEW p \in Paths, NEW what, Put(p, what),
           t.op \in Building => ~Within(p, t.to),
           t.op # "undo" => Parent(t.to) # p \/ what = Folder
    PROVE  TaskOK(t)'
<1>1. t.op \notin {"chmod", "remove", "move"}
  BY DEF Building, Copying
<1>2. disk' = [disk EXCEPT ![p] = what] /\ disk \in [Paths -> Contents]
  BY DEF Put, Rooted
<1>3. ASSUME t.op # "undo", Has_parent(t.to) PROVE Has_parent(t.to)'
  BY <1>2, <1>3 DEF Has_parent, Folders, _is_dir
<1>4. ASSUME t.op \in Building
      PROVE  /\ t.to \in Paths /\ p \notin Inside[t.to] /\ \A q \in Inside[t.to] : disk'[q] = disk[q]
             /\ t.to \in Inside[t.to]
  <2>1. t.op # "paste"
    BY <1>4 DEF Building, Copying
  <2>2. t.to \in Paths
    BY <2>1, PathFacts DEF TaskOK
  <2>3. p \notin Inside[t.to]
    BY <1>4, <2>2, PathFacts
  <2> QED BY <1>2, <2>2, <2>3, PathFacts
<1>5. ASSUME t.op \in Copying PROVE Has_parent(t.to)' /\ Free(t.to)'
  <2>1. t.op \in Building /\ t.op # "undo"
    BY <1>5 DEF Building, Copying
  <2> QED BY <1>3, <1>4, <1>5, <2>1 DEF TaskOK, Free, _exists
<1>6. ASSUME t.op = "list" PROVE _is_dir(t.to)' /\ Holds_nothing(t.to)'
  <2>1. t.op \in Building
    BY <1>6 DEF Building
  <2> QED BY <1>4, <1>6, <2>1 DEF TaskOK, Holds_nothing, _is_dir, _exists
<1>7. ASSUME t.op = "paste", clipboard.mode = "copy" PROVE Has_parent(t.to)'
  BY <1>3, <1>7 DEF TaskOK
<1> QED BY <1>1, <1>5, <1>6, <1>7 DEF TaskOK

-----------------------------------------------------------------------------
(* The invariant by parts *)

ClipOK   == clipboard \in [mode : {"none", "copy", "cut"},
                           items : Seq([path : Paths, is_dir : BOOLEAN])]
IntentOK == intent \in [Paths -> AllModes]

LEMMA Parts ==
    ASSUME IInv
    PROVE  /\ Rooted /\ TableOK /\ ClipOK /\ IntentOK /\ job \in Seq(Tasks) /\ JobOK /\ Settled
           /\ TypeOK /\ Saved /\ disk \in [Paths -> Contents]
BY DEF IInv, TypeOK, Rooted, TableOK, ClipOK, IntentOK, Contents

LEMMA Whole ==
    ASSUME Rooted', TableOK', ClipOK', IntentOK', job' \in Seq(Tasks), JobOK', Settled'
    PROVE  IInv'
BY DEF IInv, TypeOK, Rooted, TableOK, ClipOK, IntentOK, Contents

LEMMA TableKept ==
    ASSUME TableOK, UNCHANGED <<cache, stored, suspect, unsaved>>, UNCHANGED faults \/ Fault
    PROVE  TableOK'
<1>1. faults' \in 0 .. MaxFaults
  BY FilesAssumption DEF TableOK, Fault
<1> QED BY <1>1 DEF TableOK, Saved

LEMMA RightKept ==
    ASSUME NEW p \in Paths, Right(p), cache'[p] = cache[p], intent'[p] = intent[p], disk'[p] = disk[p]
    PROVE  Right(p)'
BY DEF Right, _exists, get_mode

(* What is written by an operation without a task to follow. *)
LEMMA SettledPut ==
    ASSUME IInv, Idle, job' = <<>>, cache' = cache, suspect' = suspect,
           NEW p \in Paths, NEW what, Put(p, what), NEW m \in AllModes,
           intent' = [intent EXCEPT ![p] = m],
           p \notin suspect => Right(p)'
    PROVE  Settled' /\ IntentOK'
<1>1. Settled /\ IntentOK /\ disk \in [Paths -> Contents]
  BY Parts
<1>2. ASSUME NEW q \in Paths \ suspect PROVE Right(q)'
  <2>1. CASE q = p
    BY <1>2, <2>1
  <2>2. CASE q # p
    <3>1. Right(q)
      BY <1>1 DEF Settled, Idle
    <3> QED BY <1>1, <2>2, <3>1, RightKept DEF Put, IntentOK
  <2> QED BY <2>1, <2>2
<1> QED BY <1>1, <1>2 DEF Settled, IntentOK

LEMMA InitOK == Init => IInv
<1> SUFFICES ASSUME Init PROVE IInv
  OBVIOUS
<1> USE DEF Init
<1>1. disk \in [Paths -> Texts \cup {Absent, Folder, Torn}] /\ \A p \in Paths : ~_exists(p)
  BY DEF _exists
<1>2. cache \in Tables /\ stored \in Tables
  BY DEF Tables, NoTable
<1>3. job \in Seq(Tasks) /\ JobOK
  BY DEF JobOK
<1>4. ClipOK
  BY DEF ClipOK, NoClipboard
<1>5. intent \in [Paths -> AllModes]
  BY ModeFacts
<1>6. suspect \subseteq Paths /\ unsaved \in BOOLEAN /\ faults \in 0 .. MaxFaults
  <2>1. suspect = {} /\ unsaved = FALSE /\ faults = 0 /\ MaxFaults \in Nat
    BY FilesAssumption, Zenon
  <2> HIDE DEF Init
  <2>2. faults \in 0 .. MaxFaults
    BY <2>1
  <2> QED BY <2>1, <2>2, Zenon
<1>7. TypeOK
  BY <1>1, <1>2, <1>3, <1>4, <1>5, <1>6, Zenon DEF TypeOK, ClipOK
<1>8. Settled
  BY <1>1 DEF Settled, Right, NoTable
<1> QED BY <1>3, <1>7, <1>8 DEF IInv, Saved

-----------------------------------------------------------------------------
(* The operations that leave nothing to do *)

LEMMA CreateOK ==
    ASSUME IInv, NEW p \in Paths, NEW what \in {Empty, Folder}, create(p, what)
    PROVE  IInv'
<1> USE DEF create, In_terminal
<1>1. what \in Contents /\ what # Absent
  BY FilesAssumption DEF Contents
<1>2. Rooted'
  BY <1>1, Parts, PutRooted, FileHoldsNothing DEF _exists, _is_dir
<1>3. ASSUME p \notin suspect PROVE Right(p)'
  <2>1. cache[p] = None
    BY <1>3, Parts DEF Settled, Right, Idle
  <2>2. disk'[p] = what /\ intent'[p] = Default(what)
    BY Parts DEF Put, IntentOK
  <2> QED BY <1>1, <2>1, <2>2 DEF Right, _exists, get_mode
<1>4. Settled' /\ IntentOK'
  BY <1>3, SettledPut, ModeFacts DEF Idle
<1>5. TableOK' /\ ClipOK'
  BY Parts, TableKept DEF ClipOK
<1> QED BY <1>2, <1>4, <1>5, Whole, NoTasks DEF Idle

LEMMA SaveFileOK ==
    ASSUME IInv, NEW p \in Paths, NEW t \in Texts, save_file(p, t)
    PROVE  IInv'
<1> USE DEF save_file, history
<1>1. t \in Contents /\ t # Absent /\ t # Folder
  BY FilesAssumption DEF Contents
<1>2. Rooted'
  <2>1. Has_parent(p) /\ Holds_nothing(p)
    BY Parts, FileHoldsNothing DEF Is_file, Rooted
  <2> QED BY <1>1, <2>1, Parts, PutRooted
<1>3. ASSUME p \notin suspect PROVE Right(p)'
  <2>1. get_mode(p) = intent[p]
    BY <1>3, Parts DEF Settled, Right, Idle, Is_file
  <2>2. disk'[p] = t
    BY Parts DEF Put
  <2>3. Default(disk[p]) = Default(disk'[p])
    BY <1>1, <2>2 DEF Default, Is_file, _is_dir
  <2> QED BY <1>1, <2>1, <2>2, <2>3 DEF Right, _exists, get_mode
<1>4. intent' = [intent EXCEPT ![p] = intent[p]] /\ intent[p] \in AllModes
  BY Parts DEF IntentOK
<1>5. Settled' /\ IntentOK'
  BY <1>3, <1>4, SettledPut DEF Idle
<1>6. TableOK' /\ ClipOK'
  BY Parts, TableKept DEF ClipOK
<1> QED BY <1>2, <1>5, <1>6, Whole, NoTasks DEF Idle

LEMMA CpOK ==
    ASSUME IInv, NEW p \in Paths, NEW q \in Paths, cp(p, q)
    PROVE  IInv'
<1> USE DEF cp, In_terminal
<1>1. PICK what \in Contents \ {Absent, Folder} : Put(q, what) /\ (UNCHANGED faults \/ Fault)
  <2>1. Empty \in Contents \ {Absent, Folder} /\ disk[p] \in Contents \ {Absent, Folder}
        /\ Torn \in Contents \ {Absent, Folder}
    BY Parts, FilesAssumption DEF Contents, Is_file, _exists, _is_dir
  <2> QED BY <2>1
<1>2. Rooted'
  BY <1>1, Parts, PutRooted, FileHoldsNothing
<1>3. PICK m \in AllModes : intent' = [intent EXCEPT ![q] = m]
                            /\ m = IF _exists(q) THEN intent[q] ELSE DEFAULT_FILE_MODE
  BY Parts, ModeFacts DEF IntentOK
<1>4. ASSUME q \notin suspect PROVE Right(q)'
  <2>1. disk'[q] = what /\ intent'[q] = m
    BY <1>1, <1>3, Parts DEF Put, IntentOK
  <2>2. Default(what) = DEFAULT_FILE_MODE
    BY DEF Default
  <2>3. CASE _exists(q)
    <3>1. get_mode(q) = intent[q] /\ Default(disk[q]) = DEFAULT_FILE_MODE
      BY <1>4, <2>3, Parts DEF Settled, Right, Idle, Default, _is_dir
    <3> QED BY <1>3, <2>1, <2>2, <2>3, <3>1 DEF Right, _exists, get_mode
  <2>4. CASE ~_exists(q)
    <3>1. cache[q] = None
      BY <1>4, <2>4, Parts DEF Settled, Right, Idle
    <3> QED BY <1>3, <2>1, <2>2, <2>4, <3>1 DEF Right, _exists, get_mode
  <2> QED BY <2>3, <2>4
<1>5. Settled' /\ IntentOK'
  BY <1>1, <1>3, <1>4, SettledPut DEF Idle
<1>6. TableOK' /\ ClipOK'
  BY <1>1, Parts, TableKept DEF ClipOK
<1> QED BY <1>2, <1>5, <1>6, Whole, NoTasks DEF Idle

(* A file is written over, and keeps its mode. *)
LEMMA OverwriteOK ==
    ASSUME IInv, Idle, NEW p \in Paths, Is_file(p), NEW what \in Contents \ {Absent, Folder}, Put(p, what),
           UNCHANGED <<cache, stored, job, clipboard, intent, suspect, unsaved>>, Fault
    PROVE  IInv'
<1>1. Rooted'
  <2>1. Has_parent(p) /\ Holds_nothing(p)
    BY Parts, FileHoldsNothing DEF Is_file, Rooted
  <2> QED BY <2>1, Parts, PutRooted
<1>2. ASSUME p \notin suspect PROVE Right(p)'
  <2>1. get_mode(p) = intent[p]
    BY <1>2, Parts DEF Settled, Right, Idle, Is_file
  <2>2. disk'[p] = what
    BY Parts DEF Put
  <2>3. Default(disk[p]) = Default(disk'[p])
    BY <2>2 DEF Default, Is_file, _is_dir
  <2> QED BY <2>1, <2>2, <2>3 DEF Right, _exists, get_mode
<1>3. intent' = [intent EXCEPT ![p] = intent[p]] /\ intent[p] \in AllModes
  BY Parts DEF IntentOK
<1>4. Settled' /\ IntentOK'
  BY <1>2, <1>3, SettledPut DEF Idle
<1>5. TableOK' /\ ClipOK'
  BY Parts, TableKept DEF ClipOK
<1> QED BY <1>1, <1>4, <1>5, Whole, NoTasks DEF Idle

LEMMA CpUnseenOK ==
    ASSUME IInv, NEW p \in Paths, NEW q \in Paths, cp_unseen(p, q)
    PROVE  IInv'
<1> USE DEF cp_unseen, In_terminal
<1>1. PICK what \in Contents \ {Absent, Folder} : Put(q, what)
  <2>1. Empty \in Contents \ {Absent, Folder} /\ disk[p] \in Contents \ {Absent, Folder}
        /\ Torn \in Contents \ {Absent, Folder}
    BY Parts, FilesAssumption DEF Contents, Is_file, _exists, _is_dir
  <2> QED BY <2>1
<1> QED BY <1>1, OverwriteOK

(* A name is freed, and its entry, if it has one, is suspect from now on. *)
LEMMA FreedOK ==
    ASSUME IInv, Idle, NEW p \in Paths, Holds_nothing(p), Put(p, Absent), Fault, ClipOK',
           intent' = [intent EXCEPT ![p] = DEFAULT_FILE_MODE],
           suspect' = IF cache[p] = None THEN suspect ELSE suspect \cup {p},
           UNCHANGED <<cache, stored, job, unsaved>>
    PROVE  IInv'
<1>1. Rooted'
  BY Parts, PutRooted DEF Contents
<1>2. IntentOK'
  BY Parts, ModeFacts DEF IntentOK
<1>3. ASSUME NEW q \in Paths, q \notin suspect' PROVE Right(q)'
  <2>1. CASE q = p
    <3>1. cache'[p] = None /\ disk'[p] = Absent
      BY <1>3, <2>1, Parts DEF Put
    <3> QED BY <2>1, <3>1 DEF Right, _exists
  <2>2. CASE q # p
    <3>1. q \notin suspect /\ cache'[q] = cache[q] /\ intent'[q] = intent[q] /\ disk'[q] = disk[q]
      BY <1>3, <2>2, Parts DEF Put, IntentOK
    <3>2. Right(q)
      BY <3>1, Parts DEF Settled, Idle
    <3> QED BY <3>1, <3>2, RightKept
  <2> QED BY <2>1, <2>2
<1>4. Settled'
  BY <1>3 DEF Settled
<1>5. TableOK'
  <2>1. faults' \in 0 .. MaxFaults
    BY Parts, FilesAssumption DEF Fault, TypeOK
  <2> QED BY <2>1, Parts DEF TableOK, Saved
<1> QED BY <1>1, <1>2, <1>4, <1>5, Whole, NoTasks DEF Idle

LEMMA SaveInterruptedOK ==
    ASSUME IInv, NEW p \in Paths, save_interrupted(p)
    PROVE  IInv'
<1>1. Holds_nothing(p)
  BY Parts, FileHoldsNothing DEF save_interrupted, Is_file
<1>2. ClipOK'
  BY DEF save_interrupted, NoClipboard, ClipOK
<1> QED BY <1>1, <1>2, FreedOK DEF save_interrupted

LEMMA ChmodOK ==
    ASSUME IInv, NEW p \in Paths, NEW m \in Modes, chmod(p, m)
    PROVE  IInv'
<1> USE DEF chmod
<1>1. m \in AllModes /\ m # None
  BY ModeFacts
<1>2. TableOK'
  BY <1>1, Parts, ChmodTable
<1>3. Rooted' /\ ClipOK'
  BY Parts DEF Rooted, ClipOK, _exists, Has_parent, Folders, _is_dir
<1>4. IntentOK'
  BY <1>1, Parts DEF IntentOK
<1>5. ASSUME NEW q \in Paths, q \notin suspect' PROVE Right(q)'
  <2>1. CASE q = p
    <3>1. cache'[p] = m /\ intent'[p] = m
      BY Parts DEF perm_chmod, IntentOK, TableOK, Tables
    <3> QED BY <1>1, <2>1, <3>1 DEF Right, _exists, get_mode
  <2>2. CASE q # p
    <3>1. q \notin suspect /\ cache'[q] = cache[q] /\ intent'[q] = intent[q] /\ disk'[q] = disk[q]
      BY <1>5, <2>2, Parts DEF perm_chmod, IntentOK, TableOK, Tables
    <3>2. Right(q)
      BY <3>1, Parts DEF Settled, Idle
    <3> QED BY <3>1, <3>2, RightKept
  <2> QED BY <2>1, <2>2
<1>6. Settled'
  BY <1>5 DEF Settled
<1> QED BY <1>2, <1>3, <1>4, <1>6, Whole, NoTasks DEF Idle

LEMMA ScriptOK ==
    ASSUME IInv, NEW p \in Paths, script(p)
    PROVE  IInv'
<1> USE DEF script
<1>1. CASE Is_file(p) /\ (\E t \in Texts : Put(p, t)) /\ UNCHANGED <<intent, suspect>>
  <2>1. PICK t \in Contents \ {Absent, Folder} : Put(p, t)
    BY <1>1, FilesAssumption DEF Contents
  <2> QED BY <1>1, <2>1, OverwriteOK
<1>2. CASE /\ _exists(p) /\ Holds_nothing(p)
           /\ Copied(p, Absent, DEFAULT_FILE_MODE)
           /\ suspect' = IF cache[p] = None THEN suspect ELSE suspect \cup {p}
  <2>1. ClipOK'
    BY Parts DEF ClipOK
  <2> QED BY <1>2, <2>1, FreedOK DEF Copied
<1> QED BY <1>1, <1>2

LEMMA ClipboardOK ==
    ASSUME IInv, Idle, ClipOK', UNCHANGED <<disk, cache, stored, job, history>>
    PROVE  IInv'
<1>1. Rooted' /\ IntentOK' /\ TableOK'
  BY Parts, TableKept DEF Rooted, IntentOK, _exists, Has_parent, Folders, _is_dir, history
<1>2. Settled'
  BY Parts, RightKept DEF Settled, history, Idle
<1> QED BY <1>1, <1>2, Whole, NoTasks DEF Idle

LEMMA SetClipboardOK ==
    ASSUME IInv, NEW marked \in Selections, NEW mode \in {"copy", "cut"}, set_clipboard(mode, marked)
    PROVE  IInv'
<1> DEFINE items == [n \in DOMAIN marked |-> [path |-> marked[n], is_dir |-> _is_dir(marked[n])]]
<1>1. PICK k \in 1 .. MaxMarked : marked \in [1 .. k -> Paths]
  BY DEF Selections
<1>2. k \in Nat
  BY FilesAssumption
<1>3. items \in [1 .. k -> [path : Paths, is_dir : BOOLEAN]]
  BY <1>1 DEF _is_dir
<1>4. items \in Seq([path : Paths, is_dir : BOOLEAN])
  <2> HIDE DEF items
  <2> QED BY <1>2, <1>3, FunctionIsSeq, Zenon
<1>5. clipboard' = [mode |-> mode, items |-> items]
  BY DEF set_clipboard
<1>6. ClipOK'
  <2> HIDE DEF items
  <2> QED BY <1>4, <1>5 DEF ClipOK
<1> QED BY <1>6, ClipboardOK DEF set_clipboard

LEMMA ClearClipboardOK ==
    ASSUME IInv, clear_clipboard
    PROVE  IInv'
<1>1. ClipOK'
  BY DEF clear_clipboard, NoClipboard, ClipOK
<1> QED BY <1>1, ClipboardOK DEF clear_clipboard

-----------------------------------------------------------------------------
(* The operations that leave a task *)

(* A task that owes the table something is alone, or in front of pastes. *)
LEMMA DeleteOK ==
    ASSUME IInv, NEW p \in Paths, delete(p)
    PROVE  IInv'
<1> USE DEF delete
<1>1. PICK t \in Tasks : /\ t = Task("remove", p, p, p, {}) /\ job' = <<t>>
                         /\ t.op = "remove" /\ t.to = p /\ t.top = p
  BY TaskType, PathFacts, ModeFacts
<1>2. Rooted'
  BY Parts, PutRooted DEF Contents
<1>3. IntentOK' /\ ClipOK' /\ TableOK'
  BY Parts, ModeFacts, TableKept DEF IntentOK, ClipOK
<1>4. Free(p)'
  BY Parts DEF Holds_nothing, Free, _exists, Put, Rooted
<1>5. TaskOK(t)'
  BY <1>1, <1>4, PathFacts DEF TaskOK, Copying, Free, Plain
<1>6. job' \in Seq(Tasks) /\ JobOK'
  BY <1>1, <1>5 DEF JobOK
<1>7. ASSUME NEW q \in Paths \ suspect, q \notin Owed(t) PROVE Right(q)'
  <2>1. q # p
    BY <1>1, <1>7, PathFacts DEF Owed
  <2>2. cache'[q] = cache[q] /\ intent'[q] = intent[q] /\ disk'[q] = disk[q] /\ Right(q)
    BY <2>1, Parts DEF Put, IntentOK, Settled, Idle
  <2> QED BY <2>2, RightKept
<1>8. Settled'
  <2>1. Head(job') = t /\ job' # <<>>
    BY <1>1
  <2>2. Owed(t)' = Owed(t)
    BY DEF Owed
  <2> QED BY <1>7, <2>1, <2>2 DEF Settled
<1> QED BY <1>2, <1>3, <1>6, <1>8, Whole

(* Before a rename nothing is owed; after it, what the move will write. *)
LEMMA RenameOK ==
    ASSUME IInv, NEW p \in Paths, NEW q \in Paths, Rename(p, q),
           cache' = cache, suspect' = suspect, \A r \in Paths \ suspect : Right(r)
    PROVE  /\ Rooted' /\ IntentOK' /\ Renaming(p, q)'
           /\ \A r \in Paths \ suspect : r \notin Inside[p] \cup Inside[q] => Right(r)'
<1>1. Can_rename(p, q) /\ disk' = Renamed(disk, p, q, Absent)
      /\ intent' = Renamed(intent, p, q, DEFAULT_FILE_MODE)
  BY DEF Rename
<1>2. /\ Rooted' /\ Free(p)' /\ Inside[p] \cap Inside[q] = {}
      /\ \A r \in Inside[q] :
             disk'[r] = IF Rebase(r, q, p) \in Paths THEN disk[Rebase(r, q, p)] ELSE Absent
      /\ \A r \in Paths \ (Inside[p] \cup Inside[q]) : disk'[r] = disk[r]
  BY <1>1, Parts, RenameRooted
<1>3. IntentOK'
  <2>1. \A r \in Paths : intent[r] \in AllModes
    BY Parts DEF IntentOK
  <2> QED BY <1>1, <2>1, ModeFacts DEF IntentOK, Renamed
<1>4. ASSUME NEW r \in Inside[q] \ suspect PROVE cache[r] = None
  <2>1. Free(q)
    BY <1>1, Parts, FreeBelow DEF Can_rename
  <2>2. r \in Paths /\ ~_exists(r)
    BY <2>1, PathFacts DEF Free
  <2>3. Right(r)
    BY <2>2
  <2> QED BY <2>2, <2>3 DEF Right
<1>5. ASSUME NEW r \in Inside[q], Rebase(r, q, p) \in Paths \ suspect
      PROVE  IF disk'[r] # Absent
             THEN intent'[r] = IF cache[Rebase(r, q, p)] # None THEN cache[Rebase(r, q, p)]
                               ELSE Default(disk'[r])
             ELSE cache[Rebase(r, q, p)] = None
  <2> DEFINE s == Rebase(r, q, p)
  <2>1. disk'[r] = disk[s] /\ Right(s)
    BY <1>2, <1>5
  <2>2. intent'[r] = intent[s]
    BY <1>1, <1>5, PathFacts DEF Renamed
  <2> HIDE DEF s
  <2>3. IF disk'[r] # Absent THEN intent'[r] = IF cache[s] # None THEN cache[s] ELSE Default(disk'[r])
        ELSE cache[s] = None
    BY <2>1, <2>2 DEF Right, get_mode, _exists
  <2> QED BY <2>3 DEF s
<1>6. ASSUME NEW r \in Inside[q], Rebase(r, q, p) \notin Paths PROVE disk'[r] = Absent
  BY <1>2, <1>6
<1>7. Renaming(p, q)'
  BY <1>2, <1>4, <1>5, <1>6 DEF Renaming, _exists
<1>8. ASSUME NEW r \in Paths \ suspect, r \notin Inside[p] \cup Inside[q] PROVE Right(r)'
  <2>1. disk'[r] = disk[r] /\ cache'[r] = cache[r] /\ Right(r)
    BY <1>2, <1>8
  <2>2. intent'[r] = intent[r]
    BY <1>1, <1>8 DEF Renamed
  <2> QED BY <2>1, <2>2, RightKept
<1> QED BY <1>2, <1>3, <1>7, <1>8

LEMMA MoveTask ==
    ASSUME NEW p \in Paths, NEW q \in Paths, NEW t, t = Task("move", p, q, q, {}), Renaming(p, q)'
    PROVE  /\ t \in Tasks /\ t.op = "move" /\ t.from = p /\ t.to = q /\ TaskOK(t)'
           /\ Owed(t) = Inside[p] \cup Inside[q]
<1>1. t \in Tasks /\ t.op = "move" /\ t.from = p /\ t.to = q /\ t.top = q
  <2>1. q \in Seq(Nat) /\ {} \in AllModes
    BY PathFacts, ModeFacts
  <2> QED BY <2>1, TaskType
<1>2. TaskOK(t)'
  BY <1>1, PathFacts DEF TaskOK, Copying
<1>3. Owed(t) = Inside[p] \cup Inside[q]
  BY <1>1, PathFacts DEF Owed
<1> QED BY <1>1, <1>2, <1>3

LEMMA MvOK ==
    ASSUME IInv, NEW p \in Paths, NEW q \in Paths, mv(p, q)
    PROVE  IInv'
<1> USE DEF mv, In_terminal
<1>1. /\ Rooted' /\ IntentOK' /\ Renaming(p, q)'
      /\ \A r \in Paths \ suspect : r \notin Inside[p] \cup Inside[q] => Right(r)'
  BY Parts, RenameOK DEF Settled, Idle
<1>2. PICK t : t = Task("move", p, q, q, {})
  OBVIOUS
<1>3. /\ t \in Tasks /\ TaskOK(t)' /\ Owed(t) = Inside[p] \cup Inside[q]
  BY <1>1, <1>2, MoveTask
<1>4. job' = <<t>>
  BY <1>2
<1>5. job' \in Seq(Tasks) /\ JobOK'
  BY <1>3, <1>4 DEF JobOK
<1>6. Settled'
  <2>1. Head(job') = t /\ job' # <<>>
    BY <1>4
  <2>2. Owed(t)' = Owed(t)
    BY DEF Owed
  <2> QED BY <1>1, <1>3, <2>1, <2>2 DEF Settled
<1>7. ClipOK' /\ TableOK'
  BY Parts, TableKept DEF ClipOK
<1> QED BY <1>1, <1>5, <1>6, <1>7, Whole

LEMMA PasteClipboardOK ==
    ASSUME IInv, NEW folder \in Paths \cup {<<>>}, paste_clipboard(folder)
    PROVE  IInv'
<1> USE DEF paste_clipboard, history
<1> DEFINE items == clipboard.items
           D(n) == folder \o <<Last(items[n].path)>>
           T(n) == Task("paste", items[n].path, D(n), D(n), {})
<1>1. items \in Seq([path : Paths, is_dir : BOOLEAN]) /\ Len(items) \in Nat
      /\ DOMAIN items = 1 .. Len(items)
  BY Parts DEF ClipOK
<1>2. ASSUME NEW n \in DOMAIN items
      PROVE  /\ D(n) \in Seq(Nat) /\ D(n) # <<>> /\ Parent(D(n)) = folder
             /\ T(n) \in Tasks /\ T(n).op = "paste" /\ T(n).to = D(n) /\ T(n).top = D(n)
  <2>1. items[n].path \in Paths
    <3> HIDE DEF items
    <3>1. n \in 1 .. Len(items)
      BY <1>1
    <3>2. items[n] \in [path : Paths, is_dir : BOOLEAN]
      BY <1>1, <3>1, ElementOfSeq, Zenon
    <3> QED BY <3>2
  <2>2. Last(items[n].path) \in Nat
    BY <2>1, PathFacts DEF Last
  <2>3. PICK x \in Nat : x = Last(items[n].path)
    BY <2>2
  <2>4. folder \in Seq(Nat)
    <3>1. CASE folder = <<>>
      BY <3>1
    <3>2. CASE folder \in Paths
      BY <3>2, PathFacts
    <3> QED BY <3>1, <3>2
  <2>5. /\ folder \o <<x>> \in Seq(Nat) /\ Len(folder \o <<x>>) = Len(folder) + 1
        /\ folder \o <<x>> # <<>> /\ SubSeq(folder \o <<x>>, 1, Len(folder)) = folder
    BY <2>4
  <2>6. Parent(folder \o <<x>>) = folder
    BY <2>4, <2>5 DEF Parent, Prefix
  <2>7. D(n) \in Seq(Nat) /\ D(n) # <<>> /\ Parent(D(n)) = folder
    BY <2>3, <2>5, <2>6
  <2> HIDE DEF D
  <2> QED BY <2>1, <2>7, TaskType, ModeFacts
<1>3. job' = [n \in DOMAIN items |-> T(n)]
  OBVIOUS
<1> HIDE DEF D, T, items
<1>4. job' \in [1 .. Len(items) -> Tasks]
  BY <1>1, <1>2, <1>3
<1>5. job' \in Seq(Tasks) /\ DOMAIN job' = DOMAIN items
  BY <1>1, <1>4, FunctionIsSeq, Zenon
<1>6. ASSUME NEW n \in DOMAIN items
      PROVE  /\ job'[n].op = "paste" /\ job'[n].to # <<>> /\ job'[n].top = job'[n].to
             /\ Parent(job'[n].to) = folder
  BY <1>2, <1>3
<1>7. folder \in Folders' /\ disk' = disk
  BY DEF Folders, _is_dir
<1>8. JobOK'
  <2>1. ASSUME NEW n \in DOMAIN job' PROVE TaskOK(job[n])'
    BY <1>5, <1>6, <1>7 DEF TaskOK, Copying, Has_parent
  <2>2. ASSUME NEW m \in DOMAIN job', NEW n \in DOMAIN job', m < n PROVE PairOK(job[m], job[n])'
    BY <1>5, <1>6 DEF PairOK, Building, Copying
  <2> QED BY <2>1, <2>2 DEF JobOK
<1>9. Settled'
  BY Parts, RightKept DEF Settled, Idle
<1>10. Rooted' /\ IntentOK' /\ ClipOK' /\ TableOK'
  BY Parts, TableKept DEF Rooted, IntentOK, ClipOK, _exists, Has_parent, Folders, _is_dir
<1> QED BY <1>5, <1>8, <1>9, <1>10, Whole

-----------------------------------------------------------------------------
(* The steps of a paste *)

(* The task at the head is replaced by tasks of which the first owes what
   the others do not. *)
LEMMA SettledHead ==
    ASSUME NEW t, job' # <<>>, Head(job') = t,
           \A p \in Paths : p \notin suspect' /\ p \notin Owed(t) => Right(p)'
    PROVE  Settled'
<1>1. Owed(t)' = Owed(t)
  BY DEF Owed
<1> QED BY <1>1 DEF Settled

LEMMA SettledAll ==
    ASSUME \A p \in Paths : p \notin suspect' => Right(p)'
    PROVE  Settled'
BY DEF Settled

(* Tasks that owe the table nothing. *)
LEMMA NothingOwed ==
    ASSUME NEW t, t.op \in Building \cup {"undo", "paste"}
    PROVE  Owed(t) = {}
<1>1. t.op \notin {"chmod", "remove", "move"}
  BY DEF Building, Copying
<1> QED BY <1>1 DEF Owed

LEMMA AllRight ==
    ASSUME IInv, job # <<>>, job[1].op \in Building \cup {"undo", "paste"}
    PROVE  \A p \in Paths \ suspect : Right(p)
<1>1. Head(job) = job[1]
  BY Parts, HeadFacts
<1>2. Owed(Head(job)) = {}
  BY <1>1, NothingOwed
<1> QED BY <1>2, Parts DEF Settled

(* The tasks that wait, from the k-th on. *)
LEMMA Waiting ==
    ASSUME IInv, job # <<>>, NEW k \in 1 .. Len(job) + 1, k > 1 \/ job[1].op = "undo"
    PROVE  /\ \A u \in Tasks : Rest(k, u) => TaskOK(u) /\ u.op \in Building \cup {"undo", "paste"}
           /\ \A m, n \in k .. Len(job) : m < n =>
                 \A t, u \in Tasks : t = job[m] /\ u = job[n] => PairOK(t, u)
           /\ k > 1 => \A u \in Tasks : Rest(k, u) => PairOK(job[1], u)
<1>1. /\ DOMAIN job = 1 .. Len(job) /\ Len(job) \in Nat \ {0} /\ 1 \in DOMAIN job
      /\ TaskOK(job[1])
      /\ \A n \in 2 .. Len(job) : job[n] \in Tasks /\ TaskOK(job[n]) /\ PairOK(job[1], job[n])
  BY Parts, HeadFacts
<1>2. ASSUME NEW u \in Tasks, Rest(k, u)
      PROVE  TaskOK(u) /\ u.op \in Building \cup {"undo", "paste"}
  <2>1. PICK n \in k .. Len(job) : u = job[n]
    BY <1>2 DEF Rest
  <2>2. CASE n = 1
    BY <1>1, <2>1, <2>2
  <2>3. CASE n # 1
    <3>1. n \in 2 .. Len(job)
      BY <1>1, <2>3
    <3> QED BY <1>1, <2>1, <3>1 DEF PairOK
  <2> QED BY <2>2, <2>3
<1>3. ASSUME NEW m \in k .. Len(job), NEW n \in k .. Len(job), m < n PROVE PairOK(job[m], job[n])
  BY <1>1, <1>3, Parts DEF JobOK
<1>4. ASSUME k > 1, NEW u \in Tasks, Rest(k, u) PROVE PairOK(job[1], u)
  <2>1. PICK n \in k .. Len(job) : u = job[n]
    BY <1>4 DEF Rest
  <2>2. n \in 2 .. Len(job)
    BY <1>1, <1>4
  <2> QED BY <1>1, <2>1, <2>2
<1> QED BY <1>2, <1>3, <1>4

(* The head is replaced by pre; the storage is as it was for what waits. *)
LEMMA JobStep ==
    ASSUME IInv, job # <<>>, NEW k \in 1 .. Len(job) + 1, k > 1 \/ job[1].op = "undo",
           NEW pre \in Seq(Tasks), job' = pre \o SubSeq(job, k, Len(job)),
           clipboard'.mode = "copy" => clipboard.mode = "copy",
           \A u \in Tasks : Rest(k, u) => TaskOK(u)',
           \A i \in DOMAIN pre : TaskOK(pre[i])',
           \A i, j \in DOMAIN pre : i < j => PairOK(pre[i], pre[j])',
           \A i \in DOMAIN pre : \A u \in Tasks : Rest(k, u) => PairOK(pre[i], u)'
    PROVE  job' \in Seq(Tasks) /\ JobOK'
<1>1. \A m, n \in k .. Len(job) : m < n =>
          \A t, u \in Tasks : t = job[m] /\ u = job[n] => PairOK(t, u)'
  BY Waiting, PairKept
<1> QED BY <1>1, Parts, JobJoin

LEMMA TailFacts ==
    ASSUME IInv, job # <<>>
    PROVE  /\ Tail(job) = SubSeq(job, 2, Len(job)) /\ 2 \in 1 .. Len(job) + 1
           /\ Tail(job) = <<>> \o SubSeq(job, 2, Len(job))
           /\ job = SubSeq(job, 1, Len(job)) /\ 1 \in 1 .. Len(job) + 1
<1>1. job \in Seq(Tasks) /\ Len(job) \in Nat \ {0}
  BY Parts, HeadFacts
<1>2. Tail(job) = SubSeq(job, 2, Len(job)) /\ Tail(job) \in Seq(Tasks)
  BY <1>1, TailIsSubSeq, HeadTailProperties
<1>3. job = SubSeq(job, 1, Len(job))
  BY <1>1, SubSeqFull
<1>4. <<>> \o Tail(job) = Tail(job)
  BY <1>2, ConcatEmptySeq
<1> QED BY <1>1, <1>2, <1>3, <1>4

(* A task is done, and the storage is as it was. *)
LEMMA PopOK ==
    ASSUME IInv, job # <<>>, job' = Tail(job), disk' = disk,
           clipboard'.mode = "copy" => clipboard.mode = "copy"
    PROVE  job' \in Seq(Tasks) /\ JobOK'
<1>1. \A u \in Tasks : Rest(2, u) => TaskOK(u)'
  BY TailFacts, Waiting, TaskKept
<1>2. PICK pre \in Seq(Tasks) : pre = <<>> /\ DOMAIN pre = {}
  <2>1. <<>> \in Seq(Tasks) /\ DOMAIN <<>> = {}
    OBVIOUS
  <2> QED BY <2>1, Zenon
<1>3. job' = pre \o SubSeq(job, 2, Len(job)) /\ 2 \in 1 .. Len(job) + 1 /\ 2 > 1
  BY <1>2, TailFacts
<1> QED BY <1>1, <1>2, <1>3, JobStep

(* One task in front of those that wait. *)
LEMMA JobCons ==
    ASSUME IInv, job # <<>>, NEW k \in 1 .. Len(job) + 1, k > 1 \/ job[1].op = "undo",
           NEW t \in Tasks, job' = <<t>> \o SubSeq(job, k, Len(job)),
           clipboard'.mode = "copy" => clipboard.mode = "copy",
           \A u \in Tasks : Rest(k, u) => TaskOK(u)',
           TaskOK(t)',
           \A u \in Tasks : Rest(k, u) => PairOK(t, u)'
    PROVE  job' \in Seq(Tasks) /\ JobOK' /\ job' # <<>> /\ Head(job') = t
<1>1. PICK pre \in Seq(Tasks) : pre = <<t>> /\ DOMAIN pre = {1} /\ pre[1] = t
  <2>1. <<t>> \in Seq(Tasks) /\ DOMAIN <<t>> = {1} /\ <<t>>[1] = t
    OBVIOUS
  <2> QED BY <2>1, Zenon
<1>2. job' = pre \o SubSeq(job, k, Len(job))
  BY <1>1
<1>3. \A i \in DOMAIN pre : TaskOK(pre[i])'
  BY <1>1
<1>4. \A i, j \in DOMAIN pre : i < j => PairOK(pre[i], pre[j])'
  BY <1>1
<1>5. \A i \in DOMAIN pre : \A u \in Tasks : Rest(k, u) => PairOK(pre[i], u)'
  BY <1>1
<1>6. job' \in Seq(Tasks) /\ JobOK'
  BY <1>2, <1>3, <1>4, <1>5, JobStep
<1>7. SubSeq(job, k, Len(job)) \in Seq(Tasks)
  <2>1. job \in Seq(Tasks) /\ Len(job) \in Nat
    BY Parts
  <2> QED BY <2>1
<1>8. job' # <<>> /\ Head(job') = t
  <2>1. PICK s \in Seq(Tasks) : s = SubSeq(job, k, Len(job))
    BY <1>7
  <2>2. <<t>> \o s # <<>> /\ Head(<<t>> \o s) = t
    OBVIOUS
  <2> QED BY <2>1, <2>2
<1> QED BY <1>6, <1>8

LEMMA PastedOK ==
    ASSUME ClipOK, clipboard.mode = "cut", NEW src, Pasted(src)
    PROVE  ClipOK' /\ clipboard'.mode # "copy"
<1> DEFINE I == [path : Paths, is_dir : BOOLEAN]
<1>1. PICK n \in DOMAIN clipboard.items :
          LET left == RemoveAt(clipboard.items, n)
          IN  clipboard' = IF left = <<>> THEN NoClipboard ELSE [clipboard EXCEPT !.items = left]
  BY DEF Pasted
<1>2. clipboard.items \in Seq(I) /\ Len(clipboard.items) \in Nat /\ n \in 1 .. Len(clipboard.items)
  BY DEF ClipOK
<1>3. RemoveAt(clipboard.items, n) \in Seq(I)
  <2> DEFINE s == clipboard.items
  <2>1. \A i \in 1 .. Len(s) : s[i] \in I
    BY <1>2, ElementOfSeq, Zenon
  <2> HIDE DEF s, I
  <2>2. SubSeq(s, 1, n - 1) \in Seq(I)
    BY <1>2, <2>1, SubSeqProperties DEF s
  <2>3. SubSeq(s, n + 1, Len(s)) \in Seq(I)
    BY <1>2, <2>1, SubSeqProperties DEF s
  <2> QED BY <2>2, <2>3, ConcatProperties DEF s, RemoveAt
<1>4. PICK left \in Seq(I) : left = RemoveAt(clipboard.items, n)
  BY <1>3
<1>5. CASE left = <<>>
  <2>1. clipboard' = NoClipboard
    BY <1>1, <1>4, <1>5
  <2> QED BY <2>1 DEF NoClipboard, ClipOK
<1>6. CASE left # <<>>
  <2>1. clipboard' = [clipboard EXCEPT !.items = left]
    BY <1>1, <1>4, <1>6
  <2> QED BY <2>1 DEF ClipOK
<1> QED BY <1>5, <1>6

LEMMA PasteOK == ASSUME IInv, paste PROVE IInv'
<1> DEFINE src == Head(job).from
           dst == Head(job).to
<1>1. job # <<>> /\ Head(job).op = "paste" /\ UNCHANGED <<cache, stored, suspect, unsaved, faults>>
  BY DEF paste
<1>2. /\ job[1] \in Tasks /\ job[1] = Head(job) /\ TaskOK(job[1])
      /\ job[1].op = "paste" /\ src \in Paths /\ dst \in Seq(Nat) /\ dst # <<>> /\ job[1].top = dst
      /\ clipboard.mode = "copy" => Has_parent(dst)
  BY <1>1, Parts, HeadFacts, TaskFields DEF TaskOK
<1>3. \A p \in Paths \ suspect : Right(p)
  BY <1>1, <1>2, AllRight
<1>4. TableOK'
  BY <1>1, Parts, TableKept
<1>5. ASSUME NEW u \in Tasks, Rest(2, u)
      PROVE  TaskOK(u) /\ u.op = "paste" /\ (clipboard.mode = "copy" => Parent(u.to) = Parent(dst))
  <2>1. TaskOK(u) /\ PairOK(job[1], u)
    BY <1>1, <1>5, TailFacts, Waiting
  <2> QED BY <1>2, <2>1 DEF PairOK
<1>6. 2 \in 1 .. Len(job) + 1 /\ Tail(job) = SubSeq(job, 2, Len(job))
  BY <1>1, TailFacts
<1>7. CASE job' = Tail(job) /\ UNCHANGED <<disk, intent, clipboard>>
  <2>1. job' \in Seq(Tasks) /\ JobOK'
    BY <1>1, <1>7, PopOK
  <2>2. Settled'
    BY <1>1, <1>3, <1>7, RightKept, SettledAll
  <2>3. Rooted' /\ IntentOK' /\ ClipOK'
    BY <1>7, Parts DEF Rooted, IntentOK, ClipOK, _exists, Has_parent, Folders, _is_dir
  <2> QED BY <1>4, <2>1, <2>2, <2>3, Whole
<1>8. CASE /\ clipboard.mode = "cut" /\ dst \in Paths /\ dst # src
           /\ Rename(src, dst) /\ Pasted(src)
           /\ job' = <<Task("move", src, dst, dst, {})>> \o Tail(job)
  <2>1. PICK p \in Paths : p = src
    BY <1>2
  <2>2. PICK q \in Paths : q = dst
    BY <1>8
  <2>3. /\ Rooted' /\ IntentOK' /\ Renaming(p, q)'
        /\ \A r \in Paths \ suspect : r \notin Inside[p] \cup Inside[q] => Right(r)'
    BY <1>1, <1>3, <1>8, <2>1, <2>2, RenameOK
  <2>4. PICK t : t = Task("move", p, q, q, {})
    OBVIOUS
  <2>5. /\ t \in Tasks /\ t.op = "move" /\ TaskOK(t)' /\ Owed(t) = Inside[p] \cup Inside[q]
    BY <2>3, <2>4, MoveTask
  <2>6. ClipOK' /\ clipboard'.mode # "copy"
    BY <1>8, Parts, PastedOK
  <2>7. ASSUME NEW u \in Tasks, Rest(2, u) PROVE TaskOK(u)' /\ PairOK(t, u)'
    BY <1>5, <2>5, <2>6, <2>7 DEF TaskOK, PairOK, Building, Copying
  <2>8. job' = <<t>> \o SubSeq(job, 2, Len(job))
    BY <1>6, <1>8, <2>1, <2>2, <2>4
  <2>9. job' \in Seq(Tasks) /\ JobOK' /\ job' # <<>> /\ Head(job') = t
    BY <1>1, <1>6, <2>5, <2>6, <2>7, <2>8, JobCons
  <2>10. Settled'
    BY <1>1, <2>3, <2>5, <2>9, SettledHead
  <2> QED BY <1>4, <2>3, <2>6, <2>9, <2>10, Whole
<1>9. CASE /\ clipboard.mode = "copy" /\ dst \in Paths /\ dst # src
           /\ _exists(src) /\ ~_exists(dst) /\ dst \notin Inside[src]
           /\ job' = <<Task(IF Marked_dir(src) THEN "copy_tree" ELSE "copy_file",
                            src, dst, dst, {})>> \o Tail(job)
           /\ UNCHANGED <<disk, intent, clipboard>>
  <2>1. PICK op \in Copying : op = IF Marked_dir(src) THEN "copy_tree" ELSE "copy_file"
    BY DEF Copying
  <2>2. PICK t : t = Task(op, src, dst, dst, {})
    OBVIOUS
  <2>3. t \in Tasks /\ t.op = op /\ t.to = dst /\ t.top = dst
    <3>1. op \in {"paste", "copy_file", "copy_tree", "list", "undo", "chmod", "remove", "move"}
      BY DEF Copying
    <3> QED BY <1>2, <2>2, <3>1, TaskType, ModeFacts
  <2>4. PICK q \in Paths : q = dst
    BY <1>9
  <2>5. Has_parent(q)' /\ Free(q)' /\ q \in Inside[q]
    <3>1. Free(q)
      BY <1>9, <2>4, Parts, FreeBelow
    <3> QED BY <1>2, <1>9, <2>4, <3>1, PathFacts DEF Has_parent, Folders, Free, _exists, _is_dir
  <2>6. TaskOK(t)'
    BY <2>3, <2>4, <2>5 DEF TaskOK, Copying
  <2>7. ASSUME NEW u \in Tasks, Rest(2, u) PROVE TaskOK(u)' /\ PairOK(t, u)'
    <3>1. TaskOK(u)'
      BY <1>5, <1>9, <2>7, TaskKept
    <3>2. PairOK(t, u)'
      BY <1>5, <1>9, <2>3, <2>7 DEF PairOK, Building, Copying
    <3> QED BY <3>1, <3>2
  <2>8. job' = <<t>> \o SubSeq(job, 2, Len(job))
    BY <1>6, <1>9, <2>1, <2>2
  <2>9. job' \in Seq(Tasks) /\ JobOK' /\ job' # <<>> /\ Head(job') = t
    BY <1>1, <1>6, <1>9, <2>3, <2>6, <2>7, <2>8, JobCons
  <2>10. Settled'
    BY <1>1, <1>3, <1>9, RightKept, SettledAll
  <2>11. Rooted' /\ IntentOK' /\ ClipOK'
    BY <1>9, Parts DEF Rooted, IntentOK, ClipOK, _exists, Has_parent, Folders, _is_dir
  <2> QED BY <1>4, <2>9, <2>10, <2>11, Whole
<1> QED BY <1>7, <1>8, <1>9 DEF paste

(* The copy is given up; what it made is removed before the paste goes on. *)
LEMMA CopyFailsOK ==
    ASSUME IInv, job # <<>>, job[1].op \in Building, NEW top, top = job[1].top, Copy_fails(top),
           UNCHANGED clipboard,
           \A u \in Tasks : u.op = "paste" /\ Rest(2, u) => TaskOK(u)'
    PROVE  job' \in Seq(Tasks) /\ JobOK'
<1>1. PICK k \in DOMAIN job :
          /\ \A n \in DOMAIN job : job[n].op = "paste" <=> n > k
          /\ job' = <<Task("undo", top, top, top, {})>> \o SubSeq(job, k + 1, Len(job))
  BY DEF Copy_fails
<1>2. /\ DOMAIN job = 1 .. Len(job) /\ Len(job) \in Nat \ {0} /\ 1 \in DOMAIN job
      /\ job[1] \in Tasks /\ TaskOK(job[1])
  BY Parts, HeadFacts
<1>3. k + 1 \in 1 .. Len(job) + 1 /\ k + 1 > 1 /\ k \in Nat \ {0}
  BY <1>2
<1>4. job[1].op # "paste"
  BY DEF Building, Copying
<1>5. top \in Paths /\ top \in Seq(Nat) /\ top \in Inside[top]
  BY <1>2, <1>4, PathFacts DEF TaskOK
<1>6. PICK t : t = Task("undo", top, top, top, {})
  OBVIOUS
<1>7. t \in Tasks /\ t.op = "undo" /\ t.to = top /\ t.top = top
  BY <1>5, <1>6, TaskType, ModeFacts
<1>8. TaskOK(t)'
  BY <1>5, <1>7 DEF TaskOK, Copying
<1>9. ASSUME NEW u \in Tasks, Rest(k + 1, u) PROVE TaskOK(u)' /\ PairOK(t, u)'
  <2>1. PICK n \in k + 1 .. Len(job) : u = job[n]
    BY <1>9 DEF Rest
  <2>2. n \in DOMAIN job /\ n > k /\ n \in 2 .. Len(job)
    BY <1>2, <1>3
  <2>3. u.op = "paste" /\ Rest(2, u)
    BY <1>1, <2>1, <2>2 DEF Rest
  <2>4. PairOK(job[1], u)
    BY <1>3, <1>9, Waiting
  <2>5. PairOK(t, u)'
    BY <1>7, <2>3, <2>4 DEF PairOK, Building, Copying
  <2> QED BY <2>3, <2>5
<1>10. job' = <<t>> \o SubSeq(job, k + 1, Len(job))
  BY <1>1, <1>6
<1> QED BY <1>3, <1>7, <1>8, <1>9, <1>10, JobCons

(* What is known of a task of a copy that is at the head. *)
LEMMA BuildingHead ==
    ASSUME IInv, job # <<>>, Head(job).op \in Building
    PROVE  /\ job[1] = Head(job) /\ job[1] \in Tasks /\ TaskOK(job[1]) /\ job[1].op \in Building
           /\ job[1].from \in Paths /\ job[1].to \in Paths /\ job[1].top \in Paths
           /\ job[1].to \in Inside[job[1].top]
           /\ \A p \in Paths \ suspect : Right(p)
           /\ 2 \in 1 .. Len(job) + 1 /\ Tail(job) = SubSeq(job, 2, Len(job))
<1>1. /\ job[1] = Head(job) /\ job[1] \in Tasks /\ TaskOK(job[1]) /\ job[1].op \in Building
  BY Parts, HeadFacts
<1>2. job[1].op # "paste"
  BY <1>1 DEF Building, Copying
<1>3. job[1].from \in Paths /\ job[1].top \in Paths /\ job[1].to \in Inside[job[1].top]
  BY <1>1, <1>2, TaskFields DEF TaskOK
<1>4. job[1].to \in Paths
  BY <1>3, PathFacts
<1> QED BY <1>1, <1>3, <1>4, AllRight, TailFacts

(* A copy writes its target: what waits is not concerned. *)
LEMMA WaitingKeptPut ==
    ASSUME IInv, job # <<>>, Head(job).op \in Copying, UNCHANGED clipboard,
           NEW what, Put(job[1].to, what)
    PROVE  \A u \in Tasks : Rest(2, u) => TaskOK(u)'
<1> SUFFICES ASSUME NEW u \in Tasks, Rest(2, u) PROVE TaskOK(u)'
  OBVIOUS
<1>1. Head(job).op \in Building
  BY DEF Building
<1>2. PICK d \in Paths : d = job[1].to
  BY <1>1, BuildingHead
<1>3. TaskOK(u) /\ u.op \in Building \cup {"undo", "paste"} /\ PairOK(job[1], u)
  BY TailFacts, Waiting
<1>4. job[1].op \in Building /\ Free(d)
  BY <1>1, <1>2, BuildingHead DEF TaskOK
<1>5. u.op \in Building => ~Within(d, u.to)
  BY <1>2, <1>3, <1>4 DEF PairOK
<1>6. ~_exists(d) /\ d # <<>>
  BY <1>4, PathFacts DEF Free
<1>7. ASSUME Has_parent(u.to) PROVE Parent(u.to) # d
  BY <1>6, <1>7 DEF Has_parent, Folders, _is_dir, _exists
<1>8. CASE u.op = "paste" /\ clipboard.mode # "copy"
  BY <1>3, <1>8 DEF TaskOK, Copying
<1>9. CASE u.op = "undo"
  BY <1>2, <1>3, <1>5, <1>9, TaskKeptPut, Parts
<1>10. CASE u.op = "list"
  <2>1. u.to \in Paths /\ _is_dir(u.to)
    BY <1>3, <1>10, PathFacts DEF TaskOK
  <2>2. Has_parent(u.to)
    BY <2>1, Parts DEF Rooted, _exists, _is_dir
  <2> QED BY <1>2, <1>3, <1>5, <1>7, <2>2, TaskKeptPut, Parts
<1>11. CASE u.op \in Copying \/ (u.op = "paste" /\ clipboard.mode = "copy")
  <2>1. Has_parent(u.to)
    BY <1>3, <1>11 DEF TaskOK
  <2> QED BY <1>2, <1>3, <1>5, <1>7, <2>1, TaskKeptPut, Parts
<1> QED BY <1>3, <1>8, <1>9, <1>10, <1>11 DEF Building

(* The target of a copy gets what a task chmod, or nothing, makes right. *)
LEMMA CopiedOK ==
    ASSUME IInv, job # <<>>, Head(job).op \in Copying, NEW what \in Contents \ {Absent},
           NEW m \in AllModes, Copied(job[1].to, what, m), UNCHANGED <<cache, suspect>>,
           NEW d, d = job[1].to
    PROVE  /\ Rooted' /\ IntentOK' /\ disk'[d] = what /\ intent'[d] = m
           /\ \A p \in Paths \ suspect : p # d => Right(p)'
           /\ d \notin suspect /\ m = Default(what) => Right(d)'
<1>1. Head(job).op \in Building
  BY DEF Building
<1>2. d \in Paths
  BY <1>1, BuildingHead
<1>3. Put(d, what) /\ intent' = [intent EXCEPT ![d] = m]
  BY <1>2 DEF Copied
<1>4. Has_parent(d) /\ Free(d)
  BY <1>1, <1>2, BuildingHead DEF TaskOK
<1>5. Rooted'
  <2>1. Holds_nothing(d)
    BY <1>4 DEF Free, Holds_nothing
  <2> QED BY <1>2, <1>3, <1>4, <2>1, Parts, PutRooted
<1>6. IntentOK' /\ disk'[d] = what /\ intent'[d] = m
  <2>1. IntentOK /\ disk \in [Paths -> Contents]
    BY Parts
  <2> QED BY <1>2, <1>3, <2>1 DEF IntentOK, Put
<1>7. ASSUME NEW p \in Paths \ suspect, p # d PROVE Right(p)'
  <2>1. Right(p)
    BY <1>1, BuildingHead
  <2>2. disk'[p] = disk[p] /\ intent'[p] = intent[p]
    BY <1>3, <1>7, Parts DEF IntentOK, Put
  <2> QED BY <2>1, <2>2, RightKept
<1>8. ASSUME d \notin suspect, m = Default(what) PROVE Right(d)'
  <2>1. ~_exists(d) /\ Right(d)
    BY <1>1, <1>4, <1>8, BuildingHead, PathFacts DEF Free
  <2>2. cache'[d] = None
    BY <2>1 DEF Right
  <2> QED BY <1>6, <1>8, <2>2 DEF Right, _exists, get_mode
<1> QED BY <1>2, <1>5, <1>6, <1>7, <1>8

LEMMA DiskKept ==
    ASSUME IInv, UNCHANGED <<disk, intent, clipboard>>
    PROVE  Rooted' /\ IntentOK' /\ ClipOK'
BY Parts DEF Rooted, IntentOK, ClipOK, _exists, Has_parent, Folders, _is_dir

(* The copy ends, or one of its tasks does, and the storage is as it was. *)
LEMMA RefusedOK ==
    ASSUME IInv, job # <<>>, Head(job).op \in Building, UNCHANGED <<disk, intent, clipboard, cache, suspect>>,
           job' = Tail(job) \/ Copy_fails(job[1].top)
    PROVE  job' \in Seq(Tasks) /\ JobOK' /\ Settled'
<1>1. \A u \in Tasks : Rest(2, u) => TaskOK(u)'
  BY TailFacts, Waiting, TaskKept
<1>2. job' \in Seq(Tasks) /\ JobOK'
  <2>1. CASE job' = Tail(job)
    BY <2>1, PopOK
  <2>2. CASE Copy_fails(job[1].top)
    <3>1. PICK top : top = job[1].top
      OBVIOUS
    <3>2. Copy_fails(top)
      BY <2>2, <3>1
    <3> QED BY <1>1, <3>1, <3>2, CopyFailsOK, BuildingHead
  <2> QED BY <2>1, <2>2
<1>3. Settled'
  BY BuildingHead, RightKept, SettledAll
<1> QED BY <1>2, <1>3

(* The task that gives the target of a copy its mode. *)
LEMMA ChmodTask ==
    ASSUME IInv, job # <<>>, Head(job).op \in Copying, NEW m \in AllModes, NEW t,
           t = Task("chmod", job[1].to, job[1].to, job[1].top, m),
           disk'[job[1].to] # Absent, intent'[job[1].to] = m
    PROVE  /\ t \in Tasks /\ t.op = "chmod" /\ TaskOK(t)' /\ Owed(t) = {job[1].to}
           /\ t.to = job[1].to /\ t.top = job[1].top
<1>1. Head(job).op \in Building
  BY DEF Building
<1>2. PICK d \in Paths : d = job[1].to
  BY <1>1, BuildingHead
<1>3. PICK top \in Paths : top = job[1].top /\ d \in Inside[top]
  BY <1>1, <1>2, BuildingHead
<1>4. t \in Tasks /\ t.op = "chmod" /\ t.to = d /\ t.top = top /\ t.mode = m
  <2>1. d \in Seq(Nat) /\ top \in Seq(Nat)
    BY PathFacts
  <2>2. t = Task("chmod", d, d, top, m)
    BY <1>2, <1>3
  <2> QED BY <2>1, <2>2, TaskType
<1>5. TaskOK(t)'
  BY <1>2, <1>3, <1>4 DEF TaskOK, Copying, _exists
<1>6. Owed(t) = {d}
  BY <1>4 DEF Owed
<1> QED BY <1>2, <1>3, <1>4, <1>5, <1>6

LEMMA CopyFileOK == ASSUME IInv, _copy_file PROVE IInv'
<1> DEFINE src == Head(job).from
           can == Is_file(src) /\ readable(src)
<1>1. /\ job # <<>> /\ Head(job).op \in Copying /\ Head(job).op \in Building
      /\ UNCHANGED <<cache, stored, clipboard, suspect, unsaved>>
  BY DEF _copy_file, Copying, Building
<1>2. job[1] = Head(job) /\ src \in Paths
  BY <1>1, BuildingHead
<1>3. ClipOK'
  BY <1>1, Parts DEF ClipOK
<1>4. CASE /\ can /\ Copied(job[1].to, disk[src], get_mode(src)) /\ UNCHANGED faults
           /\ job' = <<Task("chmod", job[1].to, job[1].to, job[1].top, get_mode(src))>> \o Tail(job)
  <2>1. PICK what \in Contents \ {Absent} : what = disk[src]
    BY <1>2, <1>4, Parts DEF Is_file, _exists
  <2>2. PICK m \in AllModes : m = get_mode(src)
    BY <1>2, Parts, GetModeType
  <2>0. PICK d : d = job[1].to
    OBVIOUS
  <2>3. /\ Rooted' /\ IntentOK' /\ disk'[d] = what /\ intent'[d] = m
        /\ \A p \in Paths \ suspect : p # d => Right(p)'
    BY <1>1, <1>4, <2>0, <2>1, <2>2, CopiedOK
  <2>4. PICK t : t = Task("chmod", job[1].to, job[1].to, job[1].top, m)
    OBVIOUS
  <2>5. t \in Tasks /\ t.op = "chmod" /\ TaskOK(t)' /\ Owed(t) = {d}
    BY <1>1, <2>0, <2>3, <2>4, ChmodTask
  <2>6. \A u \in Tasks : Rest(2, u) => TaskOK(u)'
    BY <1>1, <1>4, WaitingKeptPut DEF Copied
  <2>7. ASSUME NEW u \in Tasks, Rest(2, u) PROVE PairOK(t, u)'
    <3>1. u.op \in Building \cup {"undo", "paste"}
      BY <1>1, <2>7, TailFacts, Waiting
    <3> QED BY <2>5, <3>1 DEF PairOK, Building, Copying
  <2>8. job' = <<t>> \o SubSeq(job, 2, Len(job)) /\ 2 \in 1 .. Len(job) + 1 /\ 2 > 1
    BY <1>1, <1>4, <2>2, <2>4, BuildingHead
  <2>9. job' \in Seq(Tasks) /\ JobOK' /\ job' # <<>> /\ Head(job') = t
    BY <1>1, <2>5, <2>6, <2>7, <2>8, JobCons
  <2>10. Settled'
    BY <1>1, <2>3, <2>5, <2>9, SettledHead
  <2>11. TableOK'
    BY <1>1, <1>4, Parts, TableKept
  <2> QED BY <1>3, <2>3, <2>9, <2>10, <2>11, Whole
<1>5. CASE can /\ Copy_fails(job[1].top) /\ Copied(job[1].to, Torn, DEFAULT_FILE_MODE) /\ Fault
  <2>1. Torn \in Contents \ {Absent} /\ DEFAULT_FILE_MODE \in AllModes
        /\ Default(Torn) = DEFAULT_FILE_MODE
    BY ModeFacts DEF Contents, Default
  <2>2. PICK d : d = job[1].to
    OBVIOUS
  <2>3. /\ Rooted' /\ IntentOK' /\ Settled'
    <3>1. /\ Rooted' /\ IntentOK'
          /\ \A p \in Paths \ suspect : p # d => Right(p)'
          /\ d \notin suspect => Right(d)'
      BY <1>1, <1>5, <2>1, <2>2, CopiedOK
    <3> QED BY <1>1, <3>1, SettledAll
  <2>4. PICK top : top = job[1].top
    OBVIOUS
  <2>5. \A u \in Tasks : Rest(2, u) => TaskOK(u)'
    BY <1>1, <1>5, WaitingKeptPut DEF Copied
  <2>6. Copy_fails(top) /\ job[1].op \in Building
    BY <1>1, <1>5, <2>4, BuildingHead
  <2>7. job' \in Seq(Tasks) /\ JobOK'
    BY <1>1, <2>4, <2>5, <2>6, CopyFailsOK
  <2>8. TableOK'
    BY <1>1, <1>5, Parts, TableKept
  <2> QED BY <1>3, <2>3, <2>7, <2>8, Whole
<1>6. CASE /\ Copy_fails(job[1].top) \/ job' = Tail(job)
           /\ UNCHANGED <<disk, intent, faults>>
  <2>1. job' \in Seq(Tasks) /\ JobOK' /\ Settled'
    BY <1>1, <1>6, RefusedOK
  <2>2. Rooted' /\ IntentOK' /\ TableOK'
    BY <1>1, <1>6, DiskKept, TableKept, Parts
  <2> QED BY <1>3, <2>1, <2>2, Whole
<1> QED BY <1>2, <1>4, <1>5, <1>6 DEF _copy_file, Refused

LEMMA CopyTreeOK == ASSUME IInv, _copy_tree PROVE IInv'
<1> DEFINE src == Head(job).from
<1>1. /\ job # <<>> /\ Head(job).op \in Copying /\ Head(job).op \in Building
      /\ UNCHANGED <<cache, stored, clipboard, suspect, unsaved>>
  BY DEF _copy_tree, Copying, Building
<1>2. job[1] = Head(job) /\ src \in Paths
  BY <1>1, BuildingHead
<1>3. ClipOK'
  BY <1>1, Parts DEF ClipOK
<1>4. CASE /\ Copied(job[1].to, Folder, get_mode(src)) /\ UNCHANGED faults
           /\ job' = <<Task("chmod", job[1].to, job[1].to, job[1].top, get_mode(src)),
                       Task("list", src, job[1].to, job[1].top, {})>> \o Tail(job)
  <2>1. Folder \in Contents \ {Absent}
    BY DEF Contents
  <2>2. PICK m \in AllModes : m = get_mode(src)
    BY <1>2, Parts, GetModeType
  <2>3. PICK d \in Paths : d = job[1].to
    BY <1>1, BuildingHead
  <2>4. /\ Rooted' /\ IntentOK' /\ disk'[d] = Folder /\ intent'[d] = m
        /\ \A p \in Paths \ suspect : p # d => Right(p)'
    BY <1>1, <1>4, <2>1, <2>2, <2>3, CopiedOK
  <2>5. PICK t : t = Task("chmod", job[1].to, job[1].to, job[1].top, m)
    OBVIOUS
  <2>6. t \in Tasks /\ t.op = "chmod" /\ TaskOK(t)' /\ Owed(t) = {d}
    BY <1>1, <2>3, <2>4, <2>5, ChmodTask
  <2>7. PICK l : l = Task("list", src, job[1].to, job[1].top, {})
    OBVIOUS
  <2>8. PICK top \in Paths : top = job[1].top /\ d \in Inside[top]
    BY <1>1, <2>3, BuildingHead
  <2>9. l \in Tasks /\ l.op = "list" /\ l.to = d /\ l.top = top
    <3>1. d \in Seq(Nat) /\ top \in Seq(Nat) /\ {} \in AllModes
      BY PathFacts, ModeFacts
    <3>2. l = Task("list", src, d, top, {})
      BY <2>3, <2>7, <2>8
    <3> QED BY <1>2, <3>1, <3>2, TaskType
  <2>10. _is_dir(d)' /\ Holds_nothing(d)'
    <3>1. Free(d)
      BY <1>1, <2>3, BuildingHead DEF TaskOK
    <3>2. \A q \in Inside[d] : q # d => disk'[q] = disk[q]
      BY <1>4, <2>3, Parts, PathFacts DEF Copied, Put
    <3> QED BY <2>4, <3>1, <3>2 DEF _is_dir, Holds_nothing, Free, _exists
  <2>11. TaskOK(l)'
    BY <2>8, <2>9, <2>10 DEF TaskOK, Copying
  <2>12. \A u \in Tasks : Rest(2, u) => TaskOK(u)'
    BY <1>1, <1>4, WaitingKeptPut DEF Copied
  <2>13. ASSUME NEW u \in Tasks, Rest(2, u) PROVE PairOK(t, u)' /\ PairOK(l, u)'
    <3>1. u.op \in Building \cup {"undo", "paste"} /\ PairOK(job[1], u)
      BY <1>1, <2>13, TailFacts, Waiting
    <3>2. PairOK(t, u)'
      BY <2>6, <3>1 DEF PairOK, Building, Copying
    <3>3. PairOK(l, u)'
      BY <1>1, <1>2, <2>3, <2>8, <2>9, <3>1 DEF PairOK, Building, Copying
    <3> QED BY <3>2, <3>3
  <2>14. PairOK(t, l)'
    BY <2>6, <2>9 DEF PairOK, Building, Copying
  <2>15. PICK pre \in Seq(Tasks) : /\ pre = <<t, l>> /\ DOMAIN pre = {1, 2}
                                   /\ pre[1] = t /\ pre[2] = l
    <3>1. <<t, l>> \in Seq(Tasks) /\ DOMAIN <<t, l>> = {1, 2} /\ <<t, l>>[1] = t /\ <<t, l>>[2] = l
      BY <2>6, <2>9
    <3> QED BY <3>1, Zenon
  <2>16. job' = pre \o SubSeq(job, 2, Len(job)) /\ 2 \in 1 .. Len(job) + 1 /\ 2 > 1
    BY <1>1, <1>4, <2>2, <2>5, <2>7, <2>15, BuildingHead
  <2>17. \A i \in DOMAIN pre : TaskOK(pre[i])'
    BY <2>6, <2>11, <2>15
  <2>18. \A i, j \in DOMAIN pre : i < j => PairOK(pre[i], pre[j])'
    BY <2>14, <2>15
  <2>19. \A i \in DOMAIN pre : \A u \in Tasks : Rest(2, u) => PairOK(pre[i], u)'
    BY <2>13, <2>15
  <2>20. job' \in Seq(Tasks) /\ JobOK'
    BY <1>1, <2>12, <2>16, <2>17, <2>18, <2>19, JobStep
  <2>21. job' # <<>> /\ Head(job') = t
    <3>1. SubSeq(job, 2, Len(job)) \in Seq(Tasks)
      <4>1. job \in Seq(Tasks) /\ Len(job) \in Nat
        BY Parts
      <4> QED BY <4>1
    <3>2. PICK r \in Seq(Tasks) : r = SubSeq(job, 2, Len(job))
      BY <3>1
    <3>3. <<t, l>> \o r # <<>> /\ Head(<<t, l>> \o r) = t
      BY <2>6, <2>9
    <3> QED BY <2>15, <2>16, <3>2, <3>3
  <2>22. Settled'
    BY <1>1, <2>4, <2>6, <2>21, SettledHead
  <2>23. TableOK'
    BY <1>1, <1>4, Parts, TableKept
  <2> QED BY <1>3, <2>4, <2>20, <2>22, <2>23, Whole
<1>5. CASE /\ Copy_fails(job[1].top) \/ job' = Tail(job)
           /\ UNCHANGED <<disk, intent>> /\ (UNCHANGED faults \/ Fault)
  <2>1. job' \in Seq(Tasks) /\ JobOK' /\ Settled'
    BY <1>1, <1>5, RefusedOK
  <2>2. Rooted' /\ IntentOK' /\ TableOK'
    BY <1>1, <1>5, DiskKept, TableKept, Parts
  <2> QED BY <1>3, <2>1, <2>2, Whole
<1> QED BY <1>2, <1>4, <1>5 DEF _copy_tree, Refused

LEMMA ListdirOK == ASSUME IInv, listdir PROVE IInv'
<1> DEFINE src == Head(job).from
           held == {p \in Paths : _exists(p) /\ Len(p) = Len(src) + 1 /\ Within(p, src)}
           T(p) == Task(IF _is_dir(p) THEN "copy_tree" ELSE "copy_file",
                        p, Rebase(p, src, job[1].to), job[1].top, {})
<1>1. /\ job # <<>> /\ Head(job).op = "list" /\ Head(job).op \in Building
      /\ UNCHANGED <<disk, cache, stored, clipboard, intent, suspect, unsaved, faults>>
  BY DEF listdir, Building, history
<1>2. job[1] = Head(job) /\ src \in Paths
  BY <1>1, BuildingHead
<1>3. Rooted' /\ IntentOK' /\ ClipOK' /\ TableOK'
  BY <1>1, Parts, DiskKept, TableKept
<1>4. CASE Copy_fails(job[1].top)
  <2>1. job' \in Seq(Tasks) /\ JobOK' /\ Settled'
    BY <1>1, <1>4, RefusedOK
  <2> QED BY <1>3, <2>1, Whole
<1>5. ASSUME NEW names \in SetToSeqs(held), \A p \in held : Rebase(p, src, job[1].to) \in Paths,
             job' = [n \in DOMAIN names |-> T(names[n])] \o Tail(job)
      PROVE  IInv'
  <2>1. PICK d \in Paths : d = job[1].to
    BY <1>1, BuildingHead
  <2>2. PICK top \in Paths : top = job[1].top /\ d \in Inside[top]
    BY <1>1, <2>1, BuildingHead
  <2>3. PICK f \in Paths : f = src
    BY <1>2
  <2>4. _is_dir(d) /\ Holds_nothing(d)
    BY <1>1, <1>2, <2>1, BuildingHead DEF TaskOK
  <2>5. PICK k \in Nat : /\ names \in [1 .. k -> held]
                         /\ \A i, j \in 1 .. k : i # j => names[i] # names[j]
    <3>1. IsFiniteSet(held)
      BY FilesAssumption, FS_Subset
    <3>2. Cardinality(held) \in Nat
      BY <3>1, FS_CardinalityType
    <3> HIDE DEF held
    <3> QED BY <1>5, <3>2 DEF SetToSeqs
  <2>6. \A p \in held : p \in Paths /\ Len(p) = Len(f) + 1 /\ Within(p, f)
    BY <2>3
  <2>7. ASSUME NEW p \in held
        PROVE  /\ T(p) \in Tasks /\ T(p).op \in Copying /\ T(p).to = Rebase(p, f, d) /\ T(p).top = top
               /\ Rebase(p, f, d) \in Paths /\ Len(Rebase(p, f, d)) = Len(d) + 1
               /\ Parent(Rebase(p, f, d)) = d /\ Rebase(p, f, d) \in Inside[d]
    <3>1. p \in Seq(Nat) /\ f \in Seq(Nat) /\ d \in Seq(Nat) /\ top \in Seq(Nat) /\ p # <<>>
      BY <2>6, PathFacts
    <3>2. Rebase(p, f, d) \in Paths
      BY <1>5, <2>1, <2>3
    <3>3. Len(Rebase(p, f, d)) = Len(d) + 1 /\ Within(Rebase(p, f, d), d)
      <4>1. Len(Rebase(p, f, d)) = Len(d) + Len(p) - Len(f) /\ Within(Rebase(p, f, d), d)
        BY <2>6, <3>1, RebaseFacts
      <4> QED BY <2>6, <3>1, <4>1
    <3>4. Rebase(p, f, d) \in Inside[d]
      BY <3>2, <3>3, PathFacts
    <3>5. Parent(Rebase(p, f, d)) = d
      <4> DEFINE r == Rebase(p, f, d)
      <4>1. r \in Seq(Nat) /\ r # <<>> /\ Len(r) = Len(d) + 1 /\ Within(r, d)
        BY <3>2, <3>3, PathFacts
      <4> HIDE DEF r
      <4>2. r # d
        BY <3>1, <4>1
      <4>3. Within(Parent(r), d) /\ Len(Parent(r)) = Len(r) - 1 /\ Parent(r) \in Seq(Nat)
        BY <3>1, <4>1, <4>2, ParentWithin, ParentFacts
      <4>4. Len(Parent(r)) <= Len(d)
        BY <3>1, <4>1, <4>3
      <4>5. Parent(r) = d
        BY <3>1, <4>3, <4>4, WithinSame
      <4> QED BY <4>5 DEF r
    <3>6. PICK op \in Copying : op = IF _is_dir(p) THEN "copy_tree" ELSE "copy_file"
      BY DEF Copying
    <3>7. T(p) = Task(op, p, Rebase(p, f, d), top, {})
      BY <2>1, <2>2, <2>3, <3>6
    <3>8. op \in {"paste", "copy_file", "copy_tree", "list", "undo", "chmod", "remove", "move"}
          /\ Rebase(p, f, d) \in Seq(Nat) /\ {} \in AllModes /\ p \in Paths
      BY <2>6, <3>2, PathFacts, ModeFacts DEF Copying
    <3> HIDE DEF T, held
    <3>9. T(p) \in Tasks /\ T(p).op \in Copying /\ T(p).to = Rebase(p, f, d) /\ T(p).top = top
      <4>1. PICK to \in Seq(Nat) : to = Rebase(p, f, d)
        BY <3>8
      <4>2. PICK t : t = Task(op, p, to, top, {})
        OBVIOUS
      <4>3. t \in Tasks /\ t.op = op /\ t.to = to /\ t.top = top
        <5>1. PICK e \in AllModes : e = {}
          BY <3>8
        <5>2. t = Task(op, p, to, top, e) /\ top \in Seq(Nat)
          BY <3>1, <4>2, <5>1
        <5> QED BY <3>8, <4>1, <5>1, <5>2, TaskType
      <4> QED BY <3>7, <4>1, <4>2, <4>3
    <3> QED BY <3>2, <3>3, <3>4, <3>5, <3>9
  <2> HIDE DEF T, held
  <2>8. PICK pre : pre = [n \in DOMAIN names |-> T(names[n])]
    OBVIOUS
  <2>9. pre \in [1 .. k -> Tasks] /\ \A n \in 1 .. k : names[n] \in held /\ pre[n] = T(names[n])
    BY <2>5, <2>7, <2>8
  <2>10. pre \in Seq(Tasks) /\ DOMAIN pre = 1 .. k
    BY <2>9, FunctionIsSeq
  <2>11. ASSUME NEW n \in 1 .. k
         PROVE  /\ pre[n].op \in Copying /\ pre[n].top = top /\ pre[n].to \in Paths
                /\ pre[n].to = Rebase(names[n], f, d)
                /\ Len(pre[n].to) = Len(d) + 1 /\ Parent(pre[n].to) = d /\ pre[n].to \in Inside[d]
    BY <2>7, <2>9
  <2>12. ASSUME NEW n \in 1 .. k PROVE TaskOK(pre[n])'
    <3>1. PICK to \in Paths : to = pre[n].to /\ Len(to) = Len(d) + 1 /\ Parent(to) = d /\ to \in Inside[d]
      BY <2>11
    <3>2. Has_parent(to)'
      BY <1>1, <2>4, <3>1 DEF Has_parent, Folders, _is_dir
    <3>3. ASSUME NEW q \in Inside[to] PROVE ~_exists(q)
      <4>1. q \in Paths /\ q \in Seq(Nat) /\ to \in Seq(Nat) /\ d \in Seq(Nat)
            /\ Within(q, to) /\ Within(to, d)
        BY <3>1, PathFacts
      <4>2. q \in Inside[d]
        BY <4>1, WithinTrans, PathFacts
      <4>3. q # d
        BY <3>1, <4>1 DEF Within
      <4> QED BY <2>4, <4>2, <4>3 DEF Holds_nothing
    <3>4. Free(to)'
      BY <1>1, <3>3 DEF Free, _exists
    <3>5. to \in Inside[top]
      <4>1. to \in Seq(Nat) /\ d \in Seq(Nat) /\ top \in Seq(Nat) /\ Within(to, d) /\ Within(d, top)
        BY <2>2, <3>1, PathFacts
      <4> QED BY <4>1, WithinTrans, PathFacts
    <3>6. pre[n].op \in Copying /\ pre[n].top = top /\ pre[n].to = to
      BY <2>11, <3>1
    <3> QED BY <3>2, <3>4, <3>5, <3>6 DEF TaskOK, Copying
  <2>13. ASSUME NEW m \in 1 .. k, NEW n \in 1 .. k, m < n PROVE PairOK(pre[m], pre[n])'
    <3>1. names[m] # names[n] /\ names[m] \in held /\ names[n] \in held
      BY <2>5, <2>9, <2>13
    <3>2. pre[m].to # pre[n].to
      <4>1. /\ names[m] \in Seq(Nat) /\ names[n] \in Seq(Nat) /\ f \in Seq(Nat) /\ d \in Seq(Nat)
            /\ Within(names[m], f) /\ Within(names[n], f)
        BY <2>6, <3>1, PathFacts
      <4>2. Rebase(Rebase(names[m], f, d), d, f) = names[m] /\ Rebase(Rebase(names[n], f, d), d, f) = names[n]
        BY <4>1, RebaseBack
      <4> QED BY <2>11, <3>1, <4>2
    <3>3. ~Within(pre[m].to, pre[n].to) /\ ~Within(pre[n].to, pre[m].to)
      <4>1. /\ pre[m].to \in Seq(Nat) /\ pre[n].to \in Seq(Nat)
            /\ Len(pre[m].to) = Len(pre[n].to) /\ Len(pre[n].to) \in Nat
        BY <2>11, PathFacts
      <4>2. Len(pre[m].to) <= Len(pre[n].to) /\ Len(pre[n].to) <= Len(pre[m].to)
        BY <4>1
      <4> QED BY <3>2, <4>1, <4>2, WithinSame
    <3> QED BY <2>11, <3>3 DEF PairOK, Building, Copying
  <2>14. ASSUME NEW n \in 1 .. k, NEW u \in Tasks, Rest(2, u) PROVE PairOK(pre[n], u)'
    <3>1. /\ u.op \in Building \cup {"undo", "paste"} /\ PairOK(job[1], u) /\ TaskOK(u)
          /\ job[1].op = "list" /\ job[1].op \in Building
      BY <1>1, <2>14, TailFacts, Waiting, BuildingHead
    <3>2. PICK to \in Paths : to = pre[n].to /\ to \in Inside[d]
      BY <2>11
    <3>3. ASSUME u.op \in Building PROVE ~Within(to, u.to) /\ ~Within(u.to, to)
      <4>1. ~Within(d, u.to) /\ ~Within(u.to, d)
        BY <2>1, <3>1, <3>3 DEF PairOK
      <4>2. /\ to \in Seq(Nat) /\ d \in Seq(Nat) /\ u.to \in Seq(Nat) /\ Within(to, d)
            /\ Len(d) \in Nat /\ Len(u.to) \in Nat
        <5>1. to \in Seq(Nat) /\ d \in Seq(Nat) /\ Within(to, d)
          BY <3>2, PathFacts
        <5>2. u.to \in Seq(Nat)
          BY TaskFields
        <5> QED BY <5>1, <5>2
      <4>3. ~Within(u.to, to)
        BY <4>1, <4>2, WithinTrans
      <4>4. ~Within(to, u.to)
        BY <4>1, <4>2, WithinChain
      <4> QED BY <4>3, <4>4
    <3>4. pre[n].op \in Copying /\ pre[n].top = top /\ pre[n].to = to
      BY <2>11, <3>2
    <3> QED BY <1>1, <2>2, <3>1, <3>3, <3>4 DEF PairOK, Building, Copying
  <2>15. \A u \in Tasks : Rest(2, u) => TaskOK(u)'
    BY <1>1, TailFacts, Waiting, TaskKept
  <2>16. job' = pre \o SubSeq(job, 2, Len(job)) /\ 2 \in 1 .. Len(job) + 1 /\ 2 > 1
    BY <1>1, <1>5, <2>8, BuildingHead
  <2>17. job' \in Seq(Tasks) /\ JobOK'
    BY <1>1, <2>10, <2>12, <2>13, <2>14, <2>15, <2>16, JobStep
  <2>18. Settled'
    BY <1>1, BuildingHead, RightKept, SettledAll
  <2> QED BY <1>3, <2>17, <2>18, Whole
<1> QED BY <1>2, <1>4, <1>5 DEF listdir

(* The task that clears the entries of what is gone. *)
LEMMA RemoveTask ==
    ASSUME NEW p \in Paths, NEW t, t = Task("remove", p, p, p, {}), Plain(p)'
    PROVE  t \in Tasks /\ t.op = "remove" /\ t.to = p /\ TaskOK(t)' /\ Owed(t) = Inside[p]
<1>1. p \in Seq(Nat) /\ {} \in AllModes /\ p \in Inside[p] /\ Inside[p] \subseteq Paths
  BY PathFacts, ModeFacts
<1>2. t \in Tasks /\ t.op = "remove" /\ t.to = p /\ t.top = p
  BY <1>1, TaskType
<1>3. TaskOK(t)'
  BY <1>1, <1>2 DEF TaskOK, Copying
<1>4. Owed(t) = Inside[p]
  BY <1>1, <1>2 DEF Owed
<1> QED BY <1>2, <1>3, <1>4

LEMMA RemoveTreeOK == ASSUME IInv, _remove_tree PROVE IInv'
<1>1. /\ job # <<>> /\ Head(job).op = "undo"
      /\ UNCHANGED <<cache, stored, clipboard, unsaved>>
  BY DEF _remove_tree
<1>2. /\ job[1] = Head(job) /\ job[1] \in Tasks /\ TaskOK(job[1]) /\ job[1].op = "undo"
  BY <1>1, Parts, HeadFacts
<1>3. PICK top \in Paths : top = job[1].top
  BY <1>2 DEF TaskOK
<1>4. \A p \in Paths \ suspect : Right(p)
  BY <1>1, <1>2, AllRight
<1>5. /\ ClipOK' /\ 2 \in 1 .. Len(job) + 1 /\ Tail(job) = SubSeq(job, 2, Len(job))
      /\ 1 \in 1 .. Len(job) + 1 /\ job = SubSeq(job, 1, Len(job)) /\ 2 > 1
  BY <1>1, Parts, TailFacts DEF ClipOK
<1>6. CASE \E p \in Inside[top] :
             /\ _exists(p) /\ Holds_nothing(p) /\ Copied(p, Absent, DEFAULT_FILE_MODE)
             /\ job' = <<Task("remove", p, p, p, {})>> \o job
             /\ UNCHANGED <<suspect, faults>>
  <2>1. PICK p \in Paths :
             /\ p \in Inside[top] /\ _exists(p) /\ Holds_nothing(p)
             /\ Put(p, Absent) /\ intent' = [intent EXCEPT ![p] = DEFAULT_FILE_MODE]
             /\ job' = <<Task("remove", p, p, p, {})>> \o job
    BY <1>6, PathFacts DEF Copied
  <2>2. Rooted'
    BY <2>1, Parts, PutRooted DEF Contents
  <2>3. IntentOK' /\ TableOK'
    <3>1. IntentOK'
      BY <2>1, Parts, ModeFacts DEF IntentOK
    <3>2. TableOK'
      BY <1>1, <1>6, Parts, TableKept
    <3> QED BY <3>1, <3>2
  <2>4. Free(p)'
    BY <2>1, Parts, PathFacts DEF Holds_nothing, Free, _exists, Put
  <2>5. PICK t : t = Task("remove", p, p, p, {})
    OBVIOUS
  <2>6. t \in Tasks /\ t.op = "remove" /\ TaskOK(t)' /\ Owed(t) = Inside[p]
    BY <2>4, <2>5, RemoveTask DEF Free, Plain
  <2>7. ASSUME NEW u \in Tasks, Rest(1, u) PROVE TaskOK(u)' /\ PairOK(t, u)'
    <3>1. TaskOK(u) /\ u.op \in Building \cup {"undo", "paste"}
      BY <1>1, <1>2, <1>5, <2>7, Waiting
    <3>2. PairOK(t, u)'
      BY <2>6, <3>1 DEF PairOK, Building, Copying
    <3>3. u = job[1] \/ Rest(2, u)
      <4>1. PICK n \in 1 .. Len(job) : u = job[n]
        BY <2>7 DEF Rest
      <4>2. n = 1 \/ n \in 2 .. Len(job)
        OBVIOUS
      <4> QED BY <4>1, <4>2 DEF Rest
    <3>4. CASE u = job[1]
      <4>1. u.op = "undo"
        BY <1>2, <3>4
      <4> QED BY <3>1, <3>2, <4>1, IdleTaskKept
    <3>5. CASE Rest(2, u)
      <4>1. PairOK(job[1], u)
        BY <1>1, <1>5, <3>5, Waiting
      <4>2. u.op = "paste" /\ (clipboard.mode = "copy" => Parent(u.to) = Parent(top))
        BY <1>2, <1>3, <4>1 DEF PairOK
      <4>3. CASE clipboard.mode # "copy"
        BY <1>1, <3>1, <3>2, <4>2, <4>3, IdleTaskKept
      <4>4. CASE clipboard.mode = "copy"
        <5>1. Parent(u.to) # p
          <6>1. top \in Seq(Nat) /\ top # <<>> /\ p \in Seq(Nat) /\ Within(p, top)
            BY <2>1, PathFacts
          <6>2. ~Within(Parent(top), top)
            BY <6>1, ParentFacts
          <6> QED BY <4>2, <4>4, <6>1, <6>2
        <5>2. u.op \notin Building
          BY <4>2 DEF Building, Copying
        <5>3. Rooted /\ UNCHANGED clipboard /\ Put(p, Absent)
          BY <1>1, <2>1, Parts
        <5> QED BY <3>1, <3>2, <5>1, <5>2, <5>3, TaskKeptPut
      <4> QED BY <4>3, <4>4
    <3> QED BY <3>2, <3>3, <3>4, <3>5
  <2>8. job' = <<t>> \o SubSeq(job, 1, Len(job))
    BY <1>5, <2>1, <2>5
  <2>9. job' \in Seq(Tasks) /\ JobOK' /\ job' # <<>> /\ Head(job') = t
    BY <1>1, <1>2, <1>5, <2>6, <2>7, <2>8, JobCons
  <2>10. ASSUME NEW q \in Paths \ suspect, q \notin Inside[p] PROVE Right(q)'
    <3>1. q # p
      BY <2>10, PathFacts
    <3>2. disk'[q] = disk[q] /\ intent'[q] = intent[q] /\ Right(q)
      BY <1>4, <2>1, <3>1, Parts DEF Put, IntentOK
    <3> QED BY <1>1, <1>6, <3>2, RightKept
  <2>11. Settled'
    BY <1>1, <1>6, <2>6, <2>9, <2>10, SettledHead
  <2> QED BY <1>5, <2>2, <2>3, <2>9, <2>11, Whole
<1>7. CASE /\ ~_exists(top)
           /\ job' = <<Task("remove", top, top, top, {})>> \o Tail(job)
           /\ UNCHANGED <<disk, intent, suspect, faults>>
  <2>1. Rooted' /\ IntentOK' /\ TableOK'
    BY <1>1, <1>7, Parts, DiskKept, TableKept
  <2>2. Free(top)'
    <3>1. Free(top)
      BY <1>7, Parts, FreeBelow
    <3> QED BY <1>7, <3>1 DEF Free, _exists
  <2>3. PICK t : t = Task("remove", top, top, top, {})
    OBVIOUS
  <2>4. t \in Tasks /\ t.op = "remove" /\ TaskOK(t)'
    BY <2>2, <2>3, RemoveTask DEF Free, Plain
  <2>5. ASSUME NEW u \in Tasks, Rest(2, u) PROVE TaskOK(u)' /\ PairOK(t, u)'
    <3>1. TaskOK(u) /\ u.op \in Building \cup {"undo", "paste"}
      BY <1>1, <1>5, <2>5, Waiting
    <3>2. PairOK(t, u)'
      BY <2>4, <3>1 DEF PairOK, Building, Copying
    <3> QED BY <1>1, <1>7, <3>1, <3>2, TaskKept
  <2>6. job' = <<t>> \o SubSeq(job, 2, Len(job))
    BY <1>5, <1>7, <2>3
  <2>7. job' \in Seq(Tasks) /\ JobOK'
    BY <1>1, <1>5, <2>4, <2>5, <2>6, JobCons
  <2>8. Settled'
    BY <1>1, <1>4, <1>7, RightKept, SettledAll
  <2> QED BY <1>5, <2>1, <2>7, <2>8, Whole
<1>8. CASE job' = Tail(job) /\ Fault /\ UNCHANGED <<disk, intent, suspect>>
  <2>1. Rooted' /\ IntentOK' /\ TableOK'
    BY <1>1, <1>8, Parts, DiskKept, TableKept
  <2>2. job' \in Seq(Tasks) /\ JobOK'
    BY <1>1, <1>8, PopOK
  <2>3. Settled'
    BY <1>1, <1>4, <1>8, RightKept, SettledAll
  <2> QED BY <1>5, <2>1, <2>2, <2>3, Whole
<1>9. CASE \E p \in Inside[top] :
             /\ _exists(p) /\ Fault
             /\ job' = <<Task("remove", p, p, p, {})>> \o Tail(job)
             /\ suspect' = suspect \cup Wrong(Inside[p], NoTable)
             /\ UNCHANGED <<disk, intent>>
  <2>1. PICK p \in Paths :
             /\ job' = <<Task("remove", p, p, p, {})>> \o Tail(job)
             /\ suspect' = suspect \cup Wrong(Inside[p], NoTable)
    BY <1>9, PathFacts
  <2>2. Inside[p] \subseteq Paths /\ suspect \subseteq suspect'
    BY <2>1, PathFacts
  <2>3. Rooted' /\ IntentOK'
    BY <1>1, <1>9, DiskKept
  <2>4. TableOK'
    <3>1. faults' \in 0 .. MaxFaults
      BY <1>9, Parts, FilesAssumption DEF Fault, TableOK
    <3>2. suspect' \subseteq Paths
      BY <2>1, <2>2, Parts DEF Wrong, TableOK
    <3> QED BY <1>1, <3>1, <3>2, Parts DEF TableOK, Saved
  <2>5. Plain(p)'
    <3> SUFFICES ASSUME NEW q \in Inside[p], q \notin suspect', disk'[q] # Absent
                 PROVE  intent'[q] = Default(disk'[q])
      BY DEF Plain, _exists
    <3>1. q \notin Wrong(Inside[p], NoTable) /\ NoTable[q] = None
      BY <2>1, <2>2 DEF NoTable
    <3> QED BY <1>9, <3>1 DEF Wrong, _exists
  <2>6. PICK t : t = Task("remove", p, p, p, {})
    OBVIOUS
  <2>7. t \in Tasks /\ t.op = "remove" /\ TaskOK(t)'
    BY <2>5, <2>6, RemoveTask
  <2>8. ASSUME NEW u \in Tasks, Rest(2, u) PROVE TaskOK(u)' /\ PairOK(t, u)'
    <3>1. TaskOK(u) /\ u.op \in Building \cup {"undo", "paste"}
      BY <1>1, <1>5, <2>8, Waiting
    <3>2. PairOK(t, u)'
      BY <2>7, <3>1 DEF PairOK, Building, Copying
    <3> QED BY <1>1, <1>9, <3>1, <3>2, TaskKept
  <2>9. job' = <<t>> \o SubSeq(job, 2, Len(job))
    BY <1>5, <2>1, <2>6
  <2>10. job' \in Seq(Tasks) /\ JobOK'
    BY <1>1, <1>5, <2>7, <2>8, <2>9, JobCons
  <2>11. Settled'
    BY <1>1, <1>4, <1>9, <2>2, RightKept, SettledAll
  <2> QED BY <1>5, <2>3, <2>4, <2>10, <2>11, Whole
<1> QED BY <1>2, <1>3, <1>6, <1>7, <1>8, <1>9 DEF _remove_tree

(* The target of a copy is not free, and os.stat() did not say so. *)
LEMMA PasteUnseenOK == ASSUME IInv, paste_unseen PROVE IInv'
<1> DEFINE src == Head(job).from
           over == ~Marked_dir(src) /\ Is_file(src) /\ Is_file(Head(job).to)
<1>1. /\ job # <<>> /\ Head(job).op = "paste" /\ clipboard.mode = "copy" /\ Fault
      /\ UNCHANGED <<cache, stored, clipboard, suspect, unsaved>>
      /\ Head(job).to \in Paths /\ _exists(Head(job).to)
  BY DEF paste_unseen
<1>2. job[1] \in Tasks /\ job[1] = Head(job) /\ job[1].op = "paste" /\ src \in Paths
  BY <1>1, Parts, HeadFacts, TaskFields
<1>3. PICK d \in Paths : d = Head(job).to /\ _exists(d)
  BY <1>1
<1>4. \A p \in Paths \ suspect : Right(p)
  BY <1>1, <1>2, AllRight
<1>5. TableOK' /\ ClipOK'
  BY <1>1, Parts, TableKept DEF ClipOK
<1>6. 2 \in 1 .. Len(job) + 1 /\ Tail(job) = SubSeq(job, 2, Len(job)) /\ 2 > 1
  BY <1>1, TailFacts
<1>7. ASSUME NEW u \in Tasks, Rest(2, u)
      PROVE  TaskOK(u) /\ u.op = "paste" /\ Parent(u.to) = Parent(d) /\ u.op \notin Building
  <2>1. TaskOK(u) /\ PairOK(job[1], u) /\ TaskOK(job[1])
    BY <1>1, <1>2, <1>7, TailFacts, Waiting, Parts, HeadFacts
  <2>2. job[1].top = d
    BY <1>2, <1>3, <2>1 DEF TaskOK
  <2> QED BY <1>1, <1>2, <2>1, <2>2 DEF PairOK, Building, Copying
<1>8. d \in Seq(Nat) /\ d # <<>> /\ d \in Inside[d] /\ Parent(d) # d
  BY PathFacts, ParentFacts
<1>9. ASSUME NEW what \in Contents \ {Absent, Folder}, Put(d, what), Is_file(d)
      PROVE  /\ Rooted' /\ disk'[d] = what
             /\ \A u \in Tasks : Rest(2, u) => TaskOK(u)'
  <2>1. Has_parent(d) /\ Holds_nothing(d)
    BY <1>3, Parts, FileHoldsNothing, <1>9 DEF Is_file, Rooted
  <2>2. Rooted' /\ disk'[d] = what
    BY <1>9, <2>1, Parts, PutRooted DEF Put
  <2>3. ASSUME NEW u \in Tasks, Rest(2, u) PROVE TaskOK(u)'
    <3>1. Rooted /\ UNCHANGED clipboard /\ Parent(u.to) # d
      BY <1>1, <1>7, <1>8, <2>3, Parts
    <3> QED BY <1>7, <1>9, <2>3, <3>1, TaskKeptPut
  <2> QED BY <2>2, <2>3
<1>10. ASSUME NEW t, t = Task("undo", d, d, d, {}), job' = <<t>> \o Tail(job),
              \A u \in Tasks : Rest(2, u) => TaskOK(u)'
       PROVE  job' \in Seq(Tasks) /\ JobOK'
  <2>1. t \in Tasks /\ t.op = "undo" /\ t.to = d /\ t.top = d
    BY <1>8, <1>10, TaskType, ModeFacts
  <2>2. TaskOK(t)'
    BY <1>8, <2>1 DEF TaskOK, Copying
  <2>3. \A u \in Tasks : Rest(2, u) => PairOK(t, u)'
    BY <1>7, <2>1 DEF PairOK, Building, Copying
  <2>4. job' = <<t>> \o SubSeq(job, 2, Len(job))
    BY <1>6, <1>10
  <2> QED BY <1>1, <1>6, <1>10, <2>1, <2>2, <2>3, <2>4, JobCons
<1>11. CASE over /\ Copied(d, disk[src], get_mode(src))
            /\ job' = <<Task("chmod", d, d, d, get_mode(src))>> \o Tail(job)
  <2>1. PICK what \in Contents \ {Absent, Folder} : what = disk[src]
    BY <1>2, <1>11, Parts DEF Is_file, _exists, _is_dir
  <2>2. PICK m \in AllModes : m = get_mode(src)
    BY <1>2, Parts, GetModeType
  <2>3. Put(d, what) /\ intent' = [intent EXCEPT ![d] = m] /\ Is_file(d)
    BY <1>3, <1>11, <2>1, <2>2 DEF Copied
  <2>4. Rooted' /\ disk'[d] = what /\ \A u \in Tasks : Rest(2, u) => TaskOK(u)'
    BY <1>9, <2>3
  <2>5. IntentOK' /\ intent'[d] = m
    BY <2>3, Parts DEF IntentOK
  <2>6. PICK t : t = Task("chmod", d, d, d, m)
    OBVIOUS
  <2>7. t \in Tasks /\ t.op = "chmod" /\ t.to = d /\ t.top = d /\ t.mode = m
    BY <1>8, <2>6, TaskType
  <2>8. TaskOK(t)' /\ Owed(t) = {d}
    BY <1>8, <2>4, <2>5, <2>7 DEF TaskOK, Copying, _exists, Owed
  <2>9. \A u \in Tasks : Rest(2, u) => PairOK(t, u)'
    BY <1>7, <2>7 DEF PairOK, Building, Copying
  <2>10. job' = <<t>> \o SubSeq(job, 2, Len(job))
    BY <1>6, <1>11, <2>2, <2>6
  <2>11. job' \in Seq(Tasks) /\ JobOK' /\ job' # <<>> /\ Head(job') = t
    BY <1>1, <1>6, <2>4, <2>7, <2>8, <2>9, <2>10, JobCons
  <2>12. ASSUME NEW q \in Paths \ suspect, q # d PROVE Right(q)'
    <3>1. disk'[q] = disk[q] /\ intent'[q] = intent[q]
      BY <2>3, <2>12, Parts DEF Put, IntentOK
    <3> QED BY <1>1, <1>4, <2>12, <3>1, RightKept
  <2>13. Settled'
    BY <1>1, <2>8, <2>11, <2>12, SettledHead
  <2> QED BY <1>5, <2>4, <2>5, <2>11, <2>13, Whole
<1>12. CASE over /\ Put(d, Torn) /\ UNCHANGED intent
            /\ job' = <<Task("undo", d, d, d, {})>> \o Tail(job)
  <2>1. Torn \in Contents \ {Absent, Folder} /\ Is_file(d)
    BY <1>3, <1>12 DEF Contents
  <2>2. Rooted' /\ disk'[d] = Torn /\ \A u \in Tasks : Rest(2, u) => TaskOK(u)'
    BY <1>9, <1>12, <2>1
  <2>3. IntentOK'
    BY <1>12, Parts DEF IntentOK
  <2>4. job' \in Seq(Tasks) /\ JobOK'
    BY <1>10, <1>12, <2>2
  <2>5. ASSUME NEW q \in Paths \ suspect PROVE Right(q)'
    <3>1. CASE q = d
      <4>1. Default(disk[d]) = Default(disk'[d])
        BY <2>1, <2>2 DEF Default, Is_file, _is_dir
      <4> QED BY <1>1, <1>3, <1>4, <1>12, <2>2, <2>5, <3>1, <4>1 DEF Right, _exists, get_mode
    <3>2. CASE q # d
      <4>1. disk'[q] = disk[q] /\ intent'[q] = intent[q]
        BY <1>12, <3>2, Parts DEF Put
      <4> QED BY <1>1, <1>4, <2>5, <4>1, RightKept
    <3> QED BY <3>1, <3>2
  <2>6. Settled'
    BY <1>1, <2>5, SettledAll
  <2> QED BY <1>5, <2>2, <2>3, <2>4, <2>6, Whole
<1>13. CASE /\ UNCHANGED <<disk, intent>>
            /\ job' = <<Task("undo", d, d, d, {})>> \o Tail(job)
  <2>1. \A u \in Tasks : Rest(2, u) => TaskOK(u)'
    BY <1>1, <1>7, <1>13, TaskKept
  <2>2. job' \in Seq(Tasks) /\ JobOK'
    BY <1>10, <1>13, <2>1
  <2>3. Rooted' /\ IntentOK'
    BY <1>1, <1>13, DiskKept
  <2>4. Settled'
    BY <1>1, <1>4, <1>13, RightKept, SettledAll
  <2> QED BY <1>5, <2>2, <2>3, <2>4, Whole
<1> QED BY <1>3, <1>11, <1>12, <1>13 DEF paste_unseen

-----------------------------------------------------------------------------
(* The table is brought up to date. *)

LEMMA ChmodRight ==
    ASSUME IInv, NEW p \in Paths, NEW m \in AllModes, perm_chmod(p, m), UNCHANGED <<disk, intent>>,
           _exists(p), m = intent[p], \A q \in Paths \ suspect : q # p => Right(q)
    PROVE  \A q \in Paths : q \notin suspect' => Right(q)'
<1> SUFFICES ASSUME NEW q \in Paths, q \notin suspect' PROVE Right(q)'
  OBVIOUS
<1>1. cache \in Tables
  BY Parts DEF TableOK
<1>2. CASE q = p
  <2>1. cache'[p] = m /\ m # None
    BY <1>1, ModeFacts DEF perm_chmod, Tables
  <2> QED BY <1>2, <2>1 DEF Right, _exists, get_mode
<1>3. CASE q # p
  <2>1. q \notin suspect /\ cache'[q] = cache[q]
    BY <1>1, <1>3 DEF perm_chmod, Tables
  <2>2. Right(q)
    BY <1>3, <2>1
  <2> QED BY <2>1, <2>2, RightKept
<1> QED BY <1>2, <1>3

LEMMA RemoveRight ==
    ASSUME IInv, NEW p \in Paths, perm_remove(p), UNCHANGED <<disk, intent>>,
           Plain(p), \A q \in Paths \ suspect : q \notin Inside[p] => Right(q)
    PROVE  \A q \in Paths : q \notin suspect' => Right(q)'
<1> SUFFICES ASSUME NEW q \in Paths, q \notin suspect' PROVE Right(q)'
  OBVIOUS
<1>1. CASE q \in Inside[p]
  <2>1. cache'[q] = None
    BY <1>1 DEF perm_remove
  <2>2. CASE ~_exists(q)
    BY <2>1, <2>2 DEF Right, _exists
  <2>3. CASE _exists(q)
    <3>1. q \notin suspect
      BY <2>3 DEF perm_remove
    <3>2. intent[q] = Default(disk[q])
      BY <1>1, <2>3, <3>1 DEF Plain
    <3> QED BY <2>1, <2>3, <3>2 DEF Right, _exists, get_mode
  <2> QED BY <2>2, <2>3
<1>2. CASE q \notin Inside[p]
  <2>1. q \notin suspect /\ cache'[q] = cache[q]
    BY <1>2 DEF perm_remove
  <2>2. Right(q)
    BY <1>2, <2>1
  <2> QED BY <2>1, <2>2, RightKept
<1> QED BY <1>1, <1>2

LEMMA MoveRight ==
    ASSUME IInv, NEW old \in Paths, NEW new \in Paths, perm_move(old, new),
           UNCHANGED <<disk, intent>>, Renaming(old, new),
           \A q \in Paths \ suspect : q \notin Inside[old] \cup Inside[new] => Right(q)
    PROVE  \A q \in Paths : q \notin suspect' => Right(q)'
<1> SUFFICES ASSUME NEW q \in Paths, q \notin suspect' PROVE Right(q)'
  OBVIOUS
<1> DEFINE s == Rebase(q, new, old)
<1>1. /\ cache'[q] = IF q \in Inside[new] /\ s \in Paths /\ cache[s] # None THEN cache[s]
                     ELSE IF q \in Inside[old] THEN None ELSE cache[q]
      /\ suspect' = (suspect \ Inside[old])
                       \cup {r \in Paths : r \in Inside[new] /\ Rebase(r, new, old) \in Paths
                                          /\ Rebase(r, new, old) \in suspect}
  BY DEF perm_move
<1>2. CASE q \in Inside[old]
  <2>1. q \notin Inside[new] /\ disk'[q] = Absent
    BY <1>2 DEF Renaming, Free, _exists
  <2>2. cache'[q] = None
    BY <1>1, <1>2, <2>1
  <2> QED BY <2>1, <2>2 DEF Right, _exists
<1>3. CASE q \in Inside[new]
  <2>1. q \notin Inside[old]
    BY <1>3 DEF Renaming
  <2>2. q \notin suspect /\ (s \in Paths => s \notin suspect)
    BY <1>1, <1>3, <2>1
  <2>3. cache[q] = None
    BY <1>3, <2>2 DEF Renaming
  <2>4. CASE s \notin Paths
    <3>1. disk'[q] = Absent
      BY <1>3, <2>4 DEF Renaming, _exists
    <3>2. cache'[q] = None
      BY <1>1, <2>1, <2>3, <2>4
    <3> QED BY <3>1, <3>2 DEF Right, _exists
  <2>5. CASE s \in Paths
    <3>1. IF disk[q] # Absent
          THEN intent[q] = IF cache[s] # None THEN cache[s] ELSE Default(disk[q])
          ELSE cache[s] = None
      BY <1>3, <2>2, <2>5 DEF Renaming, _exists
    <3>2. cache'[q] = cache[s]
      BY <1>1, <1>3, <2>1, <2>3, <2>5
    <3> HIDE DEF s
    <3> QED BY <3>1, <3>2 DEF Right, _exists, get_mode
  <2> QED BY <2>4, <2>5
<1>4. CASE q \notin Inside[old] \cup Inside[new]
  <2>1. q \notin suspect /\ cache'[q] = cache[q]
    BY <1>1, <1>4
  <2>2. Right(q)
    BY <1>4, <2>1
  <2> QED BY <2>1, <2>2, RightKept
<1> QED BY <1>2, <1>3, <1>4

LEMMA TableStepOK == ASSUME IInv, table PROVE IInv'
<1>1. job # <<>> /\ job' = Tail(job) /\ UNCHANGED <<disk, clipboard, intent>>
  BY DEF table
<1>2. job[1] \in Tasks /\ job[1] = Head(job) /\ TaskOK(job[1])
  BY <1>1, Parts, HeadFacts
<1>3. PICK t \in Tasks : t = job[1] /\ TaskOK(t)
  BY <1>2
<1>4. job' \in Seq(Tasks) /\ JobOK' /\ Rooted' /\ IntentOK' /\ ClipOK'
  BY <1>1, PopOK, DiskKept
<1>5. \A q \in Paths \ suspect : q \notin Owed(t) => Right(q)
  BY <1>1, <1>2, <1>3, Parts DEF Settled
<1>6. TypeOK /\ Saved
  BY Parts
<1>7. CASE t.op = "chmod" /\ perm_chmod(t.to, t.mode)
  <2>1. PICK p \in Paths : p = t.to
    BY <1>3, <1>7, PathFacts DEF TaskOK
  <2>2. PICK m \in AllModes : m = t.mode
    BY TaskFields
  <2>3. Owed(t) = {p} /\ _exists(p) /\ m = intent[p] /\ perm_chmod(p, m)
    BY <1>3, <1>7, <2>1, <2>2 DEF Owed, TaskOK
  <2>4. TableOK' /\ Settled'
    BY <1>1, <1>5, <1>6, <2>3, ChmodTable, ChmodRight, SettledAll
  <2> QED BY <1>4, <2>4, Whole
<1>8. CASE t.op = "remove" /\ perm_remove(t.to)
  <2>1. PICK p \in Paths : p = t.to
    BY <1>3, <1>8, PathFacts DEF TaskOK
  <2>2. Owed(t) = Inside[p] /\ Plain(p) /\ perm_remove(p)
    BY <1>3, <1>8, <2>1, PathFacts DEF Owed, TaskOK
  <2>3. TableOK' /\ Settled'
    BY <1>1, <1>5, <1>6, <2>2, RemoveTable, RemoveRight, SettledAll
  <2> QED BY <1>4, <2>3, Whole
<1>9. CASE t.op = "move" /\ perm_move(t.from, t.to)
  <2>1. PICK p \in Paths : p = t.from
    BY TaskFields
  <2>2. PICK q \in Paths : q = t.to
    BY <1>3, <1>9, PathFacts DEF TaskOK
  <2>3. Owed(t) = Inside[p] \cup Inside[q] /\ Renaming(p, q) /\ perm_move(p, q)
    BY <1>3, <1>9, <2>1, <2>2, PathFacts DEF Owed, TaskOK
  <2>4. TableOK' /\ Settled'
    BY <1>1, <1>5, <1>6, <2>3, MoveTable, MoveRight, SettledAll
  <2> QED BY <1>4, <2>4, Whole
<1>10. CASE /\ t.op = "chmod" /\ Fault
            /\ suspect' = suspect \cup Wrong({t.to}, cache)
            /\ UNCHANGED <<cache, stored, unsaved>>
  <2>1. PICK p \in Paths : p = t.to
    BY <1>3, <1>10, PathFacts DEF TaskOK
  <2>2. Owed(t) = {p}
    BY <1>10, <2>1 DEF Owed
  <2>3. TableOK'
    <3>1. faults' \in 0 .. MaxFaults
      BY <1>10, Parts, FilesAssumption DEF Fault, TableOK
    <3> QED BY <1>10, <2>1, <3>1, Parts DEF TableOK, Saved, Wrong
  <2>4. ASSUME NEW q \in Paths, q \notin suspect' PROVE Right(q)'
    <3>1. q \notin suspect /\ q \notin Wrong({p}, cache)
      BY <1>10, <2>1, <2>4
    <3>2. Right(q)
      <4>1. CASE q = p
        BY <3>1, <4>1 DEF Wrong, Right, get_mode
      <4>2. CASE q # p
        BY <1>5, <2>2, <3>1, <4>2
      <4> QED BY <4>1, <4>2
    <3> QED BY <1>1, <1>10, <3>2, RightKept
  <2>5. Settled'
    BY <2>4, SettledAll
  <2> QED BY <1>4, <2>3, <2>5, Whole
<1> QED BY <1>2, <1>3, <1>7, <1>8, <1>9, <1>10 DEF table

-----------------------------------------------------------------------------
(* What is owed when the operation is left is in hand: the names that are
   wrong then become suspect. *)
LEMMA OwedInHand ==
    ASSUME IInv, NEW p \in Paths \ suspect, p \notin InHand
    PROVE  Right(p)
<1>1. CASE job = <<>>
  BY <1>1, Parts DEF Settled
<1>2. CASE job # <<>>
  <2>1. /\ job[1] \in Tasks /\ job[1] = Head(job) /\ TaskOK(job[1]) /\ 1 \in DOMAIN job
    BY <1>2, Parts, HeadFacts
  <2>2. PICK t \in Tasks : t = job[1] /\ TaskOK(t)
    BY <2>1
  <2>3. CASE t.op = "paste"
    <3>1. Owed(t) = {}
      BY <2>3, NothingOwed
    <3> QED BY <1>2, <2>1, <2>2, <3>1, Parts DEF Settled
  <2>4. CASE t.op # "paste"
    <3>1. p \notin Inside[t.from] \cup Inside[t.top]
      BY <2>1, <2>2, <2>4 DEF InHand
    <3>2. t.top \in Paths /\ t.to \in Inside[t.top] /\ t.to \in Paths /\ t.from \in Paths
      BY <2>2, <2>4, PathFacts, TaskFields DEF TaskOK
    <3>3. \A q \in Inside[t.to] : q \in Inside[t.top]
      <4> SUFFICES ASSUME NEW q \in Inside[t.to] PROVE q \in Inside[t.top]
        OBVIOUS
      <4>1. q \in Paths /\ q \in Seq(Nat) /\ t.to \in Seq(Nat) /\ t.top \in Seq(Nat)
            /\ Within(q, t.to) /\ Within(t.to, t.top)
        BY <3>2, PathFacts
      <4> QED BY <3>2, <4>1, WithinTrans, PathFacts
    <3>4. p \notin Owed(t)
      BY <3>1, <3>2, <3>3 DEF Owed
    <3> QED BY <1>2, <2>1, <2>2, <3>4, Parts DEF Settled
  <2> QED BY <2>3, <2>4
<1> QED BY <1>1, <1>2

LEMMA InterruptOK == ASSUME IInv, interrupt PROVE IInv'
<1> USE DEF interrupt
<1>1. Rooted' /\ IntentOK'
  BY Parts DEF Rooted, IntentOK, _exists, Has_parent, Folders, _is_dir
<1>2. ClipOK'
  BY DEF NoClipboard, ClipOK
<1>3. TableOK'
  <2>1. faults' \in 0 .. MaxFaults
    BY Parts, FilesAssumption DEF Fault, TableOK
  <2>2. InHand \subseteq Paths
    <3>1. \A n \in DOMAIN job : job[n].op # "paste" => Inside[job[n].from] \cup Inside[job[n].top] \subseteq Paths
      <4> SUFFICES ASSUME NEW n \in DOMAIN job, job[n].op # "paste"
                   PROVE  Inside[job[n].from] \cup Inside[job[n].top] \subseteq Paths
        OBVIOUS
      <4>1. job[n] \in Tasks /\ TaskOK(job[n])
        BY Parts DEF JobOK
      <4>2. job[n].from \in Paths /\ job[n].top \in Paths
        BY <4>1, TaskFields DEF TaskOK
      <4> QED BY <4>2, PathFacts
    <3> QED BY <3>1 DEF InHand
  <2>3. suspect' \subseteq Paths
    BY <2>2, Parts DEF Wrong, TableOK
  <2> QED BY <2>1, <2>3, Parts DEF TableOK, Saved
<1>4. ASSUME NEW p \in Paths, p \notin suspect' PROVE Right(p)'
  <2>1. p \notin suspect /\ p \notin Wrong(InHand, cache)
    BY <1>4
  <2>2. Right(p)
    <3>1. CASE p \in InHand
      BY <2>1, <3>1 DEF Wrong, Right, get_mode
    <3>2. CASE p \notin InHand
      BY <2>1, <3>2, OwedInHand
    <3> QED BY <3>1, <3>2
  <2> QED BY <2>2, RightKept
<1>5. Settled'
  BY <1>4, SettledAll
<1> QED BY <1>1, <1>2, <1>3, <1>5, Whole, NoTasks

LEMMA RestartOK == ASSUME IInv, restart PROVE IInv'
<1> USE DEF restart
<1> DEFINE ps == InHand \cup {p \in Paths : cache'[p] # cache[p]}
<1>1. Rooted' /\ IntentOK'
  BY Parts DEF Rooted, IntentOK, _exists, Has_parent, Folders, _is_dir
<1>2. ClipOK'
  BY DEF NoClipboard, ClipOK
<1>3. InHand \subseteq Paths
  <2>1. \A n \in DOMAIN job : job[n].op # "paste" => Inside[job[n].from] \cup Inside[job[n].top] \subseteq Paths
    <3> SUFFICES ASSUME NEW n \in DOMAIN job, job[n].op # "paste"
                 PROVE  Inside[job[n].from] \cup Inside[job[n].top] \subseteq Paths
      OBVIOUS
    <3>1. job[n] \in Tasks /\ TaskOK(job[n])
      BY Parts DEF JobOK
    <3>2. job[n].from \in Paths /\ job[n].top \in Paths
      BY <3>1, TaskFields DEF TaskOK
    <3> QED BY <3>2, PathFacts
  <2> QED BY <2>1 DEF InHand
<1>4. TableOK'
  <2>1. faults' \in 0 .. MaxFaults
    BY Parts, FilesAssumption DEF Fault, TableOK
  <2>2. suspect' \subseteq Paths
    BY <1>3, Parts DEF Wrong, TableOK
  <2>3. cache' \in Tables
    <3>1. stored \in Tables
      BY Parts DEF TableOK
    <3>2. \A p \in Paths : Read_before(p) \in Tables
      BY <3>1 DEF Read_before, Tables
    <3> QED BY <3>1, <3>2
  <2> QED BY <2>1, <2>2, <2>3, Parts DEF TableOK, Saved
<1>5. ASSUME NEW p \in Paths, p \notin suspect' PROVE Right(p)'
  <2>1. p \notin suspect /\ p \notin Wrong(ps, cache')
    BY <1>5
  <2>2. CASE p \in ps
    BY <2>1, <2>2 DEF Wrong, Right, get_mode, _exists
  <2>3. CASE p \notin ps
    <3>1. Right(p) /\ cache'[p] = cache[p]
      BY <2>1, <2>3, OwedInHand
    <3> QED BY <3>1, RightKept
  <2> QED BY <2>2, <2>3
<1>6. Settled'
  BY <1>5, SettledAll
<1> QED BY <1>1, <1>2, <1>4, <1>6, Whole, NoTasks

-----------------------------------------------------------------------------
LEMMA StepOK == IInv /\ [Next]_vars => IInv'
<1> SUFFICES ASSUME IInv, [Next]_vars PROVE IInv'
  OBVIOUS
<1>1. CASE UNCHANGED vars
  <2>1. UNCHANGED <<disk, cache, stored, job, clipboard, intent, suspect, unsaved, faults>>
    BY <1>1 DEF vars, history
  <2>2. TypeOK'
    BY <2>1, Parts DEF TypeOK, _exists, Has_parent, Folders, _is_dir
  <2>3. JobOK'
    <3>1. ASSUME NEW n \in DOMAIN job PROVE TaskOK(job[n])'
      BY <2>1, Parts DEF JobOK, TaskOK, Has_parent, Folders, Free, Holds_nothing, _is_dir, _exists, Renaming, Plain
    <3>2. ASSUME NEW m \in DOMAIN job, NEW n \in DOMAIN job, m < n PROVE PairOK(job[m], job[n])'
      BY <2>1, <3>2, Parts DEF JobOK, PairOK
    <3> QED BY <2>1, <3>1, <3>2 DEF JobOK
  <2>4. Settled' /\ Saved'
    <3>1. Owed(Head(job))' = Owed(Head(job))
      BY <2>1 DEF Owed
    <3> QED BY <2>1, <3>1, Parts, RightKept DEF Settled, Saved
  <2> QED BY <2>2, <2>3, <2>4 DEF IInv
<1>2. ASSUME NEW p \in Paths,
             \/ \E what \in {Empty, Folder} : create(p, what)
             \/ \E t \in Texts : save_file(p, t)
             \/ save_interrupted(p)
             \/ \E q \in Paths : cp(p, q) \/ cp_unseen(p, q) \/ mv(p, q)
             \/ \E m \in Modes : chmod(p, m)
             \/ delete(p) \/ script(p)
      PROVE  IInv'
  BY <1>2, CreateOK, SaveFileOK, SaveInterruptedOK, CpOK, CpUnseenOK, MvOK, ChmodOK, DeleteOK, ScriptOK
<1>3. CASE \E marked \in Selections, mode \in {"copy", "cut"} : set_clipboard(mode, marked)
  BY <1>3, SetClipboardOK
<1>4. CASE clear_clipboard
  BY <1>4, ClearClipboardOK
<1>5. CASE \E folder \in Paths \cup {<<>>} : paste_clipboard(folder)
  BY <1>5, PasteClipboardOK
<1>6. CASE paste \/ paste_unseen \/ _copy_file \/ _copy_tree \/ listdir \/ _remove_tree
  BY <1>6, PasteOK, PasteUnseenOK, CopyFileOK, CopyTreeOK, ListdirOK, RemoveTreeOK
<1>7. CASE table \/ interrupt \/ restart
  BY <1>7, TableStepOK, InterruptOK, RestartOK
<1> QED BY <1>1, <1>2, <1>3, <1>4, <1>5, <1>6, <1>7 DEF Next

(* The invariant holds in every state of every behaviour. *)
THEOREM Invariance == Spec => []IInv
BY InitOK, StepOK, PTL DEF Spec

(* Whatever the tools, the scripts and the faults do, the storage stays a
   tree, and the tables, the clipboard and the tasks keep their types. *)
THEOREM TypeCorrect == Spec => []TypeOK
<1>1. IInv => TypeOK
  BY DEF IInv
<1> QED BY <1>1, Invariance, PTL

(* The mode that get_mode() answers, for whatever was renamed, moved, copied
   or created again, is the one the user gave: for any tree of paths, any
   clipboard and any number of faults, outside the names they made suspect. *)
THEOREM ModeCorrect == Spec => []ModeFollows
<1>1. IInv => ModeFollows
  BY DEF IInv, ModeFollows, Settled, Right, Idle
<1> QED BY <1>1, Invariance, PTL

(* A reset changes no mode unless the last _save(), or the _load() after the
   last reset, failed: pyperm never leaves a change of the table in memory
   alone. *)
THEOREM PersistentCorrect == Spec => []Persistent
<1>1. IInv => Persistent
  BY DEF IInv, Persistent, Saved
<1> QED BY <1>1, Invariance, PTL

-----------------------------------------------------------------------------
(* Protected files *)

(* The paths of the operation in hand that are not its source. *)
LEMMA HeadMade ==
    ASSUME IInv, job # <<>>, Head(job).op # "paste"
    PROVE  Inside[Head(job).top] \subseteq Made
<1>1. 1 \in DOMAIN job /\ Head(job) = job[1]
  BY Parts, HeadFacts
<1> QED BY <1>1 DEF Made

(* A protected file that a step may touch is refused the write access. *)
LEMMA ProtectedMode ==
    ASSUME IInv, NEW p \in Paths \ suspect, _exists(p), "w" \notin intent[p],
           job = <<>> \/ Head(job).op = "paste"
    PROVE  ~writable(p)
<1>1. Right(p)
  <2>1. CASE job = <<>>
    BY <2>1, Parts DEF Settled
  <2>2. CASE job # <<>> /\ Head(job).op = "paste"
    BY <2>2, AllRight, Parts, HeadFacts
  <2> QED BY <2>1, <2>2
<1> QED BY <1>1 DEF Right, writable

(* A rename of p takes what is in p along and touches nothing else. *)
LEMMA RenameProtects ==
    ASSUME IInv, NEW p \in Paths, NEW q \in Paths, Rename(p, q), NEW r \in Paths, _exists(r), ~writable(r)
    PROVE  disk'[r] = disk[r] \/ (Within(r, p) /\ r # p /\ disk' = Renamed(disk, p, q, Absent))
<1>1. Can_rename(p, q) /\ writable(p) /\ disk' = Renamed(disk, p, q, Absent)
  BY DEF Rename
<1>2. r \notin Inside[q]
  BY <1>1, Parts, FreeBelow DEF Can_rename, Free
<1>3. r # p
  BY <1>1
<1>4. CASE r \in Inside[p]
  BY <1>1, <1>3, <1>4, PathFacts
<1>5. CASE r \notin Inside[p]
  BY <1>1, <1>2, <1>5, Parts, RenameRooted
<1> QED BY <1>4, <1>5

(* An operation makes nothing at p: its new tasks are elsewhere, and the old
   ones that are left were. *)
LEMMA MadeJoin ==
    ASSUME NEW S, job \in Seq(S), NEW pre \in Seq(S), NEW k \in 1 .. Len(job) + 1,
           job' = pre \o SubSeq(job, k, Len(job)), NEW p, p \notin Made,
           \A i \in DOMAIN pre : pre[i].op # "paste" => p \notin Inside[pre[i].top]
    PROVE  p \notin Made'
<1> DEFINE s == SubSeq(job, k, Len(job))
           a == Len(pre)
<1>1. Len(job) \in Nat /\ a \in Nat /\ k \in Nat \ {0} /\ DOMAIN pre = 1 .. a /\ DOMAIN job = 1 .. Len(job)
  OBVIOUS
<1>2. /\ s \in Seq(S)
      /\ Len(s) = IF k <= Len(job) THEN Len(job) - k + 1 ELSE 0
      /\ \A i \in 1 .. Len(job) - k + 1 : s[i] = job[k + i - 1]
  <2>1. \A i \in k .. Len(job) : job[i] \in S
    BY <1>1
  <2> QED BY <1>1, <2>1, SubSeqProperties
<1> HIDE DEF s
<1>3. Len(s) = Len(job) - k + 1 /\ Len(s) \in Nat
  BY <1>1, <1>2
<1>4. /\ pre \o s \in Seq(S) /\ Len(pre \o s) = a + Len(s)
      /\ \A i \in 1 .. a + Len(s) : (pre \o s)[i] = IF i <= a THEN pre[i] ELSE s[i - a]
  BY <1>2, ConcatProperties
<1>5. job' = pre \o s
  BY DEF s
<1>6. DOMAIN job' = 1 .. a + Len(s)
  BY <1>3, <1>4, <1>5
<1>7. ASSUME NEW n \in DOMAIN job', job'[n].op # "paste" PROVE p \notin Inside[job'[n].top]
  <2>1. CASE n <= a
    <3>1. n \in DOMAIN pre /\ job'[n] = pre[n]
      BY <1>1, <1>3, <1>4, <1>5, <1>6, <2>1
    <3> QED BY <1>7, <3>1
  <2>2. CASE n > a
    <3>1. n - a \in 1 .. Len(job) - k + 1 /\ n \in 1 .. a + Len(s) /\ ~(n <= a)
      BY <1>1, <1>3, <1>6, <2>2
    <3>2. job'[n] = job[k + (n - a) - 1]
      BY <1>2, <1>4, <1>5, <3>1
    <3>3. k + (n - a) - 1 \in DOMAIN job
      BY <1>1, <3>1
    <3> QED BY <1>7, <3>2, <3>3 DEF Made
  <2>3. n <= a \/ n > a
    BY <1>1, <1>3, <1>6
  <2> QED BY <2>1, <2>2, <2>3
<1> QED BY <1>7 DEF Made

LEMMA MadeCons ==
    ASSUME IInv, job # <<>>, NEW t, NEW k \in 1 .. Len(job) + 1,
           job' = <<t>> \o SubSeq(job, k, Len(job)), NEW p, p \notin Made, p \notin Inside[t.top]
    PROVE  p \notin Made'
<1> DEFINE S == Tasks \cup {t}
           pre == <<t>>
<1>1. job \in Seq(S) /\ pre \in Seq(S)
  BY Parts
<1>2. DOMAIN pre = {1} /\ pre[1] = t
  OBVIOUS
<1>3. job' = pre \o SubSeq(job, k, Len(job))
  OBVIOUS
<1> HIDE DEF pre, S
<1> QED BY <1>1, <1>2, <1>3, MadeJoin

LEMMA MadeTail ==
    ASSUME IInv, job # <<>>, job' = Tail(job), NEW p, p \notin Made
    PROVE  p \notin Made'
<1> DEFINE pre == <<>>
<1>1. job \in Seq(Tasks) /\ pre \in Seq(Tasks) /\ DOMAIN pre = {}
  BY Parts
<1>2. job' = pre \o SubSeq(job, 2, Len(job)) /\ 2 \in 1 .. Len(job) + 1
  BY TailFacts
<1> HIDE DEF pre
<1> QED BY <1>1, <1>2, MadeJoin

(* One task, and nothing before it. *)
LEMMA MadeOne ==
    ASSUME NEW t, job' = <<t>>, NEW p, p \notin Inside[t.top]
    PROVE  p \notin Made'
<1>1. DOMAIN job' = {1} /\ job'[1] = t
  OBVIOUS
<1> QED BY <1>1 DEF Made

LEMMA MadeCopyFails ==
    ASSUME IInv, job # <<>>, Head(job).op # "paste", Copy_fails(Head(job).top), NEW p, p \notin Made
    PROVE  p \notin Made'
<1> DEFINE top == Head(job).top
           t == Task("undo", top, top, top, {})
<1>1. PICK k \in DOMAIN job : job' = <<t>> \o SubSeq(job, k + 1, Len(job))
  BY DEF Copy_fails
<1>2. k + 1 \in 1 .. Len(job) + 1
  BY Parts, HeadFacts
<1>3. t.top = top
  BY DEF Task
<1>4. p \notin Inside[t.top]
  BY <1>3, HeadMade
<1> HIDE DEF t, top
<1> QED BY <1>1, <1>2, <1>4, MadeCons

(* No operation begins to make, or to take back, something where there is a
   protected file. *)
LEMMA ProtectedUnmade ==
    ASSUME IInv, Next, NEW p \in Paths, p \notin suspect \cup Made, Is_file(p), "w" \notin intent[p]
    PROVE  p \notin Made' \/ paste_unseen
<1> SUFFICES ASSUME ~paste_unseen PROVE p \notin Made'
  OBVIOUS
<1>1. _exists(p)
  BY DEF Is_file
<1>2. ASSUME UNCHANGED job PROVE p \notin Made'
  BY <1>2 DEF Made
<1>3. ASSUME job' = <<>> PROVE p \notin Made'
  BY <1>3 DEF Made
<1>4. ASSUME NEW q \in Paths, ~_exists(q) PROVE p \notin Inside[q]
  BY <1>1, <1>4, Parts, FreeBelow DEF Free
<1>5. ASSUME NEW q \in Paths, delete(q) PROVE p \notin Made'
  <2> DEFINE t == Task("remove", q, q, q, {})
  <2>2. p # q
    BY <1>1, <1>5, ProtectedMode DEF delete, Idle
  <2>3. p \notin Inside[q]
    BY <1>1, <1>5, <2>2 DEF delete, Holds_nothing
  <2>4. t.top = q /\ job' = <<t>>
    BY <1>5 DEF delete, Task
  <2> HIDE DEF t
  <2> QED BY <2>3, <2>4, MadeOne
<1>6. ASSUME NEW q \in Paths, NEW r \in Paths, mv(q, r) PROVE p \notin Made'
  <2> DEFINE t == Task("move", q, r, r, {})
  <2>2. p \notin Inside[r]
    BY <1>4, <1>6 DEF mv, Rename, Can_rename
  <2>3. t.top = r /\ job' = <<t>>
    BY <1>6 DEF mv, Task
  <2> HIDE DEF t
  <2> QED BY <2>2, <2>3, MadeOne
<1>7. CASE \E folder \in Paths \cup {<<>>} : paste_clipboard(folder)
  <2>1. \A n \in DOMAIN job' : job'[n].op = "paste"
    BY <1>7 DEF paste_clipboard, Task
  <2> QED BY <2>1 DEF Made
<1>8. CASE paste
  <2> DEFINE src == Head(job).from
             dst == Head(job).to
             u == Task("move", src, dst, dst, {})
             v == Task(IF Marked_dir(src) THEN "copy_tree" ELSE "copy_file", src, dst, dst, {})
  <2>1. job # <<>>
    BY <1>8 DEF paste
  <2>2. Tail(job) = SubSeq(job, 2, Len(job)) /\ 2 \in 1 .. Len(job) + 1
    BY <2>1, TailFacts
  <2>3. u.top = dst /\ v.top = dst
    BY DEF Task
  <2>4. \/ job' = Tail(job)
        \/ dst \in Paths /\ ~_exists(dst) /\ job' = <<u>> \o Tail(job)
        \/ dst \in Paths /\ ~_exists(dst) /\ job' = <<v>> \o Tail(job)
    BY <1>8 DEF paste, Rename, Can_rename
  <2> HIDE DEF u, v
  <2>5. CASE job' = Tail(job)
    BY <2>1, <2>5, MadeTail
  <2>6. CASE dst \in Paths /\ ~_exists(dst) /\ job' = <<u>> \o Tail(job)
    BY <1>4, <2>1, <2>2, <2>3, <2>6, MadeCons
  <2>7. CASE dst \in Paths /\ ~_exists(dst) /\ job' = <<v>> \o Tail(job)
    BY <1>4, <2>1, <2>2, <2>3, <2>7, MadeCons
  <2> QED BY <2>4, <2>5, <2>6, <2>7
<1>9. CASE _copy_file \/ _copy_tree \/ listdir
  <2> DEFINE top == Head(job).top
  <2>1. job # <<>> /\ Head(job).op # "paste"
    BY <1>9 DEF _copy_file, _copy_tree, listdir
  <2>2. p \notin Inside[top]
    BY <2>1, HeadMade
  <2>3. Tail(job) = SubSeq(job, 2, Len(job)) /\ 2 \in 1 .. Len(job) + 1
    BY <2>1, TailFacts
  <2>4. CASE job' = Tail(job) \/ Copy_fails(top)
    BY <2>1, <2>4, MadeTail, MadeCopyFails
  <2>5. CASE \E from, to, mode : job' = <<Task("chmod", from, to, top, mode)>> \o Tail(job)
    <3>1. PICK t : t.top = top /\ job' = <<t>> \o Tail(job)
      BY <2>5 DEF Task
    <3> QED BY <2>1, <2>2, <2>3, <3>1, MadeCons
  <2>6. ASSUME NEW S, NEW pre \in Seq(S), job' = pre \o Tail(job),
               \A i \in DOMAIN pre : pre[i].top = top
        PROVE  p \notin Made'
    <3> DEFINE U == S \cup Tasks
    <3>3. pre \in Seq(U) /\ job \in Seq(U)
      BY Parts
    <3> HIDE DEF U
    <3> QED BY <2>2, <2>3, <2>6, <3>3, MadeJoin
  <2>7. CASE _copy_file
    BY <2>4, <2>5, <2>7 DEF _copy_file, Refused
  <2>8. CASE _copy_tree
    <3>1. ASSUME NEW t, NEW u, t.top = top, u.top = top, job' = <<t, u>> \o Tail(job)
          PROVE  p \notin Made'
      <4> DEFINE S == {t, u}
                 pre == <<t, u>>
      <4>1. pre \in Seq(S) /\ job' = pre \o Tail(job) /\ \A i \in DOMAIN pre : pre[i].top = top
        BY <3>1
      <4> HIDE DEF S, pre
      <4> QED BY <2>6, <4>1
    <3>2. \A op, from, to, mode : Task(op, from, to, top, mode).top = top
      BY DEF Task
    <3> QED BY <2>4, <2>8, <3>1, <3>2 DEF _copy_tree, Refused
  <2>9. CASE listdir
    <3> DEFINE src == Head(job).from
               dst == Head(job).to
               held == {q \in Paths : _exists(q) /\ Len(q) = Len(src) + 1 /\ Within(q, src)}
               made(names) == [n \in DOMAIN names |->
                                  Task(IF _is_dir(names[n]) THEN "copy_tree" ELSE "copy_file",
                                       names[n], Rebase(names[n], src, dst), top, {})]
    <3>1. \/ Copy_fails(top)
          \/ \E names \in SetToSeqs(held) : job' = made(names) \o Tail(job)
      BY <2>9 DEF listdir
    <3>2. ASSUME NEW names \in SetToSeqs(held), job' = made(names) \o Tail(job)
          PROVE  p \notin Made'
      <4>1. PICK n \in Nat : DOMAIN names = 1 .. n
        <5>1. Cardinality(held) \in Nat
          BY FilesAssumption, FS_Subset, FS_CardinalityType
        <5> HIDE DEF held
        <5> QED BY <5>1 DEF SetToSeqs
      <4> DEFINE S == {made(names)[i] : i \in 1 .. n}
      <4>2. made(names) \in [1 .. n -> S]
        BY <4>1
      <4>3. \A i \in DOMAIN made(names) : made(names)[i].top = top
        BY DEF Task
      <4> HIDE DEF made, S
      <4>4. made(names) \in Seq(S)
        BY <4>2
      <4>5. job' = made(names) \o Tail(job)
        BY <3>2
      <4> QED BY <2>6, <4>3, <4>4, <4>5
    <3> QED BY <2>4, <3>1, <3>2
  <2> QED BY <1>9, <2>7, <2>8, <2>9
<1>10. CASE _remove_tree
  <2> DEFINE top == Head(job).top
             rem(q) == Task("remove", q, q, q, {})
  <2>1. job # <<>> /\ Head(job).op = "undo"
    BY <1>10 DEF _remove_tree
  <2>2. top \in Paths
    BY <2>1, Parts, HeadFacts DEF TaskOK
  <2>3. ASSUME NEW q \in Inside[top] PROVE p \notin Inside[q] /\ rem(q).top = q
    <3>1. q \in Paths /\ Within(q, top) /\ p \notin Inside[top]
      BY <2>1, <2>2, HeadMade, PathFacts
    <3>2. ~Within(p, q)
      BY <2>2, <3>1, PathFacts, WithinTrans
    <3> QED BY <3>1, <3>2, PathFacts DEF Task
  <2>4. /\ Tail(job) = SubSeq(job, 2, Len(job)) /\ 2 \in 1 .. Len(job) + 1
        /\ job = SubSeq(job, 1, Len(job)) /\ 1 \in 1 .. Len(job) + 1
    BY <2>1, TailFacts
  <2>5. top \in Inside[top]
    BY <2>2, PathFacts
  <2>6. \/ job' = Tail(job)
        \/ \E q \in Inside[top] : job' = <<rem(q)>> \o job \/ job' = <<rem(q)>> \o Tail(job)
    BY <1>10, <2>5 DEF _remove_tree
  <2> HIDE DEF rem
  <2>7. ASSUME NEW q \in Inside[top], NEW k \in 1 .. Len(job) + 1,
               job' = <<rem(q)>> \o SubSeq(job, k, Len(job))
        PROVE  p \notin Made'
    BY <2>1, <2>3, <2>7, MadeCons
  <2>8. CASE \E q \in Inside[top] : job' = <<rem(q)>> \o job
    BY <2>4, <2>7, <2>8
  <2>9. CASE \E q \in Inside[top] : job' = <<rem(q)>> \o Tail(job)
    BY <2>4, <2>7, <2>9
  <2> QED BY <2>1, <2>6, <2>8, <2>9, MadeTail
<1>11. CASE table
  BY <1>11, MadeTail DEF table
<1>12. CASE interrupt \/ restart
  BY <1>3, <1>12 DEF interrupt, restart
<1>13. ASSUME NEW q \in Paths,
              \/ \E what \in {Empty, Folder} : create(q, what)
              \/ \E t \in Texts : save_file(q, t)
              \/ save_interrupted(q)
              \/ \E r \in Paths : cp(q, r) \/ cp_unseen(q, r)
              \/ \E m \in Modes : chmod(q, m)
              \/ script(q)
       PROVE  p \notin Made'
  <2>1. UNCHANGED job
    BY <1>13 DEF create, save_file, save_interrupted, cp, cp_unseen, chmod, script
  <2> QED BY <1>2, <2>1
<1>14. CASE \/ \E marked \in Selections, mode \in {"copy", "cut"} : set_clipboard(mode, marked)
            \/ clear_clipboard
  <2>1. UNCHANGED job
    BY <1>14 DEF set_clipboard, clear_clipboard
  <2> QED BY <1>2, <2>1
<1>15. ASSUME NEW q \in Paths,
              \/ \E what \in {Empty, Folder} : create(q, what)
              \/ \E t \in Texts : save_file(q, t)
              \/ save_interrupted(q)
              \/ \E r \in Paths : cp(q, r) \/ cp_unseen(q, r) \/ mv(q, r)
              \/ \E m \in Modes : chmod(q, m)
              \/ delete(q) \/ script(q)
       PROVE  p \notin Made'
  BY <1>5, <1>6, <1>13, <1>15
<1>16. CASE paste \/ _copy_file \/ _copy_tree \/ listdir \/ _remove_tree
  BY <1>8, <1>9, <1>10, <1>16
<1> QED BY <1>7, <1>11, <1>12, <1>14, <1>15, <1>16 DEF Next

LEMMA ProtectedOne ==
    ASSUME IInv, Next, NEW p \in Paths, p \notin suspect \cup Made, Is_file(p), "w" \notin intent[p]
    PROVE  \/ disk'[p] = disk[p]
           \/ \E q, r \in Paths : Within(p, q) /\ p # q /\ disk' = Renamed(disk, q, r, Absent)
           \/ paste_unseen \/ \E q, r \in Paths : script(q) \/ cp_unseen(q, r)
<1> DEFINE Goal == \/ disk'[p] = disk[p]
                   \/ \E q, r \in Paths : Within(p, q) /\ p # q /\ disk' = Renamed(disk, q, r, Absent)
                   \/ paste_unseen \/ \E q, r \in Paths : script(q) \/ cp_unseen(q, r)
<1>1. _exists(p) /\ ~_is_dir(p)
  BY DEF Is_file
<1>2. disk \in [Paths -> Contents]
  BY Parts
<1>3. ASSUME NEW q \in Paths, NEW what, Put(q, what), q # p PROVE Goal
  BY <1>2, <1>3 DEF Put
<1>4. ASSUME Idle PROVE ~writable(p)
  BY <1>1, <1>4, ProtectedMode DEF Idle
<1>5. ASSUME NEW q \in Paths, NEW what \in {Empty, Folder}, create(q, what) PROVE Goal
  BY <1>1, <1>3, <1>5 DEF create
<1>6. ASSUME NEW q \in Paths, NEW t \in Texts, save_file(q, t) PROVE Goal
  BY <1>3, <1>4, <1>6 DEF save_file, May_save
<1>7. ASSUME NEW q \in Paths, NEW r \in Paths, cp(q, r) PROVE Goal
  <2>1. r # p
    BY <1>1, <1>4, <1>7 DEF cp, In_terminal
  <2> QED BY <1>3, <1>7, <2>1 DEF cp
<1>8. ASSUME NEW q \in Paths, delete(q) PROVE Goal
  BY <1>3, <1>4, <1>8 DEF delete
<1>9. ASSUME NEW q \in Paths, NEW r \in Paths, mv(q, r) PROVE Goal
  BY <1>1, <1>4, <1>9, RenameProtects DEF mv, In_terminal
<1>10. CASE paste
  <2>1. CASE disk' = disk
    BY <2>1
  <2>2. CASE /\ Head(job).to \in Paths /\ Rename(Head(job).from, Head(job).to)
    <3>1. job # <<>> /\ Head(job).op = "paste" /\ Head(job).from \in Paths
      BY <1>10, Parts, HeadFacts, TaskFields DEF paste
    <3>2. ~writable(p)
      BY <1>1, <3>1, ProtectedMode
    <3> QED BY <1>1, <2>2, <3>1, <3>2, RenameProtects
  <2> QED BY <1>10, <2>1, <2>2 DEF paste
<1>11. CASE _copy_file \/ _copy_tree
  <2>1. job # <<>> /\ Head(job).op \in Building /\ Head(job).op # "paste"
    BY <1>11 DEF _copy_file, _copy_tree, Building, Copying
  <2>2. Head(job).to \in Inside[Head(job).top] /\ Head(job).to \in Paths
    BY <2>1, BuildingHead
  <2>3. Head(job).to # p
    BY <2>1, <2>2, HeadMade
  <2>4. disk' = disk \/ \E what : Put(Head(job).to, what)
    BY <1>11 DEF _copy_file, _copy_tree, Copied
  <2> QED BY <1>3, <2>2, <2>3, <2>4
<1>12. CASE _remove_tree
  <2>1. job # <<>> /\ Head(job).op = "undo"
    BY <1>12 DEF _remove_tree
  <2>2. disk' = disk \/ \E q \in Inside[Head(job).top] : Put(q, Absent)
    BY <1>12 DEF _remove_tree, Copied
  <2>3. Head(job).top \in Paths
    <3>1. TaskOK(Head(job))
      BY <2>1, Parts, HeadFacts
    <3> QED BY <2>1, <3>1 DEF TaskOK
  <2>4. ASSUME NEW q \in Inside[Head(job).top] PROVE q \in Paths /\ q # p
    BY <2>1, <2>3, HeadMade, PathFacts
  <2> QED BY <1>3, <2>2, <2>4
<1>13. CASE \/ \E q \in Paths, m \in Modes : chmod(q, m)
            \/ \E marked \in Selections, mode \in {"copy", "cut"} : set_clipboard(mode, marked)
            \/ clear_clipboard \/ \E folder \in Paths \cup {<<>>} : paste_clipboard(folder)
            \/ listdir \/ table \/ interrupt \/ restart
  <2>1. disk' = disk
    BY <1>13 DEF chmod, set_clipboard, clear_clipboard, paste_clipboard, listdir, table, interrupt, restart
  <2> QED BY <2>1
<1>14. ASSUME NEW q \in Paths, save_interrupted(q) PROVE Goal
  BY <1>3, <1>4, <1>14 DEF save_interrupted, May_save
<1>15. CASE paste_unseen \/ \E q \in Paths : script(q) \/ \E r \in Paths : cp_unseen(q, r)
  BY <1>15
<1> QED BY <1>5, <1>6, <1>7, <1>8, <1>9, <1>10, <1>11, <1>12, <1>13, <1>14, <1>15 DEF Next

(* No command of the terminal and no operation of the file manager, nor any
   step of one, changes a file that the user gave no write access, or begins
   to make or take back something there; only the folder it lies in may go
   elsewhere with it.  Excepted are the copies for whose target os.stat()
   failed, and scripts. *)
THEOREM ProtectedFiles == Spec => ProtectedKept
<1>1. IInv /\ Next => \/ ProtectedStep \/ paste_unseen
                      \/ \E p, q \in Paths : script(p) \/ cp_unseen(p, q)
  <2> SUFFICES ASSUME IInv, Next, ~paste_unseen, ~\E p, q \in Paths : script(p) \/ cp_unseen(p, q)
               PROVE  ProtectedStep
    OBVIOUS
  <2>1. ASSUME NEW p \in Paths \ suspect, Is_file(p), "w" \notin intent[p], p \notin Made
        PROVE  /\ p \notin Made'
               /\ \/ disk'[p] = disk[p]
                  \/ \E q, r \in Paths : Within(p, q) /\ p # q /\ disk' = Renamed(disk, q, r, Absent)
    BY <2>1, ProtectedOne, ProtectedUnmade
  <2> QED BY <2>1 DEF ProtectedStep
<1>2. IInv /\ [Next]_vars => [\/ ProtectedStep \/ paste_unseen
                              \/ \E p, q \in Paths : script(p) \/ cp_unseen(p, q)]_vars
  BY <1>1
<1> QED BY <1>2, Invariance, PTL DEF Spec, ProtectedKept
=============================================================================
