----------------------------- MODULE SumTheorems ----------------------------
(***************************************************************************)
(* Facts about SumTo, for every function and every length.                 *)
(*                                                                         *)
(* The induction principle is stated with a set of numbers instead of a    *)
(* predicate: a fact about all n in Nat is proved by showing that the set  *)
(* of the n that have it contains 0 and is closed under successor.         *)
(***************************************************************************)
EXTENDS Sums, WellFoundedInduction, TLAPS

Less == OpToRel(<, Nat)

(* A nonempty set of natural numbers has a least element. *)
LEMMA LeastNat ==
    ASSUME NEW T \in SUBSET Nat, T # {}
    PROVE  \E x \in T : \A y \in T : x <= y
<1>1. IsWellFoundedOn(Less, Nat)
  BY NatLessThanWellFounded, Zenon DEF Less
<1>2. \E x \in T : \A y \in T : <<y, x>> \notin Less
  BY <1>1, WFMin, Zenon
<1>3. PICK x \in T : \A y \in T : <<y, x>> \notin Less
  BY <1>2
<1>4. ASSUME NEW y \in T PROVE x <= y
  <2>1. <<y, x>> \notin Less
    BY <1>3
  <2>2. x \in Nat /\ y \in Nat
    OBVIOUS
  <2> QED BY <2>1, <2>2 DEF Less, OpToRel
<1> QED BY <1>4

(* Induction on the natural numbers, for a set. *)
LEMMA SetInduction ==
    ASSUME NEW S \in SUBSET Nat, 0 \in S, \A n \in S : n + 1 \in S
    PROVE  S = Nat
<1> SUFFICES ASSUME Nat \ S # {} PROVE FALSE
  OBVIOUS
<1>1. PICK x \in Nat \ S : \A y \in Nat \ S : x <= y
  BY LeastNat
<1>2. x - 1 \in Nat /\ ~(x <= x - 1) /\ (x - 1) + 1 = x
  OBVIOUS
<1>3. x - 1 \in S
  BY <1>1, <1>2
<1>4. (x - 1) + 1 \in S
  BY <1>3
<1> QED BY <1>2, <1>4

-----------------------------------------------------------------------------
(* s is the function that the definition of SumTo(f, n) chooses. *)
IsPartialSum(s, f, n) ==
    s = [k \in 0 .. n |-> IF k = 0 THEN 0 ELSE s[k - 1] + f[k - 1]]

LEMMA SumToChoice ==
    ASSUME NEW f, NEW n
    PROVE  SumTo(f, n) = (CHOOSE s : IsPartialSum(s, f, n))[n]
BY DEF SumTo, IsPartialSum

(* The recursive definition has a solution. *)
LEMMA PartialSumExists ==
    ASSUME NEW f
    PROVE  \A n \in Nat : \E s : IsPartialSum(s, f, n)
<1> DEFINE S == {n \in Nat : \E s : IsPartialSum(s, f, n)}
<1>1. 0 \in S
  <2>1. IsPartialSum([k \in 0 .. 0 |-> 0], f, 0)
    BY DEF IsPartialSum
  <2> QED BY <2>1
<1>2. ASSUME NEW n \in S PROVE n + 1 \in S
  <2>1. PICK s : IsPartialSum(s, f, n)
    OBVIOUS
  <2> DEFINE t == [k \in 0 .. n + 1 |-> IF k = n + 1 THEN s[n] + f[n] ELSE s[k]]
  <2>2. IsPartialSum(t, f, n + 1)
    <3>1. \A k \in 0 .. n + 1 : t[k] = IF k = 0 THEN 0 ELSE t[k - 1] + f[k - 1]
      BY <2>1 DEF IsPartialSum
    <3>2. t = [k \in 0 .. n + 1 |-> t[k]]
      OBVIOUS
    <3> HIDE DEF t
    <3> QED BY <3>1, <3>2 DEF IsPartialSum
  <2> QED BY <2>2
<1>3. S = Nat
  <2> HIDE DEF S
  <2>1. S \in SUBSET Nat
    BY DEF S
  <2> QED BY <1>1, <1>2, <2>1, SetInduction
<1> QED BY <1>3

(* Partial sums of the same function agree where both are defined. *)
LEMMA PartialSumUnique ==
    ASSUME NEW f, NEW n \in Nat, NEW m \in Nat, m <= n,
           NEW s, IsPartialSum(s, f, n),
           NEW t, IsPartialSum(t, f, m)
    PROVE  \A k \in 0 .. m : s[k] = t[k]
<1> DEFINE S == {k \in Nat : k <= m => s[k] = t[k]}
<1>1. 0 \in S
  BY DEF IsPartialSum
<1>2. ASSUME NEW k \in S PROVE k + 1 \in S
  <2> SUFFICES ASSUME k + 1 <= m PROVE s[k + 1] = t[k + 1]
    OBVIOUS
  <2>1. s[k + 1] = s[k] + f[k]
    BY DEF IsPartialSum
  <2>2. t[k + 1] = t[k] + f[k]
    BY DEF IsPartialSum
  <2> QED BY <2>1, <2>2
<1>3. S = Nat
  <2> HIDE DEF S
  <2>1. S \in SUBSET Nat
    BY DEF S
  <2> QED BY <1>1, <1>2, <2>1, SetInduction
<1> QED BY <1>3

-----------------------------------------------------------------------------
(* The empty sum is 0. *)
LEMMA SumEmpty ==
    ASSUME NEW f
    PROVE  SumTo(f, 0) = 0
<1>1. IsPartialSum(CHOOSE s : IsPartialSum(s, f, 0), f, 0)
  BY PartialSumExists
<1>2. (CHOOSE s : IsPartialSum(s, f, 0))[0] = 0
  BY <1>1 DEF IsPartialSum
<1> QED BY <1>2, SumToChoice

(* A sum grows by the next element. *)
LEMMA SumNext ==
    ASSUME NEW f, NEW n \in Nat
    PROVE  SumTo(f, n + 1) = SumTo(f, n) + f[n]
<1> DEFINE s == CHOOSE s : IsPartialSum(s, f, n + 1)
           t == CHOOSE t : IsPartialSum(t, f, n)
<1>1. IsPartialSum(s, f, n + 1) /\ IsPartialSum(t, f, n)
  BY PartialSumExists
<1>2. SumTo(f, n + 1) = s[n + 1] /\ SumTo(f, n) = t[n]
  BY SumToChoice
<1> HIDE DEF s, t
<1>3. s[n] = t[n]
  BY <1>1, PartialSumUnique
<1>4. s[n + 1] = s[n] + f[n]
  BY <1>1 DEF IsPartialSum
<1> QED BY <1>2, <1>3, <1>4

(* A sum of integers is an integer. *)
LEMMA SumInt ==
    ASSUME NEW n \in Nat, NEW f, \A k \in 0 .. n - 1 : f[k] \in Int
    PROVE  \A k \in 0 .. n : SumTo(f, k) \in Int
<1> DEFINE S == {k \in Nat : k <= n => SumTo(f, k) \in Int}
<1>1. 0 \in S
  BY SumEmpty
<1>2. ASSUME NEW k \in S PROVE k + 1 \in S
  BY SumNext
<1>3. S = Nat
  <2> HIDE DEF S
  <2>1. S \in SUBSET Nat
    BY DEF S
  <2> QED BY <1>1, <1>2, <2>1, SetInduction
<1> QED BY <1>3

(* Functions that agree up to n have the same sum up to n. *)
LEMMA SumEqual ==
    ASSUME NEW n \in Nat, NEW f, NEW g, \A k \in 0 .. n - 1 : f[k] = g[k]
    PROVE  SumTo(f, n) = SumTo(g, n)
<1> DEFINE S == {k \in Nat : k <= n => SumTo(f, k) = SumTo(g, k)}
<1>1. 0 \in S
  BY SumEmpty
<1>2. ASSUME NEW k \in S PROVE k + 1 \in S
  BY SumNext
<1>3. S = Nat
  <2> HIDE DEF S
  <2>1. S \in SUBSET Nat
    BY DEF S
  <2> QED BY <1>1, <1>2, <2>1, SetInduction
<1> QED BY <1>3

(* A sum splits at any point: g is the part of f from c on. *)
LEMMA SumSplit ==
    ASSUME NEW c \in Nat, NEW n \in Nat, NEW f, NEW g,
           \A k \in 0 .. c + n - 1 : f[k] \in Int,
           \A k \in 0 .. n - 1 : g[k] = f[c + k]
    PROVE  SumTo(f, c + n) = SumTo(f, c) + SumTo(g, n)
<1> DEFINE S == {k \in Nat : k <= n => SumTo(f, c + k) = SumTo(f, c) + SumTo(g, k)}
<1>0. /\ \A k \in 0 .. c + n : SumTo(f, k) \in Int
      /\ \A k \in 0 .. n : SumTo(g, k) \in Int
  BY SumInt
<1>1. 0 \in S
  BY <1>0, SumEmpty
<1>2. ASSUME NEW k \in S PROVE k + 1 \in S
  <2> SUFFICES ASSUME k + 1 <= n
               PROVE  SumTo(f, c + (k + 1)) = SumTo(f, c) + SumTo(g, k + 1)
    OBVIOUS
  <2>1. SumTo(f, (c + k) + 1) = SumTo(f, c + k) + f[c + k]
    BY SumNext
  <2>2. SumTo(g, k + 1) = SumTo(g, k) + f[c + k]
    BY SumNext
  <2>3. (c + k) + 1 = c + (k + 1)
    OBVIOUS
  <2>4. /\ SumTo(f, c) \in Int /\ SumTo(g, k) \in Int /\ f[c + k] \in Int
        /\ SumTo(f, c + k) = SumTo(f, c) + SumTo(g, k)
    BY <1>0
  <2> QED BY <2>1, <2>2, <2>3, <2>4
<1>3. S = Nat
  <2> HIDE DEF S
  <2>1. S \in SUBSET Nat
    BY DEF S
  <2> QED BY <1>1, <1>2, <2>1, SetInduction
<1> QED BY <1>3

(* Sums add up element by element. *)
LEMMA SumPlus ==
    ASSUME NEW n \in Nat, NEW f, NEW d, NEW h,
           \A k \in 0 .. n - 1 : f[k] \in Int /\ d[k] \in Int /\ h[k] = f[k] + d[k]
    PROVE  SumTo(h, n) = SumTo(f, n) + SumTo(d, n)
<1> DEFINE S == {k \in Nat : k <= n => SumTo(h, k) = SumTo(f, k) + SumTo(d, k)}
<1>0. \A k \in 0 .. n : SumTo(f, k) \in Int /\ SumTo(d, k) \in Int
  BY SumInt
<1>1. 0 \in S
  BY SumEmpty
<1>2. ASSUME NEW k \in S PROVE k + 1 \in S
  <2> SUFFICES ASSUME k + 1 <= n
               PROVE  SumTo(h, k + 1) = SumTo(f, k + 1) + SumTo(d, k + 1)
    OBVIOUS
  <2>1. /\ SumTo(h, k + 1) = SumTo(h, k) + h[k]
        /\ SumTo(f, k + 1) = SumTo(f, k) + f[k]
        /\ SumTo(d, k + 1) = SumTo(d, k) + d[k]
    BY SumNext
  <2>2. /\ SumTo(f, k) \in Int /\ SumTo(d, k) \in Int
        /\ f[k] \in Int /\ d[k] \in Int /\ h[k] = f[k] + d[k]
    BY <1>0
  <2> QED BY <2>1, <2>2
<1>3. S = Nat
  <2> HIDE DEF S
  <2>1. S \in SUBSET Nat
    BY DEF S
  <2> QED BY <1>1, <1>2, <2>1, SetInduction
<1> QED BY <1>3

(* A sum of natural numbers never gets smaller. *)
LEMMA SumMonotone ==
    ASSUME NEW n \in Nat, NEW f, \A k \in 0 .. n - 1 : f[k] \in Nat,
           NEW i \in 0 .. n, NEW j \in i .. n
    PROVE  SumTo(f, i) <= SumTo(f, j)
<1> DEFINE S == {k \in Nat : i + k <= n => SumTo(f, i) <= SumTo(f, i + k)}
<1>0. \A k \in 0 .. n : SumTo(f, k) \in Int
  BY SumInt
<1>1. 0 \in S
  BY <1>0
<1>2. ASSUME NEW k \in S PROVE k + 1 \in S
  <2> SUFFICES ASSUME i + (k + 1) <= n
               PROVE  SumTo(f, i) <= SumTo(f, i + (k + 1))
    OBVIOUS
  <2>1. SumTo(f, (i + k) + 1) = SumTo(f, i + k) + f[i + k]
    BY SumNext
  <2>2. (i + k) + 1 = i + (k + 1) /\ i + k \in 0 .. n - 1 /\ i + k \in 0 .. n
    OBVIOUS
  <2>3. /\ SumTo(f, i) \in Int /\ SumTo(f, i + k) \in Int /\ f[i + k] \in Nat
        /\ SumTo(f, i) <= SumTo(f, i + k)
    BY <1>0, <2>2
  <2> QED BY <2>1, <2>2, <2>3
<1>3. S = Nat
  <2> HIDE DEF S
  <2>1. S \in SUBSET Nat
    BY DEF S
  <2> QED BY <1>1, <1>2, <2>1, SetInduction
<1>4. j - i \in Nat /\ i + (j - i) = j /\ i + (j - i) <= n
  OBVIOUS
<1>5. j - i \in S
  <2> HIDE DEF S
  <2> QED BY <1>3, <1>4
<1> QED BY <1>4, <1>5
=============================================================================
