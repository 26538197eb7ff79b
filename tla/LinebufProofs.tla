---------------------------- MODULE LinebufProofs ---------------------------
(***************************************************************************)
(* What each operation on the rotating line buffer preserves, for every    *)
(* capacity, every line length and every backlog size.                     *)
(***************************************************************************)
EXTENDS ConsoleProps, SumTheorems

(* RingOK for a buffer that may be empty, as it is inside an operation. *)
WellFormed(b) ==
    /\ b \in Buffers
    /\ b.size \in 0 .. Capacity
    /\ \A n \in 0 .. b.size - 2 :
           b.lines[linebuf_nth_to_index(b, n)] = b.absolute + n
    /\ b.size > 0 => /\ b.lines[linebuf_nth_to_index(b, b.size - 1)] = NULL
                     /\ b.edit.raw = linebuf_end(b) - 1
    /\ b.live = b.absolute .. linebuf_end(b) - 1

(* TotalsOK for a buffer that may be empty. *)
Summed(b) ==
    /\ b.total_size_except_last = SumTo(SizesOf(b), max(0, b.size - 1))
    /\ b.total_rendered = SumTo(RowsOf(b), b.size)

-----------------------------------------------------------------------------
(* Slot arithmetic: within one turn of the ring, an index is its offset from
   `start` or that less the capacity. *)
LEMMA IndexValue ==
    ASSUME NEW b \in Buffers, NEW n \in 0 .. Capacity - 1
    PROVE  /\ linebuf_nth_to_index(b, n) \in Slots
           /\ linebuf_nth_to_index(b, n) =
                IF b.start + n < Capacity THEN b.start + n
                                          ELSE b.start + n - Capacity
<1>1. Capacity \in Nat \ {0} /\ b.start \in 0 .. Capacity - 1
  BY LinebufAssumption DEF Buffers, Slots
<1>2. ASSUME NEW x \in 0 .. Capacity - 1
      PROVE  x % Capacity = x /\ (x + Capacity) % Capacity = x
  BY <1>1
<1>3. CASE b.start + n < Capacity
  BY <1>1, <1>2, <1>3 DEF linebuf_nth_to_index, Slots
<1>4. CASE b.start + n >= Capacity
  <2>1. b.start + n - Capacity \in 0 .. Capacity - 1
    BY <1>1, <1>4
  <2>2. ((b.start + n - Capacity) + Capacity) % Capacity = b.start + n - Capacity
    BY <1>2, <2>1
  <2>3. (b.start + n - Capacity) + Capacity = b.start + n
    BY <1>1
  <2> QED BY <1>1, <1>4, <2>1, <2>2, <2>3 DEF linebuf_nth_to_index, Slots
<1> QED BY <1>1, <1>3, <1>4

(* linebuf_index_add() moves an index around the ring. *)
LEMMA IndexAddValue ==
    ASSUME NEW i \in Slots, NEW c \in 0 .. Capacity
    PROVE  /\ linebuf_index_add(i, c) \in Slots
           /\ linebuf_index_add(i, c) =
                IF i + c < Capacity THEN i + c ELSE i + c - Capacity
<1>1. Capacity \in Nat \ {0} /\ i \in 0 .. Capacity - 1
  BY LinebufAssumption DEF Slots
<1>2. ASSUME NEW x \in 0 .. Capacity - 1
      PROVE  (x + Capacity) % Capacity = x /\ (x + Capacity + Capacity) % Capacity = x
  BY <1>1
<1>3. CASE i + c < Capacity
  BY <1>1, <1>2, <1>3 DEF linebuf_index_add, Slots
<1>4. CASE i + c >= Capacity
  <2>1. i + c - Capacity \in 0 .. Capacity - 1
    BY <1>1, <1>4
  <2>2. ((i + c - Capacity) + Capacity + Capacity) % Capacity = i + c - Capacity
    BY <1>2, <2>1
  <2>3. (i + c - Capacity) + Capacity + Capacity = i + c + Capacity
    BY <1>1
  <2> QED BY <1>1, <1>4, <2>1, <2>2, <2>3 DEF linebuf_index_add, Slots
<1> QED BY <1>1, <1>3, <1>4

(* The nth line is in the block of line absolute + n, and that is allocated. *)
LEMMA NthLine ==
    ASSUME NEW b, WellFormed(b), NEW n \in 0 .. b.size - 1
    PROVE  /\ linebuf_get_nth_line(b, n) = b.absolute + n
           /\ b.absolute + n \in b.live
           /\ b.absolute + n \in Blocks
<1>1. b.size \in Nat /\ b.absolute \in Nat /\ b.live \in SUBSET Blocks
  BY DEF WellFormed, Buffers
<1>2. b.absolute + n \in b.live
  BY <1>1 DEF WellFormed, linebuf_end
<1>3. CASE n = b.size - 1
  <2>1. b.edit.raw = b.absolute + b.size - 1
    BY <1>1, <1>3 DEF WellFormed, linebuf_end
  <2> QED BY <1>1, <1>2, <1>3, <2>1 DEF linebuf_get_nth_line
<1>4. CASE n # b.size - 1
  <2>1. b.lines[linebuf_nth_to_index(b, n)] = b.absolute + n
    BY <1>1, <1>4 DEF WellFormed
  <2> QED BY <1>1, <1>2, <1>4, <2>1 DEF linebuf_get_nth_line
<1> QED BY <1>3, <1>4

(* The header fields of the lines, read through the ring. *)
LEMMA Headers ==
    ASSUME NEW b, WellFormed(b)
    PROVE  /\ \A n \in 0 .. b.size - 1 :
                 /\ SizesOf(b)[n] = b.heap[b.absolute + n].size
                 /\ RowsOf(b)[n] = b.heap[b.absolute + n].render_lines
                 /\ SizesOf(b)[n] \in Nat
                 /\ RowsOf(b)[n] \in Nat
           /\ \A n \in 0 .. b.size : /\ SumTo(SizesOf(b), n) \in Int
                                     /\ SumTo(RowsOf(b), n) \in Int
<1>1. b.size \in Nat /\ b.heap \in [Blocks -> [size: Nat, render_lines: Nat]]
  BY DEF WellFormed, Buffers
<1>2. ASSUME NEW n \in 0 .. b.size - 1
      PROVE  /\ SizesOf(b)[n] = b.heap[b.absolute + n].size
             /\ RowsOf(b)[n] = b.heap[b.absolute + n].render_lines
             /\ SizesOf(b)[n] \in Nat
             /\ RowsOf(b)[n] \in Nat
  <2>1. /\ linebuf_get_nth_line(b, n) = b.absolute + n
        /\ b.absolute + n \in Blocks
    BY NthLine
  <2> QED BY <1>1, <2>1 DEF SizesOf, RowsOf
<1>3. ASSUME NEW n \in 0 .. b.size
      PROVE  SumTo(SizesOf(b), n) \in Int /\ SumTo(RowsOf(b), n) \in Int
  <2> DEFINE sz == SizesOf(b)
             rw == RowsOf(b)
  <2>1. \A k \in 0 .. b.size - 1 : sz[k] \in Int /\ rw[k] \in Int
    BY <1>2
  <2> HIDE DEF sz, rw
  <2>2. SumTo(sz, n) \in Int /\ SumTo(rw, n) \in Int
    BY <1>1, <2>1, SumInt
  <2> QED BY <2>2 DEF sz, rw
<1> QED BY <1>2, <1>3

-----------------------------------------------------------------------------
(* Freeing the c oldest lines, field by field. *)
LEMMA FreeOldestFields ==
    ASSUME NEW b, WellFormed(b), NEW c \in 1 .. b.size,
           NEW r, r = FreeOldest(b, c)
    PROVE  /\ r \in Buffers
           /\ r.lines = b.lines
           /\ r.edit = b.edit
           /\ r.live = b.absolute + c .. linebuf_end(b) - 1
           /\ \A p \in r.live : r.heap[p] = b.heap[p]
           /\ r.start = linebuf_index_add(b.start, c)
           /\ r.size = b.size - c
           /\ r.absolute = b.absolute + c
           /\ r.absolute_rendered = b.absolute_rendered
           /\ r.total_rendered = b.total_rendered - SumTo(RowsOf(b), c)
           /\ r.total_size_except_last =
                 b.total_size_except_last - SumTo(SizesOf(b), min(c, b.size - 1))
<1> DEFINE gone == {linebuf_get_nth_line(b, n) : n \in 0 .. c - 1}
           heap == [p \in Blocks |-> IF p \in gone THEN Zeroed ELSE b.heap[p]]
           live == b.live \ gone
<1>1. /\ b \in Buffers /\ b.size \in 0 .. Capacity /\ Capacity \in Nat
      /\ b.absolute \in Nat \ {0} /\ b.start \in Slots
      /\ b.live \in SUBSET Blocks
      /\ b.heap \in [Blocks -> [size: Nat, render_lines: Nat]]
      /\ b.total_rendered \in Int /\ b.total_size_except_last \in Int
  BY LinebufAssumption DEF WellFormed, Buffers
<1>2. r = [b EXCEPT
            !.total_rendered = @ - SumTo(RowsOf(b), c),
            !.total_size_except_last = @ - SumTo(SizesOf(b), min(c, b.size - 1)),
            !.live = live,
            !.heap = heap,
            !.start = linebuf_index_add(@, c),
            !.size = @ - c,
            !.absolute = @ + c]
  BY DEF FreeOldest
<1>3. gone = b.absolute .. b.absolute + c - 1
  <2>1. \A n \in 0 .. c - 1 : linebuf_get_nth_line(b, n) = b.absolute + n
    BY <1>1, NthLine
  <2>2. \A p \in b.absolute .. b.absolute + c - 1 :
           p - b.absolute \in 0 .. c - 1 /\ b.absolute + (p - b.absolute) = p
    BY <1>1
  <2> QED BY <1>1, <2>1, <2>2
<1>4. live = b.absolute + c .. linebuf_end(b) - 1
  BY <1>1, <1>3 DEF WellFormed, linebuf_end
<1>5. heap \in [Blocks -> [size: Nat, render_lines: Nat]]
  BY <1>1 DEF Zeroed
<1>6. \A p \in live : heap[p] = b.heap[p]
  BY <1>1
<1>7. /\ linebuf_index_add(b.start, c) \in Slots
      /\ SumTo(RowsOf(b), c) \in Int
      /\ SumTo(SizesOf(b), min(c, b.size - 1)) \in Int
  <2>1. min(c, b.size - 1) \in 0 .. b.size /\ c \in 0 .. Capacity
    BY <1>1 DEF min
  <2> QED BY <1>1, <2>1, Headers, IndexAddValue
<1>8. live \in SUBSET Blocks
  BY <1>1
<1> HIDE DEF live, heap
<1>9. /\ b.size - c \in Nat
      /\ b.absolute + c \in Nat \ {0}
      /\ b.total_rendered - SumTo(RowsOf(b), c) \in Int
      /\ b.total_size_except_last - SumTo(SizesOf(b), min(c, b.size - 1)) \in Int
  BY <1>1, <1>7
<1>10. r \in Buffers
  BY <1>1, <1>2, <1>5, <1>7, <1>8, <1>9, ZenonT(60) DEF Buffers
<1> QED BY <1>1, <1>2, <1>4, <1>6, <1>10, ZenonT(60) DEF Buffers

(* Freeing whole lines keeps the ring well-formed. *)
LEMMA FreeOldestRing ==
    ASSUME NEW b, WellFormed(b), NEW c \in 1 .. b.size,
           NEW r, r = FreeOldest(b, c)
    PROVE  WellFormed(r)
<1>1. /\ b \in Buffers /\ b.size \in 0 .. Capacity /\ Capacity \in Nat \ {0}
      /\ b.absolute \in Nat \ {0} /\ b.start \in 0 .. Capacity - 1
  BY LinebufAssumption DEF WellFormed, Buffers, Slots
<1>2. /\ r \in Buffers /\ r.lines = b.lines /\ r.edit = b.edit
      /\ r.live = b.absolute + c .. linebuf_end(b) - 1
      /\ r.start = linebuf_index_add(b.start, c)
      /\ r.size = b.size - c /\ r.absolute = b.absolute + c
  BY FreeOldestFields
<1>3. linebuf_end(r) = linebuf_end(b)
  BY <1>1, <1>2 DEF linebuf_end
<1>4. ASSUME NEW n \in 0 .. r.size - 1
      PROVE  linebuf_nth_to_index(r, n) = linebuf_nth_to_index(b, c + n)
  <2>1. r.start = IF b.start + c < Capacity THEN b.start + c
                                            ELSE b.start + c - Capacity
    <3>1. c \in 0 .. Capacity /\ b.start \in Slots
      BY <1>1 DEF Slots
    <3> QED BY <1>2, <3>1, IndexAddValue
  <2>2. linebuf_nth_to_index(r, n) =
          IF r.start + n < Capacity THEN r.start + n ELSE r.start + n - Capacity
    <3>1. n \in 0 .. Capacity - 1
      BY <1>1, <1>2
    <3> QED BY <1>2, <3>1, IndexValue
  <2>3. linebuf_nth_to_index(b, c + n) =
          IF b.start + (c + n) < Capacity THEN b.start + (c + n)
                                          ELSE b.start + (c + n) - Capacity
    <3>1. c + n \in 0 .. Capacity - 1
      BY <1>1, <1>2
    <3> QED BY <1>1, <3>1, IndexValue
  <2>4. n \in Nat /\ c \in Nat /\ c + n < Capacity
    BY <1>1, <1>2
  <2> QED BY <1>1, <2>1, <2>2, <2>3, <2>4
<1>5. ASSUME NEW n \in 0 .. r.size - 2
      PROVE  r.lines[linebuf_nth_to_index(r, n)] = r.absolute + n
  <2>1. c + n \in 0 .. b.size - 2 /\ n \in 0 .. r.size - 1
    BY <1>1, <1>2, SMTT(40)
  <2>2. b.lines[linebuf_nth_to_index(b, c + n)] = b.absolute + (c + n)
    BY <2>1 DEF WellFormed
  <2> QED BY <1>1, <1>2, <1>4, <2>1, <2>2, SMTT(40)
<1>6. ASSUME r.size > 0
      PROVE  /\ r.lines[linebuf_nth_to_index(r, r.size - 1)] = NULL
             /\ r.edit.raw = linebuf_end(r) - 1
  <2>1. r.size - 1 \in 0 .. r.size - 1 /\ c + (r.size - 1) = b.size - 1 /\ b.size > 0
    BY <1>1, <1>2, <1>6, SMTT(40)
  <2>2. linebuf_nth_to_index(r, r.size - 1) = linebuf_nth_to_index(b, b.size - 1)
    BY <1>4, <2>1
  <2> QED BY <1>2, <1>3, <2>1, <2>2 DEF WellFormed
<1>7. r.size \in 0 .. Capacity /\ r.live = r.absolute .. linebuf_end(r) - 1
  BY <1>1, <1>2, <1>3
<1> QED BY <1>2, <1>5, <1>6, <1>7 DEF WellFormed

(* Freeing whole lines keeps the running totals exact. *)
LEMMA FreeOldestSums ==
    ASSUME NEW b, WellFormed(b), Summed(b), NEW c \in 1 .. b.size,
           NEW r, r = FreeOldest(b, c)
    PROVE  Summed(r)
<1> DEFINE sz == SizesOf(b)  rw == RowsOf(b)
           szr == SizesOf(r) rwr == RowsOf(r)
<1>1. b.size \in Nat /\ b.absolute \in Nat
  BY DEF WellFormed, Buffers
<1>2. /\ \A p \in r.live : r.heap[p] = b.heap[p]
      /\ r.size = b.size - c /\ r.absolute = b.absolute + c
      /\ r.total_rendered = b.total_rendered - SumTo(rw, c)
      /\ r.total_size_except_last =
            b.total_size_except_last - SumTo(sz, min(c, b.size - 1))
  BY FreeOldestFields
<1>3. WellFormed(r)
  BY FreeOldestRing
<1>4. \A n \in 0 .. b.size - 1 : sz[n] \in Int /\ rw[n] \in Int
  BY Headers
<1>5. ASSUME NEW n \in 0 .. r.size - 1
      PROVE  szr[n] = sz[c + n] /\ rwr[n] = rw[c + n]
  <2>1. /\ szr[n] = r.heap[r.absolute + n].size
        /\ rwr[n] = r.heap[r.absolute + n].render_lines
        /\ r.absolute + n \in r.live
    BY <1>3, Headers, NthLine
  <2>2. c + n \in 0 .. b.size - 1 /\ r.absolute + n = b.absolute + (c + n)
    BY <1>1, <1>2
  <2>3. /\ sz[c + n] = b.heap[b.absolute + (c + n)].size
        /\ rw[c + n] = b.heap[b.absolute + (c + n)].render_lines
    BY <2>2, Headers
  <2> QED BY <1>2, <2>1, <2>2, <2>3
<1>6. \A n \in 0 .. b.size : SumTo(sz, n) \in Int /\ SumTo(rw, n) \in Int
  BY Headers
<1>7. \A n \in 0 .. r.size : SumTo(szr, n) \in Int /\ SumTo(rwr, n) \in Int
  BY <1>3, Headers
<1>8. /\ b.total_rendered = SumTo(rw, b.size)
      /\ b.total_size_except_last = SumTo(sz, max(0, b.size - 1))
  BY DEF Summed
<1> HIDE DEF sz, rw, szr, rwr
<1>9. r.total_rendered = SumTo(rwr, r.size)
  <2>1. SumTo(rw, c + r.size) = SumTo(rw, c) + SumTo(rwr, r.size)
    <3>1. r.size \in Nat /\ c \in Nat /\ c + r.size = b.size
      BY <1>1, <1>2
    <3>2. \A k \in 0 .. c + r.size - 1 : rw[k] \in Int
      BY <1>4, <3>1
    <3>3. \A k \in 0 .. r.size - 1 : rwr[k] = rw[c + k]
      BY <1>5
    <3> QED BY <3>1, <3>2, <3>3, SumSplit
  <2>2. c + r.size = b.size /\ c \in 0 .. b.size /\ r.size \in 0 .. r.size
    BY <1>1, <1>2
  <2> QED BY <1>2, <1>6, <1>7, <1>8, <2>1, <2>2
<1>10. CASE c = b.size
  <2>1. min(c, b.size - 1) = max(0, b.size - 1) /\ max(0, r.size - 1) = 0
    BY <1>1, <1>2, <1>10 DEF min, max
  <2>2. SumTo(sz, max(0, b.size - 1)) \in Int
    BY <1>1, <1>6 DEF max
  <2>3. r.total_size_except_last = 0
    BY <1>2, <1>8, <2>1, <2>2
  <2>4. SumTo(szr, 0) = 0
    BY SumEmpty
  <2> QED BY <1>9, <2>1, <2>3, <2>4 DEF Summed, rwr, szr
<1>11. CASE c # b.size
  <2>1. /\ min(c, b.size - 1) = c /\ max(0, r.size - 1) = r.size - 1
        /\ max(0, b.size - 1) = b.size - 1 /\ c + (r.size - 1) = b.size - 1
        /\ r.size - 1 \in Nat /\ c \in Nat /\ c \in 0 .. b.size
        /\ r.size - 1 \in 0 .. r.size
    BY <1>1, <1>2, <1>11 DEF min, max
  <2>2. SumTo(sz, c + (r.size - 1)) = SumTo(sz, c) + SumTo(szr, r.size - 1)
    <3>1. \A k \in 0 .. c + (r.size - 1) - 1 : sz[k] \in Int
      BY <1>1, <1>4, <2>1
    <3>2. \A k \in 0 .. (r.size - 1) - 1 : szr[k] = sz[c + k]
      BY <1>5, <2>1
    <3> QED BY <2>1, <3>1, <3>2, SumSplit
  <2>3. r.total_size_except_last = SumTo(szr, r.size - 1)
    BY <1>2, <1>6, <1>7, <1>8, <2>1, <2>2
  <2> QED BY <1>9, <2>1, <2>3 DEF Summed, rwr, szr
<1> QED BY <1>10, <1>11

(* linebuf_recycle_oldest_lines() for any count. *)
LEMMA Recycle ==
    ASSUME NEW b, WellFormed(b), Summed(b), NEW count \in Int,
           NEW r, r = linebuf_recycle_oldest_lines(b, count)
    PROVE  /\ WellFormed(r) /\ Summed(r)
           /\ r.edit = b.edit
           /\ r.size = b.size - max(0, min(count, b.size))
           /\ r.absolute = b.absolute + max(0, min(count, b.size))
           /\ r.absolute_rendered = b.absolute_rendered
           /\ r.total_size_except_last =
                 b.total_size_except_last
                   - SumTo(SizesOf(b), max(0, min(count, b.size - 1)))
           /\ \A p \in r.live : p \in b.live /\ r.heap[p] = b.heap[p]
<1>1. b.size \in Nat /\ b.absolute \in Nat /\ b.total_size_except_last \in Int
  BY DEF WellFormed, Buffers
<1> DEFINE c == min(count, b.size)
<1>2. c \in Int /\ c <= b.size
  BY <1>1 DEF min
<1>3. CASE c <= 0
  <2>1. max(0, min(count, b.size - 1)) = 0
    BY <1>1, <1>3 DEF max, min
  <2>2. SumTo(SizesOf(b), 0) = 0
    BY SumEmpty
  <2>3. r = b /\ max(0, c) = 0
    BY <1>1, <1>2, <1>3 DEF linebuf_recycle_oldest_lines, max
  <2> QED BY <1>1, <2>1, <2>2, <2>3
<1>4. CASE c > 0
  <2>1. r = FreeOldest(b, c) /\ c \in 1 .. b.size /\ max(0, c) = c
    BY <1>1, <1>2, <1>4 DEF linebuf_recycle_oldest_lines, max
  <2>0. max(0, min(count, b.size - 1)) = min(c, b.size - 1)
    BY <1>1, <1>4, <2>1 DEF max, min
  <2> HIDE DEF c
  <2>2. WellFormed(r) /\ Summed(r)
    BY <2>1, FreeOldestRing, FreeOldestSums
  <2>3. /\ r.edit = b.edit /\ r.size = b.size - c /\ r.absolute = b.absolute + c
        /\ r.absolute_rendered = b.absolute_rendered
        /\ r.total_size_except_last =
              b.total_size_except_last - SumTo(SizesOf(b), min(c, b.size - 1))
        /\ r.live = b.absolute + c .. linebuf_end(b) - 1
        /\ \A p \in r.live : r.heap[p] = b.heap[p]
    BY <2>1, FreeOldestFields
  <2>4. r.live \subseteq b.live
    BY <1>1, <2>1, <2>3, SMTT(40) DEF WellFormed, linebuf_end
  <2> QED BY <2>0, <2>1, <2>2, <2>3, <2>4 DEF c
<1> QED BY <1>2, <1>3, <1>4

-----------------------------------------------------------------------------
(* Freezing the last line, field by field. *)
LEMMA FreezeFields ==
    ASSUME NEW b, WellFormed(b), b.size > 0,
           NEW f, f = FreezeLast(b)
    PROVE  /\ f \in Buffers
           /\ f.start = b.start /\ f.size = b.size /\ f.absolute = b.absolute
           /\ f.live = b.live
           /\ f.absolute_rendered = b.absolute_rendered
           /\ f.total_rendered = b.total_rendered
           /\ f.total_size_except_last = b.total_size_except_last + b.edit.size
           /\ f.lines = [b.lines EXCEPT
                           ![linebuf_nth_to_index(b, b.size - 1)] = b.edit.raw]
           /\ \A p \in Blocks :
                 /\ f.heap[p].render_lines = b.heap[p].render_lines
                 /\ f.heap[p].size = IF p = b.edit.raw THEN b.edit.size
                                                       ELSE b.heap[p].size
<1> DEFINE i    == linebuf_nth_to_index(b, b.size - 1)
           heap == [b.heap EXCEPT ![b.edit.raw].size = b.edit.size]
           lines == [b.lines EXCEPT ![i] = b.edit.raw]
<1>1. /\ b \in Buffers /\ b.size \in 1 .. Capacity /\ Capacity \in Nat
      /\ b.heap \in [Blocks -> [size: Nat, render_lines: Nat]]
      /\ b.edit \in [raw: Nat, size: Nat, prefix: Nat, alloc_size: Nat]
      /\ b.lines \in [Slots -> Nat]
      /\ b.total_size_except_last \in Int
  <2>1. b \in Buffers /\ b.size \in 0 .. Capacity
    BY DEF WellFormed
  <2>2. b.size \in 1 .. Capacity /\ Capacity \in Nat
    BY <2>1, LinebufAssumption
  <2> QED BY <2>1, <2>2 DEF Buffers
<1>0. b.edit.raw \in Nat /\ b.edit.size \in Nat
  BY <1>1
<1>2. f = [b EXCEPT !.total_size_except_last = @ + b.edit.size,
                    !.heap = heap, !.lines = lines, !.edit = NoEditor]
  BY DEF FreezeLast
<1>3. lines \in [Slots -> Nat]
  BY <1>0, <1>1
<1>4. heap \in [Blocks -> [size: Nat, render_lines: Nat]]
  BY <1>0, <1>1
<1>5. \A p \in Blocks :
        /\ heap[p].render_lines = b.heap[p].render_lines
        /\ heap[p].size = IF p = b.edit.raw THEN b.edit.size ELSE b.heap[p].size
  BY <1>1
<1>6. NoEditor \in [raw: Nat, size: Nat, prefix: Nat, alloc_size: Nat]
  BY DEF NoEditor, NULL
<1>7. b.total_size_except_last + b.edit.size \in Int
  BY <1>0, <1>1
<1> HIDE DEF heap, lines
<1>8. f \in Buffers
  BY <1>1, <1>2, <1>3, <1>4, <1>6, <1>7, ZenonT(60) DEF Buffers
<1> QED BY <1>1, <1>2, <1>5, <1>8, ZenonT(60) DEF Buffers, lines, heap

(* Starting a line, field by field. *)
LEMMA OpenFields ==
    ASSUME NEW f \in Buffers, f.size \in 0 .. Capacity - 1,
           linebuf_end(f) \in Blocks,
           NEW q, q = OpenLine(f)
    PROVE  /\ q \in Buffers
           /\ q.start = f.start /\ q.size = f.size + 1 /\ q.absolute = f.absolute
           /\ q.live = f.live \cup {linebuf_end(f)}
           /\ q.edit = stredit_init(linebuf_end(f))
           /\ q.absolute_rendered = f.absolute_rendered
           /\ q.total_rendered = f.total_rendered
           /\ q.total_size_except_last = f.total_size_except_last
           /\ q.lines = [f.lines EXCEPT ![linebuf_nth_to_index(f, f.size)] = NULL]
           /\ q.heap = [f.heap EXCEPT ![linebuf_end(f)] = Zeroed]
<1> DEFINE e    == linebuf_end(f)
           heap == [f.heap EXCEPT ![e] = Zeroed]
           lines == [f.lines EXCEPT ![linebuf_nth_to_index(f, f.size)] = NULL]
           live == f.live \cup {e}
           edit == stredit_init(e)
<1>1. /\ f.heap \in [Blocks -> [size: Nat, render_lines: Nat]]
      /\ f.lines \in [Slots -> Nat] /\ f.live \in SUBSET Blocks
      /\ f.size + 1 \in Nat
  BY DEF Buffers
<1>2. q = [f EXCEPT !.size = @ + 1, !.lines = lines, !.edit = edit,
                    !.live = live, !.heap = heap]
  BY DEF OpenLine
<1>3. heap \in [Blocks -> [size: Nat, render_lines: Nat]]
  BY <1>1 DEF Zeroed
<1>4. lines \in [Slots -> Nat]
  BY <1>1 DEF NULL
<1>5. live \in SUBSET Blocks
  BY <1>1
<1>6. edit \in [raw: Nat, size: Nat, prefix: Nat, alloc_size: Nat]
  BY StreditAssumption DEF stredit_init, Blocks
<1> HIDE DEF heap, lines, live, edit
<1>7. q \in Buffers
  BY <1>1, <1>2, <1>3, <1>4, <1>5, <1>6, ZenonT(60) DEF Buffers
<1> QED BY <1>1, <1>2, <1>7 DEF Buffers, heap, lines, live, edit

(* Different lines have different slots. *)
LEMMA SlotsDiffer ==
    ASSUME NEW b \in Buffers, NEW m \in 0 .. Capacity - 1, NEW n \in 0 .. Capacity - 1,
           m # n
    PROVE  linebuf_nth_to_index(b, m) # linebuf_nth_to_index(b, n)
<1>1. Capacity \in Nat \ {0} /\ b.start \in 0 .. Capacity - 1
  BY LinebufAssumption DEF Buffers, Slots
<1>2. /\ linebuf_nth_to_index(b, m) =
            IF b.start + m < Capacity THEN b.start + m ELSE b.start + m - Capacity
      /\ linebuf_nth_to_index(b, n) =
            IF b.start + n < Capacity THEN b.start + n ELSE b.start + n - Capacity
  BY IndexValue
<1> QED BY <1>1, <1>2

(* The buffer between the freeze and the new line: every line is in a slot. *)
FrozenLast(b) == IF b.size > 0 THEN FreezeLast(b) ELSE b

LEMMA FrozenFields ==
    ASSUME NEW d, WellFormed(d), NEW f, f = FrozenLast(d)
    PROVE  /\ f \in Buffers
           /\ f.start = d.start /\ f.size = d.size /\ f.absolute = d.absolute
           /\ f.live = d.live
           /\ f.absolute_rendered = d.absolute_rendered
           /\ f.total_rendered = d.total_rendered
           /\ \A n \in 0 .. d.size - 1 :
                 f.lines[linebuf_nth_to_index(d, n)] = d.absolute + n
           /\ \A p \in d.live :
                 /\ f.heap[p].render_lines = d.heap[p].render_lines
                 /\ f.heap[p].size = IF p = linebuf_end(d) - 1 THEN d.edit.size
                                                               ELSE d.heap[p].size
<1>1. /\ d \in Buffers /\ d.size \in 0 .. Capacity
      /\ d.live = d.absolute .. linebuf_end(d) - 1
  BY DEF WellFormed
<1>2. /\ d.size \in Nat /\ d.absolute \in Nat /\ d.live \in SUBSET Blocks
      /\ Capacity \in Nat \ {0} /\ d.lines \in [Slots -> Nat]
  BY <1>1, LinebufAssumption DEF Buffers
<1>3. CASE d.size = 0
  <2>1. f = d
    BY <1>3 DEF FrozenLast
  <2>2. 0 .. d.size - 1 = {} /\ d.live = {}
    BY <1>1, <1>2, <1>3 DEF linebuf_end
  <2> QED BY <1>1, <2>1, <2>2
<1>4. CASE d.size > 0
  <2> DEFINE last == linebuf_nth_to_index(d, d.size - 1)
  <2>1. f = FreezeLast(d)
    BY <1>4 DEF FrozenLast
  <2>2. d.edit.raw = linebuf_end(d) - 1
    BY <1>4 DEF WellFormed
  <2>3. /\ f \in Buffers
        /\ f.start = d.start /\ f.size = d.size /\ f.absolute = d.absolute
        /\ f.live = d.live
        /\ f.absolute_rendered = d.absolute_rendered
        /\ f.total_rendered = d.total_rendered
        /\ f.lines = [d.lines EXCEPT ![last] = d.edit.raw]
        /\ \A p \in Blocks :
              /\ f.heap[p].render_lines = d.heap[p].render_lines
              /\ f.heap[p].size = IF p = d.edit.raw THEN d.edit.size
                                                    ELSE d.heap[p].size
    BY <1>4, <2>1, FreezeFields
  <2>4. ASSUME NEW n \in 0 .. d.size - 1
        PROVE  f.lines[linebuf_nth_to_index(d, n)] = d.absolute + n
    <3>1. n \in 0 .. Capacity - 1 /\ d.size - 1 \in 0 .. Capacity - 1
      BY <1>1, <1>2, <1>4
    <3>2. linebuf_nth_to_index(d, n) \in Slots
      BY <1>1, <3>1, IndexValue
    <3>3. CASE n = d.size - 1
      BY <1>2, <2>2, <2>3, <3>2, <3>3 DEF linebuf_end
    <3>4. CASE n # d.size - 1
      <4>1. linebuf_nth_to_index(d, n) # last
        BY <1>1, <3>1, <3>4, SlotsDiffer
      <4>2. n \in 0 .. d.size - 2
        BY <1>2, <3>4
      <4>3. d.lines[linebuf_nth_to_index(d, n)] = d.absolute + n
        BY <4>2 DEF WellFormed
      <4> QED BY <1>2, <2>3, <3>2, <4>1, <4>3
    <3> QED BY <3>3, <3>4
  <2> QED BY <1>2, <2>2, <2>3, <2>4
<1> QED BY <1>1, <1>2, <1>3, <1>4

(* Starting a line below the frozen ones: the ring. *)
LEMMA AppendRing ==
    ASSUME NEW d, WellFormed(d), d.size < Capacity, linebuf_end(d) \in Blocks,
           NEW q, q = OpenLine(FrozenLast(d))
    PROVE  /\ WellFormed(q)
           /\ q.size = d.size + 1 /\ q.absolute = d.absolute
           /\ q.edit = stredit_init(linebuf_end(d))
           /\ q.absolute_rendered = d.absolute_rendered
           /\ q.total_rendered = d.total_rendered
           /\ q.total_size_except_last = FrozenLast(d).total_size_except_last
           /\ q.heap[linebuf_end(d)] = Zeroed
           /\ \A p \in d.live :
                 /\ q.heap[p].render_lines = d.heap[p].render_lines
                 /\ q.heap[p].size = IF p = linebuf_end(d) - 1 THEN d.edit.size
                                                               ELSE d.heap[p].size
<1> DEFINE e == linebuf_end(d)
<1>1. /\ d \in Buffers /\ d.size \in 0 .. Capacity
      /\ d.live = d.absolute .. e - 1
  BY DEF WellFormed
<1>2. /\ d.size \in 0 .. Capacity - 1 /\ d.absolute \in Nat /\ d.live \in SUBSET Blocks
      /\ Capacity \in Nat \ {0} /\ d.start \in Slots
  <2>1. d.absolute \in Nat /\ d.live \in SUBSET Blocks /\ d.start \in Slots
    BY <1>1 DEF Buffers
  <2> QED BY <1>1, <2>1, LinebufAssumption
<1>3. PICK f : f = FrozenLast(d)
  OBVIOUS
<1>4. /\ f \in Buffers
      /\ f.start = d.start /\ f.size = d.size /\ f.absolute = d.absolute
      /\ f.live = d.live
      /\ f.absolute_rendered = d.absolute_rendered
      /\ f.total_rendered = d.total_rendered
      /\ \A n \in 0 .. d.size - 1 :
            f.lines[linebuf_nth_to_index(d, n)] = d.absolute + n
      /\ \A p \in d.live :
            /\ f.heap[p].render_lines = d.heap[p].render_lines
            /\ f.heap[p].size = IF p = e - 1 THEN d.edit.size ELSE d.heap[p].size
  BY <1>3, FrozenFields
<1>5. linebuf_end(f) = e
  BY <1>4 DEF linebuf_end
<1>6. /\ q \in Buffers
      /\ q.start = f.start /\ q.size = f.size + 1 /\ q.absolute = f.absolute
      /\ q.live = f.live \cup {e}
      /\ q.edit = stredit_init(e)
      /\ q.absolute_rendered = f.absolute_rendered
      /\ q.total_rendered = f.total_rendered
      /\ q.total_size_except_last = f.total_size_except_last
      /\ q.lines = [f.lines EXCEPT ![linebuf_nth_to_index(f, f.size)] = NULL]
      /\ q.heap = [f.heap EXCEPT ![e] = Zeroed]
  <2>1. f.size \in 0 .. Capacity - 1
    BY <1>2, <1>4
  <2>2. f \in Buffers /\ linebuf_end(f) \in Blocks /\ q = OpenLine(f)
    BY <1>3, <1>4, <1>5
  <2>3. /\ q \in Buffers
        /\ q.start = f.start /\ q.size = f.size + 1 /\ q.absolute = f.absolute
        /\ q.live = f.live \cup {linebuf_end(f)}
        /\ q.edit = stredit_init(linebuf_end(f))
        /\ q.absolute_rendered = f.absolute_rendered
        /\ q.total_rendered = f.total_rendered
        /\ q.total_size_except_last = f.total_size_except_last
        /\ q.lines = [f.lines EXCEPT ![linebuf_nth_to_index(f, f.size)] = NULL]
        /\ q.heap = [f.heap EXCEPT ![linebuf_end(f)] = Zeroed]
    BY <2>1, <2>2, OpenFields
  <2> QED BY <1>5, <2>3
<1>7. \A n : /\ linebuf_nth_to_index(q, n) = linebuf_nth_to_index(d, n)
             /\ linebuf_nth_to_index(f, n) = linebuf_nth_to_index(d, n)
  BY <1>4, <1>6 DEF linebuf_nth_to_index
<1>8. linebuf_end(q) = e + 1
  BY <1>2, <1>4, <1>6 DEF linebuf_end
<1>9. f.lines \in [Slots -> Nat] /\ f.heap \in [Blocks -> [size: Nat, render_lines: Nat]]
  BY <1>4 DEF Buffers
<1>10. ASSUME NEW n \in 0 .. q.size - 2
       PROVE  q.lines[linebuf_nth_to_index(q, n)] = q.absolute + n
  <2>1. n \in 0 .. d.size - 1 /\ n \in 0 .. Capacity - 1 /\ n # d.size
    BY <1>2, <1>4, <1>6
  <2>2. linebuf_nth_to_index(d, n) # linebuf_nth_to_index(d, d.size)
    BY <1>1, <1>2, <2>1, SlotsDiffer
  <2>3. f.lines[linebuf_nth_to_index(d, n)] = d.absolute + n
    BY <1>4, <2>1
  <2>4. linebuf_nth_to_index(d, n) \in Slots
    BY <1>1, <2>1, IndexValue
  <2> QED BY <1>4, <1>6, <1>7, <1>9, <2>2, <2>3, <2>4
<1>11. q.lines[linebuf_nth_to_index(q, q.size - 1)] = NULL
  <2>1. linebuf_nth_to_index(d, d.size) \in Slots
    BY <1>1, <1>2, IndexValue
  <2>2. q.size - 1 = d.size
    BY <1>2, <1>4, <1>6
  <2> QED BY <1>4, <1>6, <1>7, <1>9, <2>1, <2>2
<1>12. q.edit.raw = linebuf_end(q) - 1
  BY <1>2, <1>6, <1>8 DEF stredit_init, linebuf_end
<1>13. q.live = q.absolute .. linebuf_end(q) - 1 /\ q.size \in 0 .. Capacity
  <2>1. e \in Nat /\ d.absolute <= e
    BY <1>2 DEF linebuf_end
  <2>2. (d.absolute .. e - 1) \cup {e} = d.absolute .. e
    BY <1>2, <2>1
  <2>3. q.size \in 0 .. Capacity
    BY <1>2, <1>4, <1>6
  <2> QED BY <1>1, <1>4, <1>6, <1>8, <2>1, <2>2, <2>3
<1>14. WellFormed(q)
  BY <1>6, <1>10, <1>11, <1>12, <1>13 DEF WellFormed
<1>15. ASSUME NEW p \in d.live PROVE q.heap[p] = f.heap[p]
  <2>1. p # e /\ p \in Blocks
    BY <1>1, <1>2 DEF linebuf_end
  <2> QED BY <1>6, <1>9, <2>1
<1>16. q.heap[e] = Zeroed
  BY <1>6, <1>9
<1> QED BY <1>3, <1>4, <1>6, <1>14, <1>15, <1>16

(* Starting a line below the frozen ones: the totals. *)
LEMMA AppendSums ==
    ASSUME NEW d, WellFormed(d), Summed(d), d.size < Capacity, linebuf_end(d) \in Blocks,
           NEW q, q = OpenLine(FrozenLast(d))
    PROVE  Summed(q)
<1> DEFINE e == linebuf_end(d)
           sz == SizesOf(d)  rw == RowsOf(d)
           szq == SizesOf(q) rwq == RowsOf(q)
<1>1. d \in Buffers /\ d.size \in Nat /\ d.absolute \in Nat
      /\ d.edit.size \in Nat
  <2>1. d \in Buffers
    BY DEF WellFormed
  <2>2. d.edit \in [raw: Nat, size: Nat, prefix: Nat, alloc_size: Nat]
    BY <2>1 DEF Buffers
  <2> QED BY <2>1, <2>2 DEF Buffers
<1>2. /\ WellFormed(q)
      /\ q.size = d.size + 1 /\ q.absolute = d.absolute
      /\ q.total_rendered = d.total_rendered
      /\ q.total_size_except_last = FrozenLast(d).total_size_except_last
      /\ q.heap[e] = Zeroed
      /\ \A p \in d.live :
            /\ q.heap[p].render_lines = d.heap[p].render_lines
            /\ q.heap[p].size = IF p = e - 1 THEN d.edit.size ELSE d.heap[p].size
  BY AppendRing
<1>3. ASSUME NEW n \in 0 .. d.size - 1
      PROVE  /\ rwq[n] = rw[n]
             /\ szq[n] = IF n = d.size - 1 THEN d.edit.size ELSE sz[n]
  <2>1. d.absolute + n \in d.live
    BY NthLine
  <2>2. n \in 0 .. q.size - 1
    BY <1>1, <1>2
  <2>3. /\ rwq[n] = q.heap[d.absolute + n].render_lines
        /\ szq[n] = q.heap[d.absolute + n].size
    BY <1>2, <2>2, Headers
  <2>4. /\ rw[n] = d.heap[d.absolute + n].render_lines
        /\ sz[n] = d.heap[d.absolute + n].size
    BY Headers
  <2>5. d.absolute + n = e - 1 <=> n = d.size - 1
    BY <1>1 DEF linebuf_end
  <2> QED BY <1>2, <2>1, <2>3, <2>4, <2>5
<1>4. rwq[d.size] = 0
  <2>1. d.size \in 0 .. q.size - 1 /\ q.absolute + d.size = e
    BY <1>1, <1>2 DEF linebuf_end
  <2>2. rwq[d.size] = q.heap[q.absolute + d.size].render_lines
    BY <1>2, <2>1, Headers
  <2> QED BY <1>2, <2>1, <2>2 DEF Zeroed
<1>5. /\ d.total_rendered = SumTo(rw, d.size)
      /\ d.total_size_except_last = SumTo(sz, max(0, d.size - 1))
  BY DEF Summed
<1>6. \A n \in 0 .. d.size : SumTo(sz, n) \in Int /\ SumTo(rw, n) \in Int
  BY Headers
<1> HIDE DEF sz, rw, szq, rwq
<1>7. q.total_rendered = SumTo(rwq, q.size)
  <2>1. SumTo(rwq, d.size) = SumTo(rw, d.size)
    <3>1. \A k \in 0 .. d.size - 1 : rwq[k] = rw[k]
      BY <1>3
    <3> QED BY <1>1, <3>1, SumEqual
  <2>2. SumTo(rwq, d.size + 1) = SumTo(rwq, d.size) + rwq[d.size]
    BY <1>1, SumNext
  <2>3. SumTo(rw, d.size) \in Int
    BY <1>1, <1>6
  <2> QED BY <1>2, <1>4, <1>5, <2>1, <2>2, <2>3
<1>8. q.total_size_except_last = SumTo(szq, d.size)
  <2>1. CASE d.size = 0
    <3>1. SumTo(szq, 0) = 0 /\ SumTo(sz, 0) = 0 /\ max(0, d.size - 1) = 0
      BY <2>1, SumEmpty DEF max
    <3>2. q.total_size_except_last = d.total_size_except_last
      BY <1>2, <2>1 DEF FrozenLast
    <3> QED BY <1>5, <2>1, <3>1, <3>2
  <2>2. CASE d.size # 0
    <3>1. d.size - 1 \in Nat /\ max(0, d.size - 1) = d.size - 1 /\ d.size > 0
          /\ (d.size - 1) + 1 = d.size /\ d.size - 1 \in 0 .. d.size - 1
      BY <1>1, <2>2 DEF max
    <3>2. q.total_size_except_last = d.total_size_except_last + d.edit.size
      BY <1>2, <3>1, FreezeFields DEF FrozenLast
    <3>3. SumTo(szq, d.size) = SumTo(szq, d.size - 1) + szq[d.size - 1]
      <4>1. SumTo(szq, (d.size - 1) + 1) = SumTo(szq, d.size - 1) + szq[d.size - 1]
        BY <3>1, SumNext
      <4> QED BY <3>1, <4>1
    <3>4. SumTo(szq, d.size - 1) = SumTo(sz, d.size - 1)
      <4>1. \A k \in 0 .. (d.size - 1) - 1 : szq[k] = sz[k]
        BY <1>1, <1>3
      <4> QED BY <3>1, <4>1, SumEqual
    <3>5. szq[d.size - 1] = d.edit.size
      BY <1>3, <3>1
    <3> QED BY <1>5, <3>1, <3>2, <3>3, <3>4, <3>5
  <2> QED BY <2>1, <2>2
<1>9. max(0, q.size - 1) = d.size
  BY <1>1, <1>2 DEF max
<1> QED BY <1>7, <1>8, <1>9 DEF Summed, szq, rwq

(* The lines that recycling leaves are as they were. *)
LEMMA RecycleKeeps ==
    ASSUME NEW b, WellFormed(b), Summed(b), NEW count \in Int
    PROVE  \A p \in linebuf_recycle_oldest_lines(b, count).live :
               /\ p \in b.live
               /\ linebuf_recycle_oldest_lines(b, count).heap[p] = b.heap[p]
<1>1. PICK r : r = linebuf_recycle_oldest_lines(b, count)
  OBVIOUS
<1>2. \A p \in r.live : p \in b.live /\ r.heap[p] = b.heap[p]
  BY <1>1, Recycle
<1> QED BY <1>1, <1>2

(* linebuf_newline(), given room for one more block. *)
LEMMA Newline ==
    ASSUME NEW b, WellFormed(b), Summed(b), linebuf_end(b) <= MaxLines,
           NEW q, q = linebuf_newline(b)
    PROVE  /\ WellFormed(q) /\ Summed(q)
           /\ q.size > 0
           /\ q.absolute >= b.absolute
           /\ q.absolute = b.absolute + max(0, b.size - Capacity + 1)
           /\ linebuf_end(q) = linebuf_end(b) + 1
           /\ q.edit = stredit_init(linebuf_end(b))
           /\ q.absolute_rendered = b.absolute_rendered
           /\ q.heap[linebuf_end(b)] = Zeroed
           /\ \A p \in q.live \ {linebuf_end(b)} :
                 /\ p \in b.live
                 /\ q.heap[p].render_lines = b.heap[p].render_lines
                 /\ q.heap[p].size = IF p = linebuf_end(b) - 1 THEN b.edit.size
                                                               ELSE b.heap[p].size
<1> DEFINE e == linebuf_end(b)
<1>1. b \in Buffers /\ b.size \in 0 .. Capacity
  BY DEF WellFormed
<1>2. /\ b.size \in Nat /\ b.absolute \in Nat \ {0} /\ Capacity \in Nat \ {0}
      /\ MaxLines \in Nat
  BY <1>1, LinebufAssumption DEF Buffers
<1>3. PICK d : d = linebuf_recycle_oldest_lines(b, b.size - Capacity + 1)
  OBVIOUS
<1>4. /\ WellFormed(d) /\ Summed(d)
      /\ d.edit = b.edit
      /\ d.size = b.size - max(0, min(b.size - Capacity + 1, b.size))
      /\ d.absolute = b.absolute + max(0, min(b.size - Capacity + 1, b.size))
      /\ d.absolute_rendered = b.absolute_rendered
      /\ \A p \in d.live : p \in b.live /\ d.heap[p] = b.heap[p]
  <2>1. b.size - Capacity + 1 \in Int
    BY <1>2
  <2> QED BY <1>3, <2>1, Recycle, SMTT(40)
<1>5. /\ linebuf_end(d) = e /\ d.size < Capacity /\ d.absolute >= b.absolute
      /\ d.size \in Nat /\ d.absolute \in Nat
  BY <1>1, <1>2, <1>4 DEF linebuf_end, max, min
<1>6. e \in Blocks /\ e \in Nat
  BY <1>2 DEF linebuf_end, Blocks
<1>7. q = OpenLine(FrozenLast(d))
  BY <1>3 DEF linebuf_newline, FrozenLast
<1>8. /\ WellFormed(q)
      /\ q.size = d.size + 1 /\ q.absolute = d.absolute
      /\ q.edit = stredit_init(e)
      /\ q.absolute_rendered = d.absolute_rendered
      /\ q.heap[e] = Zeroed
      /\ \A p \in d.live :
            /\ q.heap[p].render_lines = d.heap[p].render_lines
            /\ q.heap[p].size = IF p = e - 1 THEN d.edit.size ELSE d.heap[p].size
  BY <1>4, <1>5, <1>6, <1>7, AppendRing
<1>9. Summed(q)
  BY <1>4, <1>5, <1>6, <1>7, AppendSums
<1>10. /\ q.size > 0 /\ q.absolute >= b.absolute /\ linebuf_end(q) = e + 1
       /\ q.absolute = b.absolute + max(0, b.size - Capacity + 1)
  BY <1>1, <1>2, <1>4, <1>5, <1>8 DEF linebuf_end, max, min
<1>11. q.live \ {e} = d.live
  <2>1. q.live = q.absolute .. (e + 1) - 1 /\ d.live = d.absolute .. e - 1
    BY <1>4, <1>5, <1>8, <1>10 DEF WellFormed
  <2> QED BY <1>5, <1>6, <1>8, <2>1
<1> QED BY <1>4, <1>8, <1>9, <1>10, <1>11

(* linebuf_clean_backlog(): the loop drops the fewest lines that leave a text
   within the backlog size, or all but the last. *)
LEMMA CleanBacklog ==
    ASSUME NEW b, WellFormed(b), Summed(b), b.size > 0,
           NEW r, r = linebuf_clean_backlog(b)
    PROVE  \E m \in 0 .. b.size - 1 :
             /\ r = linebuf_recycle_oldest_lines(b, m)
             /\ m = b.size - 1 \/ BytesWithout(b, m) <= BacklogSize
             /\ \A k \in 0 .. m - 1 : ~(BytesWithout(b, k) <= BacklogSize)
<1> DEFINE exits == {m \in 0 .. b.size - 1 :
                       m = b.size - 1 \/ BytesWithout(b, m) <= BacklogSize}
           m == CHOOSE m \in exits : \A k \in exits : m <= k
<1>1. b.size \in Nat
  BY DEF WellFormed, Buffers
<1>2. r = linebuf_recycle_oldest_lines(b, m)
  BY <1>1 DEF linebuf_clean_backlog
<1>3. m \in exits /\ \A k \in exits : m <= k
  <2>1. b.size - 1 \in exits /\ exits \in SUBSET Nat
    BY <1>1
  <2> HIDE DEF exits
  <2>2. \E x \in exits : \A y \in exits : x <= y
    BY <2>1, LeastNat
  <2> QED BY <2>2
<1> HIDE DEF m
<1>4. \A k \in 0 .. m - 1 : ~(BytesWithout(b, k) <= BacklogSize)
  BY <1>1, <1>3
<1> QED BY <1>2, <1>3, <1>4

(* console_newline() and the end of console_clear(): what NewlineBuf leaves. *)
LEMMA NewlineAndClean ==
    ASSUME NEW b, WellFormed(b), Summed(b), linebuf_end(b) <= MaxLines,
           NEW q, q = NewlineBuf(b)
    PROVE  /\ WellFormed(q) /\ Summed(q)
           /\ q.size > 0
           /\ q.absolute >= b.absolute
           /\ linebuf_end(q) = linebuf_end(b) + 1
           /\ q.edit = stredit_init(linebuf_end(b))
           /\ q.absolute_rendered = b.absolute_rendered
           /\ q.size = 1 \/ q.total_size_except_last <= BacklogSize
           /\ \A p \in q.live \ {linebuf_end(b)} :
                 /\ p \in b.live
                 /\ q.heap[p].render_lines = b.heap[p].render_lines
                 /\ q.heap[p].size = IF p = linebuf_end(b) - 1 THEN b.edit.size
                                                               ELSE b.heap[p].size
<1> DEFINE e == linebuf_end(b)
<1>1. PICK n : n = linebuf_newline(b)
  OBVIOUS
<1>2. /\ WellFormed(n) /\ Summed(n) /\ n.size > 0
      /\ n.absolute >= b.absolute /\ linebuf_end(n) = e + 1
      /\ n.edit = stredit_init(e)
      /\ n.absolute_rendered = b.absolute_rendered
      /\ \A p \in n.live \ {e} :
            /\ p \in b.live
            /\ n.heap[p].render_lines = b.heap[p].render_lines
            /\ n.heap[p].size = IF p = e - 1 THEN b.edit.size ELSE b.heap[p].size
  BY <1>1, Newline
<1>3. q = linebuf_clean_backlog(n)
  BY <1>1 DEF NewlineBuf
<1>4. PICK m \in 0 .. n.size - 1 :
        /\ q = linebuf_recycle_oldest_lines(n, m)
        /\ m = n.size - 1 \/ BytesWithout(n, m) <= BacklogSize
  BY <1>2, <1>3, CleanBacklog
<1>5. /\ n.size \in Nat /\ n.absolute \in Nat /\ n.edit.size = 0
      /\ n.total_size_except_last \in Int /\ b.absolute \in Nat
  <2>1. n.edit.size = 0
    BY <1>2 DEF stredit_init
  <2>2. n \in Buffers /\ b \in Buffers
    BY <1>2 DEF WellFormed
  <2>3. b.absolute \in Nat
    BY <2>2 DEF Buffers
  <2>4. n.size \in Nat /\ n.absolute \in Nat /\ n.total_size_except_last \in Int
    BY <2>2 DEF Buffers
  <2> QED BY <2>1, <2>3, <2>4
<1>6. /\ WellFormed(q) /\ Summed(q) /\ q.edit = n.edit
      /\ q.size = n.size - max(0, min(m, n.size))
      /\ q.absolute = n.absolute + max(0, min(m, n.size))
      /\ q.absolute_rendered = n.absolute_rendered
      /\ q.total_size_except_last =
            n.total_size_except_last - SumTo(SizesOf(n), max(0, min(m, n.size - 1)))
      /\ \A p \in q.live : p \in n.live /\ q.heap[p] = n.heap[p]
  <2>1. m \in Int
    BY <1>5
  <2>2. WellFormed(n) /\ Summed(n) /\ q = linebuf_recycle_oldest_lines(n, m)
    BY <1>2, <1>4
  <2>3. WellFormed(q) /\ Summed(q) /\ q.edit = n.edit
    BY <2>1, <2>2, Recycle
  <2>4. /\ q.size = n.size - max(0, min(m, n.size))
        /\ q.absolute = n.absolute + max(0, min(m, n.size))
    BY <2>1, <2>2, Recycle
  <2>5. /\ q.absolute_rendered = n.absolute_rendered
        /\ q.total_size_except_last =
            n.total_size_except_last - SumTo(SizesOf(n), max(0, min(m, n.size - 1)))
    BY <2>1, <2>2, Recycle
  <2>6. \A p \in q.live : p \in n.live /\ q.heap[p] = n.heap[p]
    BY <2>1, <2>2, RecycleKeeps
  <2> QED BY <2>3, <2>4, <2>5, <2>6
<1>7. max(0, min(m, n.size)) = m /\ max(0, min(m, n.size - 1)) = m
  BY <1>5 DEF max, min
<1>8. SumTo(SizesOf(n), m) \in Int
  BY <1>2, <1>5, Headers
<1>9. q.size > 0 /\ q.absolute >= b.absolute /\ linebuf_end(q) = e + 1
  BY <1>2, <1>5, <1>6, <1>7 DEF linebuf_end
<1>10. q.size = 1 \/ q.total_size_except_last <= BacklogSize
  BY <1>4, <1>5, <1>6, <1>7, <1>8 DEF BytesWithout
<1> QED BY <1>2, <1>6, <1>9, <1>10

-----------------------------------------------------------------------------
(* A layout gives every line a number of rows. *)
LEMMA RowsType ==
    ASSUME NEW length \in Nat, NEW columns \in Nat \ {0}
    PROVE  console_fline_update_render_lines(length, columns) \in Nat
<1>1. (length + columns - 1) \in Nat
  OBVIOUS
<1>2. \A x \in Nat : x \div columns \in Nat
  OBVIOUS
<1> QED BY <1>1, <1>2 DEF console_fline_update_render_lines

(* linebuf_update_render(), field by field. *)
LEMMA UpdateRenderFields ==
    ASSUME NEW b, WellFormed(b), b.size > 0, NEW columns \in Nat \ {0}, NEW lazy,
           NEW u, u = linebuf_update_render(b, columns, lazy)
    PROVE  /\ u \in Buffers
           /\ u.lines = b.lines /\ u.edit = b.edit /\ u.live = b.live
           /\ u.start = b.start /\ u.size = b.size /\ u.absolute = b.absolute
           /\ u.total_size_except_last = b.total_size_except_last
           /\ u.absolute_rendered = max(b.absolute_rendered, linebuf_end(b) - 2)
           /\ \A p \in Blocks : u.heap[p].size = b.heap[p].size
           /\ \A a \in b.live :
                 u.heap[a].render_lines =
                   IF a >= LayoutStart(b, lazy)
                     THEN console_fline_update_render_lines(TextLength(b, a), columns)
                     ELSE b.heap[a].render_lines
           /\ \E growth :
                 /\ \A n \in 0 .. b.size - 1 :
                       growth[n] = u.heap[b.absolute + n].render_lines
                                     - b.heap[b.absolute + n].render_lines
                 /\ u.total_rendered = b.total_rendered + SumTo(growth, b.size)
<1> DEFINE start  == LayoutStart(b, lazy)
           relaid == {linebuf_get_nth_line(b, a - b.absolute) :
                        a \in start .. linebuf_end(b) - 1}
           rows(p) == IF p \in relaid
                        THEN console_fline_update_render_lines(TextLength(b, p), columns)
                        ELSE b.heap[p].render_lines
           heap   == [p \in Blocks |-> [size |-> b.heap[p].size,
                                        render_lines |-> rows(p)]]
           growth == [n \in 0 .. b.size - 1 |->
                        rows(linebuf_get_nth_line(b, n)) - RowsOf(b)[n]]
<1>1. b \in Buffers /\ b.live = b.absolute .. linebuf_end(b) - 1
  BY DEF WellFormed
<1>2. /\ b.size \in Nat /\ b.absolute \in Nat
      /\ b.absolute_rendered \in Int /\ b.total_rendered \in Int
      /\ b.heap \in [Blocks -> [size: Nat, render_lines: Nat]]
      /\ b.edit \in [raw: Nat, size: Nat, prefix: Nat, alloc_size: Nat]
      /\ b.live \in SUBSET Blocks
  BY <1>1 DEF Buffers
<1>3. u = [b EXCEPT !.heap = heap,
                    !.total_rendered = @ + SumTo(growth, b.size),
                    !.absolute_rendered = max(@, linebuf_end(b) - 2)]
  BY DEF linebuf_update_render
<1>4. start \in Int /\ start >= b.absolute
  BY <1>2 DEF LayoutStart, max
<1>5. ASSUME NEW a \in b.live PROVE a \in relaid <=> a >= start
  <2>1. \A x \in start .. linebuf_end(b) - 1 :
          linebuf_get_nth_line(b, x - b.absolute) = x
    <3> TAKE x \in start .. linebuf_end(b) - 1
    <3>1. x - b.absolute \in 0 .. b.size - 1
      BY <1>2, <1>4 DEF linebuf_end
    <3>2. linebuf_get_nth_line(b, x - b.absolute) = b.absolute + (x - b.absolute)
      BY <3>1, NthLine
    <3>3. x \in Int
      BY <1>2, <1>4 DEF linebuf_end
    <3> QED BY <1>2, <3>2, <3>3
  <2>2. a >= start => a \in start .. linebuf_end(b) - 1
    BY <1>1, <1>2, <1>4 DEF linebuf_end
  <2> HIDE DEF start
  <2>3. a >= start => a \in relaid
    BY <2>1, <2>2
  <2>4. a \in relaid => a >= start
    BY <1>2, <1>4, <2>1
  <2> QED BY <2>3, <2>4
<1>6. ASSUME NEW p \in Blocks PROVE rows(p) \in Nat
  <2>1. TextLength(b, p) \in Nat
    BY <1>2 DEF TextLength
  <2>2. console_fline_update_render_lines(TextLength(b, p), columns) \in Nat
    BY <2>1, RowsType
  <2>3. b.heap[p].render_lines \in Nat
    BY <1>2
  <2> HIDE DEF relaid
  <2> QED BY <2>2, <2>3
<1>7. heap \in [Blocks -> [size: Nat, render_lines: Nat]]
  <2> HIDE DEF rows
  <2> QED BY <1>2, <1>6
<1>8. \A n \in 0 .. b.size - 1 :
        growth[n] = heap[b.absolute + n].render_lines
                      - b.heap[b.absolute + n].render_lines
  <2> TAKE n \in 0 .. b.size - 1
  <2>1. linebuf_get_nth_line(b, n) = b.absolute + n /\ b.absolute + n \in Blocks
    BY NthLine
  <2>2. RowsOf(b)[n] = b.heap[b.absolute + n].render_lines
    BY Headers
  <2> HIDE DEF rows
  <2> QED BY <2>1, <2>2
<1>9. SumTo(growth, b.size) \in Int
  <2>1. \A n \in 0 .. b.size - 1 : growth[n] \in Int
    <3> TAKE n \in 0 .. b.size - 1
    <3>1. b.absolute + n \in Blocks
      BY NthLine
    <3> HIDE DEF heap, growth
    <3> QED BY <1>2, <1>7, <1>8, <3>1
  <2> HIDE DEF growth
  <2>2. \A k \in 0 .. b.size : SumTo(growth, k) \in Int
    BY <1>2, <2>1, SumInt
  <2> QED BY <1>2, <2>2
<1>10. \A p \in Blocks : heap[p].size = b.heap[p].size /\ heap[p].render_lines = rows(p)
  OBVIOUS
<1>11. max(b.absolute_rendered, linebuf_end(b) - 2) \in Int
       /\ b.total_rendered + SumTo(growth, b.size) \in Int
  BY <1>2, <1>9, SMTT(40) DEF max, linebuf_end
<1>12. ASSUME NEW a \in b.live
       PROVE  heap[a].render_lines =
                   IF a >= start
                     THEN console_fline_update_render_lines(TextLength(b, a), columns)
                     ELSE b.heap[a].render_lines
  <2>1. a \in Blocks
    BY <1>2
  <2> HIDE DEF heap, relaid, start
  <2> QED BY <1>5, <1>10, <2>1
<1> HIDE DEF heap, growth, start, rows
<1>13. u \in Buffers
  BY <1>1, <1>2, <1>3, <1>7, <1>11 DEF Buffers
<1>14. /\ u.lines = b.lines /\ u.edit = b.edit /\ u.live = b.live
       /\ u.start = b.start /\ u.size = b.size /\ u.absolute = b.absolute
       /\ u.total_size_except_last = b.total_size_except_last
       /\ u.absolute_rendered = max(b.absolute_rendered, linebuf_end(b) - 2)
       /\ u.heap = heap
       /\ u.total_rendered = b.total_rendered + SumTo(growth, b.size)
  BY <1>1, <1>3 DEF Buffers
<1> QED BY <1>8, <1>10, <1>12, <1>13, <1>14 DEF start

(* Rendering a frame leaves the ring alone and the totals exact. *)
LEMMA Rendered ==
    ASSUME NEW b, WellFormed(b), Summed(b), b.size > 0,
           NEW columns \in Nat \ {0}, NEW lazy,
           NEW w, w = RenderedBuf(b, columns, lazy)
    PROVE  /\ WellFormed(w) /\ Summed(w)
           /\ w.edit = b.edit /\ w.size = b.size /\ w.absolute = b.absolute
           /\ w.live = b.live
           /\ w.total_size_except_last = b.total_size_except_last
           /\ w.absolute_rendered = max(b.absolute_rendered, linebuf_end(b) - 2)
           /\ \A a \in b.live :
                 /\ w.heap[a].size = IF a = b.edit.raw THEN b.edit.size
                                                       ELSE b.heap[a].size
                 /\ w.heap[a].render_lines =
                      IF a >= LayoutStart(b, lazy)
                        THEN console_fline_update_render_lines(TextLength(b, a), columns)
                        ELSE b.heap[a].render_lines
<1>1. PICK u : u = linebuf_update_render(b, columns, lazy)
  OBVIOUS
<1>2. /\ u \in Buffers
      /\ u.lines = b.lines /\ u.edit = b.edit /\ u.live = b.live
      /\ u.start = b.start /\ u.size = b.size /\ u.absolute = b.absolute
      /\ u.total_size_except_last = b.total_size_except_last
      /\ u.absolute_rendered = max(b.absolute_rendered, linebuf_end(b) - 2)
  BY <1>1, UpdateRenderFields
<1>3. /\ \A p \in Blocks : u.heap[p].size = b.heap[p].size
      /\ \A a \in b.live :
            u.heap[a].render_lines =
              IF a >= LayoutStart(b, lazy)
                THEN console_fline_update_render_lines(TextLength(b, a), columns)
                ELSE b.heap[a].render_lines
  BY <1>1, UpdateRenderFields
<1>4. PICK growth :
        /\ \A n \in 0 .. b.size - 1 :
              growth[n] = u.heap[b.absolute + n].render_lines
                            - b.heap[b.absolute + n].render_lines
        /\ u.total_rendered = b.total_rendered + SumTo(growth, b.size)
  BY <1>1, UpdateRenderFields
<1> DEFINE heap == [u.heap EXCEPT ![b.edit.raw].size = b.edit.size]
<1>5. w = [u EXCEPT !.heap = heap]
  BY <1>1 DEF RenderedBuf
<1>6. /\ u.heap \in [Blocks -> [size: Nat, render_lines: Nat]]
      /\ b.edit \in [raw: Nat, size: Nat, prefix: Nat, alloc_size: Nat]
      /\ u.live \in SUBSET Blocks /\ u.size \in Nat
      /\ u.total_rendered \in Int
  BY <1>2 DEF Buffers
<1>7. heap \in [Blocks -> [size: Nat, render_lines: Nat]]
  BY <1>6
<1>8. \A p \in Blocks :
        /\ heap[p].size = IF p = b.edit.raw THEN b.edit.size ELSE u.heap[p].size
        /\ heap[p].render_lines = u.heap[p].render_lines
  BY <1>6
<1> HIDE DEF heap
<1>9. /\ w \in Buffers /\ w.heap = heap
      /\ w.lines = u.lines /\ w.edit = u.edit /\ w.live = u.live
      /\ w.start = u.start /\ w.size = u.size /\ w.absolute = u.absolute
      /\ w.total_size_except_last = u.total_size_except_last
      /\ w.absolute_rendered = u.absolute_rendered
      /\ w.total_rendered = u.total_rendered
  BY <1>2, <1>5, <1>7 DEF Buffers
<1>10. /\ \A n : linebuf_nth_to_index(w, n) = linebuf_nth_to_index(b, n)
       /\ linebuf_end(w) = linebuf_end(b)
  BY <1>2, <1>9 DEF linebuf_nth_to_index, linebuf_end
<1>11. WellFormed(w)
  BY <1>2, <1>9, <1>10 DEF WellFormed
<1>12. Summed(w)
  <2> DEFINE rw == RowsOf(b)  rww == RowsOf(w)
             sz == SizesOf(b) szw == SizesOf(w)
  <2>1. ASSUME NEW n \in 0 .. b.size - 1
        PROVE  /\ rw[n] \in Int /\ growth[n] \in Int /\ rww[n] = rw[n] + growth[n]
               /\ n # b.size - 1 => szw[n] = sz[n]
    <3>1. b.absolute + n \in Blocks /\ b.absolute + n \in b.live
      BY NthLine
    <3>2. /\ rw[n] = b.heap[b.absolute + n].render_lines /\ rw[n] \in Nat
          /\ sz[n] = b.heap[b.absolute + n].size
      BY Headers
    <3>3. /\ rww[n] = w.heap[b.absolute + n].render_lines /\ rww[n] \in Nat
          /\ szw[n] = w.heap[b.absolute + n].size
      BY <1>2, <1>9, <1>11, Headers
    <3>4. growth[n] = u.heap[b.absolute + n].render_lines
                            - b.heap[b.absolute + n].render_lines
      BY <1>4
    <3>5. w.heap[b.absolute + n].render_lines = u.heap[b.absolute + n].render_lines
      BY <1>8, <1>9, <3>1
    <3>6. rww[n] = rw[n] + growth[n] /\ growth[n] \in Int
      <4> HIDE DEF rw, rww
      <4> QED BY <3>2, <3>3, <3>4, <3>5
    <3>7. n # b.size - 1 => b.absolute + n # b.edit.raw
      <4>1. b.edit.raw = b.absolute + b.size - 1 /\ b.absolute \in Nat /\ b.size \in Nat
        BY DEF WellFormed, Buffers, linebuf_end
      <4> QED BY <4>1
    <3>8. n # b.size - 1 => szw[n] = sz[n]
      <4> HIDE DEF sz, szw
      <4> QED BY <1>3, <1>8, <1>9, <3>1, <3>2, <3>3, <3>7
    <3> QED BY <3>2, <3>6, <3>8
  <2>2. b.size \in Nat /\ max(0, b.size - 1) = b.size - 1 /\ b.size - 1 \in Nat
    BY <1>2, <1>6 DEF max
  <2> HIDE DEF rw, rww, sz, szw
  <2>3. SumTo(rww, b.size) = SumTo(rw, b.size) + SumTo(growth, b.size)
    BY <2>1, <2>2, SumPlus
  <2>4. SumTo(szw, b.size - 1) = SumTo(sz, b.size - 1)
    <3>1. \A k \in 0 .. (b.size - 1) - 1 : szw[k] = sz[k]
      BY <2>1, <2>2
    <3> QED BY <2>2, <3>1, SumEqual
  <2>5. /\ b.total_rendered = SumTo(rw, b.size)
        /\ b.total_size_except_last = SumTo(sz, b.size - 1)
    BY <2>2 DEF Summed, rw, sz
  <2>6. w.total_rendered = SumTo(rww, b.size)
    BY <1>4, <1>9, <2>3, <2>5
  <2>7. w.total_size_except_last = SumTo(szw, b.size - 1)
    BY <1>2, <1>9, <2>4, <2>5
  <2> QED BY <1>2, <1>9, <2>2, <2>6, <2>7 DEF Summed, rww, szw
<1>13. \A a \in b.live :
         /\ w.heap[a].size = IF a = b.edit.raw THEN b.edit.size ELSE b.heap[a].size
         /\ w.heap[a].render_lines =
              IF a >= LayoutStart(b, lazy)
                THEN console_fline_update_render_lines(TextLength(b, a), columns)
                ELSE b.heap[a].render_lines
  BY <1>2, <1>3, <1>6, <1>8, <1>9
<1> QED BY <1>2, <1>9, <1>11, <1>12, <1>13
=============================================================================
