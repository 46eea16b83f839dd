---------------------------- MODULE SimpleBitmap ----------------------------
(***************************************************************************)
(* The bitmaps of src/lib/simple_bitmap.c, with the operations the program *)
(* calls.  A bitmap is a run of map blocks of BlockBits bits, a length in  *)
(* bits, which need not fill the last block, and two counters.  An         *)
(* operation that finds its argument inconsistent prints a message and     *)
(* leaves every bitmap as it was: no caller looks at what it returns.      *)
(***************************************************************************)
EXTENDS Integers, FiniteSets, FiniteSetsExt

CONSTANT BlockBits   \* MAP_BLOCK_BIT

ASSUME BlockAssumption == BlockBits \in Nat \ {0}

\* bits: the indexes of the one bits, the excess ones of the last block too.
Bitmaps(n) == [length : 0 .. n, bits : SUBSET (0 .. n + BlockBits),
               ones : 0 .. n, zeros : 0 .. n]

\* A bitmap whose blocks were never allocated: wiped memory.
NoBlocks == [length |-> 0, bits |-> {}, ones |-> 0, zeros |-> 0]

\* get_bitmap_map_block_number
BlockNumber(n) == (n + BlockBits - 1) \div BlockBits

\* The input check every operation starts with.
Usable(m) == m.length > 0 /\ m.ones + m.zeros = m.length

\* bitmap_count_zeros_and_ones: counts afresh and cleans the edge.
Count(m) ==
  LET inside == {i \in m.bits : i < m.length} IN
  [m EXCEPT !.bits = inside, !.ones = Cardinality(inside),
            !.zeros = m.length - Cardinality(inside)]

\* bitmap_zero, and bitmap_init with the default value 0.
Zeroed(n) == [length |-> n, bits |-> {}, ones |-> 0, zeros |-> n]

\* Plausible slip: a bit that was one already is counted once more.
MutWrite(m, i) ==
  IF ~Usable(m) \/ i >= m.length THEN m
  ELSE [m EXCEPT !.bits = @ \cup {i}, !.ones = @ + 1,
                 !.zeros = IF @ = 0 THEN 0 ELSE @ - 1]

\* bitmap_write of a one: the counters follow the bit.
Write(m, i) ==
  IF ~Usable(m) \/ i >= m.length \/ i \in m.bits THEN m
  ELSE [m EXCEPT !.bits = @ \cup {i}, !.ones = @ + 1, !.zeros = @ - 1]

\* bitmap_write of a zero.
Clear(m, i) ==
  IF ~Usable(m) \/ i >= m.length \/ i \notin m.bits THEN m
  ELSE [m EXCEPT !.bits = @ \ {i}, !.ones = @ - 1, !.zeros = @ + 1]

\* bitmap_and and bitmap_or into m: only the blocks both have are touched.
Shared(m, n) == Min({BlockNumber(m.length), BlockNumber(n.length)}) * BlockBits

And(n, m) ==
  IF ~Usable(n) \/ ~Usable(m) THEN m
  ELSE Count([m EXCEPT !.bits = {i \in @ : i < Shared(m, n) => i \in n.bits}])

Or(n, m) ==
  IF ~Usable(n) \/ ~Usable(m) THEN m
  ELSE Count([m EXCEPT !.bits = @ \cup {i \in n.bits : i < Shared(m, n)}])

\* bitmap_copy without truncation: a longer source is refused.
Copy(src, dst) ==
  IF ~Usable(src) \/ ~Usable(dst) \/ src.length > dst.length THEN dst
  ELSE Count([dst EXCEPT !.bits = {i \in src.bits : i < src.length}])

\* bitmap_grow with zeros, bitmap_shrink: same length or no length is refused.
Grow(m, n) ==
  IF ~Usable(m) \/ n <= m.length THEN m
  ELSE Count([m EXCEPT !.length = n, !.bits = {i \in @ : i < m.length}])

Shrink(m, n) ==
  IF ~Usable(m) \/ n = 0 \/ n >= m.length THEN m
  ELSE Count([m EXCEPT !.length = n, !.bits = {i \in @ : i < n}])

\* bitmap_first_one_bit_index from a bit on; m.length when there is none.
FirstOne(m, skip) == Min({i \in m.bits : i >= skip} \cup {m.length})

\* The loop every user of a bitmap writes: as many times as the counter says,
\* the first one bit after the last.
Places(m) ==
  LET at[k \in 0 .. m.ones] ==
        IF k = 0 THEN FirstOne(m, 0) ELSE FirstOne(m, at[k - 1] + 1)
  IN  at

Visited(m) == [k \in 1 .. m.ones |-> Places(m)[k - 1]]

\* Every bitmap, however it was grown, cut and laid over others, counts its
\* one bits exactly and has none beyond its length: the loops over a bitmap
\* run as often as the counter says, and read past the end otherwise.
WellCounted(m) ==
  /\ m.ones = Cardinality(m.bits)
  /\ m.zeros = m.length - m.ones
  /\ m.bits \subseteq 0 .. m.length - 1
=============================================================================
