-------------------------- MODULE ChildSearchProofs --------------------------
(***************************************************************************)
(* Proofs about the search for a child by its name, for any names, any     *)
(* number of entries and any block size: every operation on a bitmap       *)
(* leaves exact counters, the loop from one bit to one bit visits each     *)
(* once, the look-up in the existence matrix misses no array that holds a  *)
(* part as long as no allocation has failed, and whichever list the search *)
(* goes through, it finds the same children.                               *)
(***************************************************************************)
EXTENDS ChildSearch, FiniteSetTheorems, WellFoundedInduction, SequenceTheorems, TLAPS

-----------------------------------------------------------------------------
(* Facts about numbers the proofs rest on                                  *)

\* A non-empty set of natural numbers has a least element.
LEMMA LeastElement ==
  ASSUME NEW T, T \subseteq Nat, T # {}
  PROVE  \E m \in T : \A k \in T : m <= k
<1>1. PICK m \in T : \A k \in T : <<k, m>> \notin OpToRel(<, Nat)
  BY NatLessThanWellFounded, WFMin
<1>2. ASSUME NEW k \in T, k < m
      PROVE  FALSE
  <2>1. <<k, m>> \in OpToRel(<, Nat)
    BY <1>2 DEF OpToRel
  <2>2. QED
    BY <1>1, <2>1
<1>3. \A k \in T : ~(k < m)
  BY <1>2
<1>4. \A k \in T : k \in Nat /\ m \in Nat
  OBVIOUS
<1>5. \A k \in T : m <= k
  BY <1>3, <1>4
<1>6. QED
  BY <1>5

\* A set that has 0 and the successor of each of its numbers has them all.
LEMMA SetInduction ==
  ASSUME NEW S, 0 \in S, \A n \in Nat : n \in S => n + 1 \in S
  PROVE  Nat \subseteq S
<1>1. SUFFICES ASSUME Nat \ S # {}
               PROVE  FALSE
  OBVIOUS
<1>2. PICK m \in Nat \ S : \A k \in Nat \ S : m <= k
  BY <1>1, LeastElement
<1>3. m - 1 \in Nat /\ m - 1 \in S
  BY <1>2
<1>4. QED
  BY <1>2, <1>3

\* A bitmap with exact counters.
Proper(m) ==
  /\ m \in [length : Nat, bits : SUBSET Nat, ones : Nat, zeros : Nat]
  /\ WellCounted(m)

\* There are n indexes before n.
LEMMA IndexesBefore ==
  ASSUME NEW n \in Nat
  PROVE  IsFiniteSet(0 .. n - 1) /\ Cardinality(0 .. n - 1) = n
<1>1. n - 1 \in Int /\ 0 \in Int
  OBVIOUS
<1>2. /\ IsFiniteSet(0 .. n - 1)
      /\ Cardinality(0 .. n - 1) = IF 0 > n - 1 THEN 0 ELSE (n - 1) - 0 + 1
  <2> DEFINE b == n - 1
  <2> HIDE DEF b
  <2>1. b \in Int
    BY <1>1 DEF b
  <2>2. IsFiniteSet(0 .. b) /\ Cardinality(0 .. b) = IF 0 > b THEN 0 ELSE b - 0 + 1
    BY <2>1, <1>1, FS_Interval
  <2>3. QED
    BY <2>2 DEF b
<1>3. QED
  BY <1>2

\* Its one bits are finitely many, all before its length.
LEMMA BitsFinite ==
  ASSUME NEW m, Proper(m)
  PROVE  /\ IsFiniteSet(m.bits) /\ Cardinality(m.bits) = m.ones
         /\ \A i \in m.bits : i \in Nat /\ i < m.length
<1>1. m.bits \in SUBSET (0 .. m.length - 1) /\ m.length \in Nat
  BY DEF Proper, WellCounted
<1>2. IsFiniteSet(0 .. m.length - 1)
  BY <1>1, FS_Interval
<1>3. IsFiniteSet(m.bits)
  BY <1>1, <1>2, FS_Subset
<1>4. QED
  BY <1>1, <1>3 DEF Proper, WellCounted

\* Counting afresh makes the counters exact whatever bits were set.
LEMMA CountProper ==
  ASSUME NEW m \in [length : Nat, bits : SUBSET Nat, ones : Nat, zeros : Nat]
  PROVE  /\ Proper(Count(m)) /\ Count(m).length = m.length
         /\ Count(m).bits = {i \in m.bits : i < m.length}
<1> DEFINE inside == {i \in m.bits : i < m.length}
<1>1. inside \in SUBSET (0 .. m.length - 1)
  OBVIOUS
<1>2. /\ IsFiniteSet(0 .. m.length - 1)
      /\ Cardinality(0 .. m.length - 1) = m.length
  <2>1. m.length \in Nat
    OBVIOUS
  <2>2. QED
    BY <2>1, IndexesBefore
<1>3. /\ IsFiniteSet(inside) /\ Cardinality(inside) <= m.length
      /\ Cardinality(inside) \in Nat
  BY <1>1, <1>2, FS_Subset, FS_CardinalityType
<1>4. Count(m) = [length |-> m.length, bits |-> inside, ones |-> Cardinality(inside),
                  zeros |-> m.length - Cardinality(inside)]
  <2> HIDE DEF inside
  <2>1. Count(m) = [m EXCEPT !.bits = inside, !.ones = Cardinality(inside),
                             !.zeros = m.length - Cardinality(inside)]
    BY DEF Count, inside
  <2>2. QED
    BY <2>1
<1> HIDE DEF inside
<1>5. Proper(Count(m))
  BY <1>1, <1>3, <1>4 DEF Proper, WellCounted
<1>6. QED
  BY <1>4, <1>5 DEF inside

-----------------------------------------------------------------------------
(* The operations keep the counters exact                                  *)

\* A new bitmap of zeros, and wiped memory, count exactly.
LEMMA ZeroedProper ==
  ASSUME NEW n \in Nat
  PROVE  Proper(Zeroed(n)) /\ Proper(NoBlocks)
BY FS_EmptySet DEF Zeroed, NoBlocks, Proper, WellCounted

\* Setting a bit, set or not, inside or not, leaves the counters exact.
LEMMA WriteProper ==
  ASSUME NEW m, Proper(m), NEW i \in Nat
  PROVE  Proper(Write(m, i))
<1>1. CASE ~Usable(m) \/ i >= m.length \/ i \in m.bits
  BY <1>1 DEF Write
<1>2. CASE ~(~Usable(m) \/ i >= m.length \/ i \in m.bits)
  <2>1. Write(m, i) = [m EXCEPT !.bits = @ \cup {i}, !.ones = @ + 1, !.zeros = @ - 1]
    BY <1>2 DEF Write
  <2>2. /\ Cardinality(m.bits \cup {i}) = m.ones + 1
        /\ IsFiniteSet(m.bits \cup {i})
    BY <1>2, BitsFinite, FS_AddElement
  <2>3. m.bits \cup {i} \in SUBSET (0 .. m.length - 1)
    BY <1>2 DEF Proper, WellCounted
  <2>4. m.ones + 1 <= m.length
    <3>1. m.length \in Nat
      BY DEF Proper
    <3>2. IsFiniteSet(0 .. m.length - 1) /\ Cardinality(0 .. m.length - 1) = m.length
      BY <3>1, IndexesBefore
    <3>3. QED
      BY <2>2, <2>3, <3>2, FS_Subset
  <2>5. m.bits \cup {i} \in SUBSET Nat /\ m.ones + 1 \in Nat /\ m.zeros - 1 \in Nat
    BY <2>4 DEF Proper, WellCounted
  <2>6. Write(m, i) = [length |-> m.length, bits |-> m.bits \cup {i},
                       ones |-> m.ones + 1, zeros |-> m.zeros - 1]
    BY <2>1 DEF Proper
  <2> DEFINE b == m.bits \cup {i}
  <2>7. m.zeros - 1 = m.length - (m.ones + 1) /\ m.length \in Nat
    BY DEF Proper, WellCounted
  <2> HIDE DEF b
  <2>8. QED
    BY <2>2, <2>3, <2>5, <2>6, <2>7 DEF Proper, WellCounted, b
<1>3. QED
  BY <1>1, <1>2

\* So does clearing one.
LEMMA ClearProper ==
  ASSUME NEW m, Proper(m), NEW i \in Nat
  PROVE  Proper(Clear(m, i))
<1>1. CASE ~Usable(m) \/ i >= m.length \/ i \notin m.bits
  BY <1>1 DEF Clear
<1>2. CASE ~(~Usable(m) \/ i >= m.length \/ i \notin m.bits)
  <2>1. Clear(m, i) = [m EXCEPT !.bits = @ \ {i}, !.ones = @ - 1, !.zeros = @ + 1]
    BY <1>2 DEF Clear
  <2>2. /\ Cardinality(m.bits \ {i}) = m.ones - 1
        /\ IsFiniteSet(m.bits \ {i})
    BY <1>2, BitsFinite, FS_RemoveElement
  <2>3. m.ones - 1 \in Nat
    BY <2>2, FS_CardinalityType
  <2>4. Clear(m, i) = [length |-> m.length, bits |-> m.bits \ {i},
                       ones |-> m.ones - 1, zeros |-> m.zeros + 1]
    BY <2>1 DEF Proper
  <2>5. /\ m.zeros + 1 = m.length - (m.ones - 1) /\ m.zeros + 1 \in Nat
        /\ m.length \in Nat
        /\ m.bits \ {i} \in SUBSET (0 .. m.length - 1)
    BY DEF Proper, WellCounted
  <2>6. QED
    BY <2>2, <2>3, <2>4, <2>5 DEF Proper, WellCounted
<1>3. QED
  BY <1>1, <1>2

\* Every operation on a bitmap with exact counters leaves exact counters, the
\* operations over two bitmaps of different lengths and the refused ones too.
\* bitmap_write keeps them one by one, the others count afresh (the return
\* values are never looked at, so the counters must hold in any case).
THEOREM OperationsCountExactly ==
  ASSUME NEW m, Proper(m), NEW k, Proper(k), NEW n \in Nat
  PROVE  /\ Proper(Write(m, n)) /\ Proper(Clear(m, n))
         /\ Proper(And(k, m)) /\ Proper(Or(k, m)) /\ Proper(Copy(k, m))
         /\ Proper(Grow(m, n)) /\ Proper(Shrink(m, n))
<1>0. /\ m \in [length : Nat, bits : SUBSET Nat, ones : Nat, zeros : Nat]
      /\ k \in [length : Nat, bits : SUBSET Nat, ones : Nat, zeros : Nat]
  BY DEF Proper
<1>1. Proper(Write(m, n)) /\ Proper(Clear(m, n))
  BY WriteProper, ClearProper
<1>2. Proper(And(k, m))
  <2> DEFINE c == [m EXCEPT !.bits = {i \in @ : i < Shared(m, k) => i \in k.bits}]
  <2>1. c \in [length : Nat, bits : SUBSET Nat, ones : Nat, zeros : Nat]
    BY <1>0
  <2>2. Proper(Count(c))
    BY <2>1, CountProper
  <2>3. QED
    BY <2>2 DEF And
<1>3. Proper(Or(k, m))
  <2> DEFINE c == [m EXCEPT !.bits = @ \cup {i \in k.bits : i < Shared(m, k)}]
  <2>1. c \in [length : Nat, bits : SUBSET Nat, ones : Nat, zeros : Nat]
    BY <1>0
  <2>2. Proper(Count(c))
    BY <2>1, CountProper
  <2>3. QED
    BY <2>2 DEF Or
<1>4. Proper(Copy(k, m))
  <2> DEFINE c == [m EXCEPT !.bits = {i \in k.bits : i < k.length}]
  <2>1. c \in [length : Nat, bits : SUBSET Nat, ones : Nat, zeros : Nat]
    BY <1>0
  <2>2. Proper(Count(c))
    BY <2>1, CountProper
  <2>3. QED
    BY <2>2 DEF Copy
<1>5. Proper(Grow(m, n))
  <2> DEFINE c == [m EXCEPT !.length = n, !.bits = {i \in @ : i < m.length}]
  <2>1. c \in [length : Nat, bits : SUBSET Nat, ones : Nat, zeros : Nat]
    BY <1>0
  <2>2. Proper(Count(c))
    BY <2>1, CountProper
  <2>3. QED
    BY <2>2 DEF Grow
<1>6. Proper(Shrink(m, n))
  <2> DEFINE c == [m EXCEPT !.length = n, !.bits = {i \in @ : i < n}]
  <2>1. c \in [length : Nat, bits : SUBSET Nat, ones : Nat, zeros : Nat]
    BY <1>0
  <2>2. Proper(Count(c))
    BY <2>1, CountProper
  <2>3. QED
    BY <2>2 DEF Shrink
<1>7. QED
  BY <1>1, <1>2, <1>3, <1>4, <1>5, <1>6

-----------------------------------------------------------------------------
(* The block-wise operations                                               *)

\* The blocks of a bitmap hold all its bits.
LEMMA BlocksHold ==
  ASSUME NEW n \in Nat
  PROVE  /\ BlockNumber(n) \in Nat /\ BlockNumber(n) * BlockBits \in Nat
         /\ n <= BlockNumber(n) * BlockBits
<1>1. BlockBits \in Nat \ {0}
  BY BlockAssumption
<1> DEFINE a == n + BlockBits - 1
           q == a \div BlockBits
<1>2. a \in Nat
  BY <1>1
<1>3. q \in Nat /\ a = q * BlockBits + (a % BlockBits) /\ a % BlockBits \in 0 .. BlockBits - 1
  <2> HIDE DEF a
  <2>1. QED
    BY <1>1, <1>2
<1>4. q * BlockBits \in Nat
  <2> HIDE DEF q
  <2>1. QED
    BY <1>1, <1>3
<1>5. q = BlockNumber(n)
  BY DEF BlockNumber
<1>6. n <= q * BlockBits
  <2> DEFINE p == q * BlockBits
             r == a % BlockBits
  <2>1. p \in Nat /\ a = p + r /\ r \in 0 .. BlockBits - 1
    BY <1>3, <1>4
  <2>2. a = n + BlockBits - 1
    OBVIOUS
  <2> HIDE DEF p, r, a
  <2>3. n <= p
    BY <1>1, <2>1, <2>2
  <2>4. QED
    BY <2>3 DEF p
<1>7. QED
  BY <1>3, <1>4, <1>5, <1>6

\* The shared blocks reach as far as the shorter bitmap.
LEMMA SharedReaches ==
  ASSUME NEW m, Proper(m), NEW k, Proper(k), NEW i \in Nat,
         i < m.length, i < k.length
  PROVE  i < Shared(m, k)
<1>1. m.length \in Nat /\ k.length \in Nat
  BY DEF Proper
<1> DEFINE a == BlockNumber(m.length)
           b == BlockNumber(k.length)
<1>2. /\ a \in Nat /\ m.length <= a * BlockBits /\ a * BlockBits \in Nat
      /\ b \in Nat /\ k.length <= b * BlockBits /\ b * BlockBits \in Nat
  BY <1>1, BlocksHold
<1>3. Min({a, b}) \in {a, b}
  <2> HIDE DEF a, b
  <2>1. \E x \in {a, b} : \A y \in {a, b} : x =< y
    BY <1>2
  <2>2. QED
    BY <2>1 DEF Min
<1>4. Shared(m, k) = Min({a, b}) * BlockBits
  BY DEF Shared
<1> DEFINE c == Min({a, b})
<1>5. CASE c = a
  <2> DEFINE p == a * BlockBits
  <2>1. p \in Nat /\ m.length <= p /\ Shared(m, k) = p
    BY <1>2, <1>4, <1>5
  <2> HIDE DEF p
  <2>2. QED
    BY <1>1, <2>1
<1>6. CASE c = b
  <2> DEFINE p == b * BlockBits
  <2>1. p \in Nat /\ k.length <= p /\ Shared(m, k) = p
    BY <1>2, <1>4, <1>6
  <2> HIDE DEF p
  <2>2. QED
    BY <1>1, <2>1
<1>7. QED
  BY <1>3, <1>5, <1>6

\* A bitmap that has a length is one the operations accept.
LEMMA ProperUsable ==
  ASSUME NEW m, Proper(m), m.length # 0
  PROVE  Usable(m)
<1>1. /\ m.ones \in Nat /\ m.length \in Nat /\ m.zeros = m.length - m.ones
  BY DEF Proper, WellCounted
<1>2. QED
  BY <1>1 DEF Usable

\* Laid block by block over one that is no longer, a bitmap leaves exactly the
\* bits both have; over one that is no shorter, exactly the bits either has:
\* whether the last block is shared does not matter, because no bit is set
\* beyond the length.  The maps of the existence matrix grow one by one, so the
\* look-up combines bitmaps of different lengths.
THEOREM BlockWiseIsExact ==
  ASSUME NEW m, Proper(m), NEW k, Proper(k), m.length # 0, k.length # 0
  PROVE  /\ m.length <= k.length => And(k, m).bits = m.bits \cap k.bits
         /\ k.length <= m.length => Or(k, m).bits = m.bits \cup k.bits
<1>0. /\ m \in [length : Nat, bits : SUBSET Nat, ones : Nat, zeros : Nat]
      /\ k \in [length : Nat, bits : SUBSET Nat, ones : Nat, zeros : Nat]
  BY DEF Proper
<1>1. Usable(m) /\ Usable(k)
  BY ProperUsable
<1>2. /\ \A i \in m.bits : i \in Nat /\ i < m.length
      /\ \A i \in k.bits : i \in Nat /\ i < k.length
  BY BitsFinite
<1>3. ASSUME m.length <= k.length
      PROVE  And(k, m).bits = m.bits \cap k.bits
  <2> DEFINE c == [m EXCEPT !.bits = {i \in @ : i < Shared(m, k) => i \in k.bits}]
  <2>1. And(k, m) = Count(c)
    BY <1>1 DEF And
  <2>2. /\ c \in [length : Nat, bits : SUBSET Nat, ones : Nat, zeros : Nat]
        /\ c.length = m.length
        /\ c.bits = {i \in m.bits : i < Shared(m, k) => i \in k.bits}
    BY <1>0
  <2>3. \A i \in m.bits : i < Shared(m, k)
    BY <1>0, <1>2, <1>3, SharedReaches
  <2>4. Count(c).bits = {i \in c.bits : i < c.length}
    BY <2>2, CountProper
  <2>5. QED
    BY <1>2, <2>1, <2>2, <2>3, <2>4
<1>4. ASSUME k.length <= m.length
      PROVE  Or(k, m).bits = m.bits \cup k.bits
  <2> DEFINE c == [m EXCEPT !.bits = @ \cup {i \in k.bits : i < Shared(m, k)}]
  <2>1. Or(k, m) = Count(c)
    BY <1>1 DEF Or
  <2>2. /\ c \in [length : Nat, bits : SUBSET Nat, ones : Nat, zeros : Nat]
        /\ c.length = m.length
        /\ c.bits = m.bits \cup {i \in k.bits : i < Shared(m, k)}
    BY <1>0
  <2>3. \A i \in k.bits : i < Shared(m, k) /\ i < m.length
    BY <1>0, <1>2, <1>4, SharedReaches
  <2>4. Count(c).bits = {i \in c.bits : i < c.length}
    BY <2>2, CountProper
  <2>5. QED
    BY <1>2, <2>1, <2>2, <2>3, <2>4
<1>5. QED
  BY <1>3, <1>4

-----------------------------------------------------------------------------
(* The loop from one bit to one bit                                        *)

\* The recursion of Places has the solution it asks for.
LEMMA PlacesExist ==
  ASSUME NEW m, m.ones \in Nat
  PROVE  \A k \in 0 .. m.ones :
           Places(m)[k] = IF k = 0 THEN FirstOne(m, 0)
                          ELSE FirstOne(m, Places(m)[k - 1] + 1)
<1> DEFINE Solves(f, n) ==
             f = [k \in 0 .. n |-> IF k = 0 THEN FirstOne(m, 0)
                                   ELSE FirstOne(m, f[k - 1] + 1)]
           S == {n \in Nat : \E f : Solves(f, n)}
<1>1. 0 \in S
  <2> DEFINE f == [k \in 0 .. 0 |-> FirstOne(m, 0)]
  <2>1. Solves(f, 0)
    OBVIOUS
  <2>2. QED
    BY <2>1
<1>2. ASSUME NEW n \in Nat, n \in S
      PROVE  n + 1 \in S
  <2>1. PICK f : Solves(f, n)
    BY <1>2
  <2> DEFINE g == [k \in 0 .. n + 1 |-> IF k = n + 1 THEN FirstOne(m, f[n] + 1)
                                        ELSE f[k]]
  <2>2. ASSUME NEW k \in 0 .. n + 1
        PROVE  g[k] = IF k = 0 THEN FirstOne(m, 0) ELSE FirstOne(m, g[k - 1] + 1)
    <3>1. CASE k = n + 1
      BY <3>1
    <3>2. CASE k \in 0 .. n
      <4>1. f[k] = IF k = 0 THEN FirstOne(m, 0) ELSE FirstOne(m, f[k - 1] + 1)
        BY <2>1, <3>2
      <4>2. g[k] = f[k] /\ (k # 0 => g[k - 1] = f[k - 1])
        BY <3>2
      <4>3. QED
        BY <4>1, <4>2
    <3>3. QED
      BY <3>1, <3>2
  <2>3. Solves(g, n + 1)
    BY <2>2
  <2>4. \E h : Solves(h, n + 1)
    <3> HIDE DEF Solves, g
    <3>1. QED
      BY <2>3
  <2>5. QED
    BY <2>4
<1>3. m.ones \in S
  <2>1. Nat \subseteq S
    <3> HIDE DEF S
    <3>1. QED
      BY <1>1, <1>2, SetInduction
  <2>2. QED
    BY <2>1
<1>4. \E f : Solves(f, m.ones)
  BY <1>3
<1>5. Places(m) = CHOOSE f : Solves(f, m.ones)
  BY DEF Places
<1>6. Solves(Places(m), m.ones)
  <2> HIDE DEF Solves
  <2>1. QED
    BY <1>4, <1>5
<1>7. QED
  BY <1>6

\* While there is a one bit at or after skip, FirstOne returns the first such.
LEMMA FirstOneIs ==
  ASSUME NEW m, Proper(m), NEW skip \in Nat, \E i \in m.bits : i >= skip
  PROVE  /\ FirstOne(m, skip) \in m.bits /\ FirstOne(m, skip) >= skip
         /\ \A i \in m.bits : i >= skip => FirstOne(m, skip) <= i
<1> DEFINE T == {i \in m.bits : i >= skip} \cup {m.length}
<1>1. /\ \A i \in m.bits : i \in Nat /\ i < m.length
      /\ m.length \in Nat
  BY BitsFinite DEF Proper
<1>2. T \subseteq Nat /\ T # {}
  BY <1>1
<1>3. FirstOne(m, skip) = CHOOSE x \in T : \A y \in T : x =< y
  BY DEF FirstOne, Min
<1>4. \E x \in T : \A y \in T : x =< y
  <2> HIDE DEF T
  <2>1. QED
    BY <1>2, LeastElement
<1>5. FirstOne(m, skip) \in T /\ \A y \in T : FirstOne(m, skip) =< y
  <2> HIDE DEF T
  <2>1. QED
    BY <1>3, <1>4
<1> DEFINE x == FirstOne(m, skip)
<1>6. x \in T /\ \A y \in T : x =< y
  BY <1>5
<1>7. PICK i \in m.bits : i >= skip
  OBVIOUS
<1>8. x =< i /\ i < m.length
  BY <1>1, <1>6, <1>7
<1> HIDE DEF x
<1>9. x # m.length
  BY <1>1, <1>6, <1>8
<1>10. QED
  BY <1>6, <1>9 DEF x

\* The one bits up to a place.
UpTo(m, p) == {i \in m.bits : i <= p}

\* After k rounds the loop is at the one bit that has k one bits before it.
LEMMA PlaceOf ==
  ASSUME NEW m, Proper(m), NEW k \in 0 .. m.ones - 1
  PROVE  /\ Places(m)[k] \in m.bits
         /\ Cardinality(UpTo(m, Places(m)[k])) = k + 1
<1> DEFINE at == Places(m)
           S == {j \in Nat : j < m.ones => /\ at[j] \in m.bits
                                           /\ Cardinality(UpTo(m, at[j])) = j + 1}
<1>1. m.ones \in Nat /\ m.bits \in SUBSET Nat
  BY DEF Proper
<1>2. IsFiniteSet(m.bits) /\ Cardinality(m.bits) = m.ones
  BY BitsFinite
<1>3. \A j \in 0 .. m.ones :
        at[j] = IF j = 0 THEN FirstOne(m, 0) ELSE FirstOne(m, at[j - 1] + 1)
  BY <1>1, PlacesExist
<1> HIDE DEF at
<1>4. \A p : IsFiniteSet(UpTo(m, p)) /\ UpTo(m, p) \subseteq m.bits
  BY <1>2, FS_Subset DEF UpTo
<1>5. 0 \in S
  <2>1. SUFFICES ASSUME 0 < m.ones
                 PROVE  at[0] \in m.bits /\ Cardinality(UpTo(m, at[0])) = 1
    OBVIOUS
  <2>2. PICK i \in m.bits : TRUE
    BY <1>2, <2>1, FS_EmptySet
  <2>3. at[0] \in m.bits /\ \A b \in m.bits : at[0] <= b
    <3>1. i >= 0 /\ \A b \in m.bits : b >= 0
      BY <1>1, <2>2
    <3>2. at[0] = FirstOne(m, 0)
      BY <1>1, <1>3
    <3>3. /\ FirstOne(m, 0) \in m.bits
          /\ \A b \in m.bits : b >= 0 => FirstOne(m, 0) <= b
      BY <2>2, <3>1, FirstOneIs
    <3>4. QED
      BY <3>1, <3>2, <3>3
  <2>4. UpTo(m, at[0]) = {at[0]}
    BY <1>1, <2>3 DEF UpTo
  <2>5. QED
    BY <2>3, <2>4, FS_Singleton
<1>6. ASSUME NEW j \in Nat, j \in S
      PROVE  j + 1 \in S
  <2>1. SUFFICES ASSUME j + 1 < m.ones
                 PROVE  /\ at[j + 1] \in m.bits
                        /\ Cardinality(UpTo(m, at[j + 1])) = j + 2
    OBVIOUS
  <2>2. at[j] \in m.bits /\ Cardinality(UpTo(m, at[j])) = j + 1 /\ at[j] \in Nat
    BY <1>1, <1>6, <2>1
  <2>3. PICK i \in m.bits : i > at[j]
    <3>1. UpTo(m, at[j]) # m.bits
      BY <1>1, <1>2, <2>1, <2>2
    <3>2. QED
      BY <1>1, <2>2, <3>1 DEF UpTo
  <2>4. at[j + 1] = FirstOne(m, at[j] + 1)
    BY <1>1, <1>3, <2>1
  <2>5. /\ at[j + 1] \in m.bits /\ at[j + 1] >= at[j] + 1
        /\ \A b \in m.bits : b >= at[j] + 1 => at[j + 1] <= b
    <3>1. at[j] + 1 \in Nat /\ i >= at[j] + 1
      BY <1>1, <2>2, <2>3
    <3>2. QED
      BY <2>3, <2>4, <3>1, FirstOneIs
  <2>6. UpTo(m, at[j + 1]) = UpTo(m, at[j]) \cup {at[j + 1]}
    <3>1. \A b \in m.bits : b <= at[j + 1] <=> b <= at[j] \/ b = at[j + 1]
      BY <1>1, <2>2, <2>5
    <3>2. QED
      BY <2>5, <3>1 DEF UpTo
  <2>7. at[j + 1] \notin UpTo(m, at[j])
    BY <1>1, <2>2, <2>5 DEF UpTo
  <2>8. Cardinality(UpTo(m, at[j + 1])) = (j + 1) + 1
    <3> DEFINE U == UpTo(m, at[j])
               x == at[j + 1]
    <3>1. /\ IsFiniteSet(U) /\ x \notin U /\ Cardinality(U) = j + 1
          /\ UpTo(m, at[j + 1]) = U \cup {x}
      BY <1>4, <2>2, <2>6, <2>7
    <3> HIDE DEF U, x
    <3>2. Cardinality(U \cup {x}) = Cardinality(U) + 1
      BY <3>1, FS_AddElement
    <3>3. QED
      BY <3>1, <3>2
  <2>9. QED
    BY <2>5, <2>8
<1>7. Nat \subseteq S
  <2> HIDE DEF S
  <2>1. QED
    BY <1>5, <1>6, SetInduction
<1>8. k \in S /\ k < m.ones
  BY <1>1, <1>7
<1>9. QED
  BY <1>8 DEF at

\* The loop of every user of a bitmap, as many rounds as number_of_ones, each
\* from the first one bit after the last, visits the one bits in order, each
\* of them once, and nothing else.
THEOREM VisitsTheOnes ==
  ASSUME NEW m, Proper(m)
  PROVE  /\ Visited(m) \in [1 .. m.ones -> m.bits]
         /\ \A i, j \in 1 .. m.ones : i < j => Visited(m)[i] < Visited(m)[j]
         /\ \A b \in m.bits : \E i \in 1 .. m.ones : Visited(m)[i] = b
<1> DEFINE v == Visited(m)
<1>1. m.ones \in Nat /\ m.bits \in SUBSET Nat
  BY DEF Proper
<1>2. IsFiniteSet(m.bits) /\ Cardinality(m.bits) = m.ones
  BY BitsFinite
<1>3. \A i \in 1 .. m.ones : v[i] \in m.bits /\ Cardinality(UpTo(m, v[i])) = i
  <2>1. TAKE i \in 1 .. m.ones
  <2>2. i - 1 \in 0 .. m.ones - 1 /\ v[i] = Places(m)[i - 1]
    BY <1>1 DEF Visited
  <2>3. v[i] \in m.bits /\ Cardinality(UpTo(m, v[i])) = (i - 1) + 1
    BY <2>2, PlaceOf
  <2>4. QED
    BY <2>3
<1>4. v \in [1 .. m.ones -> m.bits]
  <2>1. v = [i \in 1 .. m.ones |-> v[i]]
    BY DEF Visited
  <2> HIDE DEF v
  <2>2. QED
    BY <1>3, <2>1
<1> HIDE DEF v
<1>5. \A i, j \in 1 .. m.ones : i < j => v[i] < v[j]
  <2>1. SUFFICES ASSUME NEW i \in 1 .. m.ones, NEW j \in 1 .. m.ones, i < j,
                        ~(v[i] < v[j])
                 PROVE  FALSE
    OBVIOUS
  <2>2. v[i] \in Nat /\ v[j] \in Nat
    BY <1>1, <1>3
  <2>3. UpTo(m, v[j]) \in SUBSET UpTo(m, v[i])
    BY <1>1, <2>1, <2>2 DEF UpTo
  <2>4. IsFiniteSet(UpTo(m, v[i]))
    BY <1>2, FS_Subset DEF UpTo
  <2>5. Cardinality(UpTo(m, v[j])) <= Cardinality(UpTo(m, v[i]))
    BY <2>3, <2>4, FS_Subset
  <2>6. QED
    BY <1>3, <2>1, <2>5
<1>6. ASSUME NEW b \in m.bits, \A i \in 1 .. m.ones : v[i] # b
      PROVE  FALSE
  <2> DEFINE R == m.bits \ {b}
  <2>1. IsFiniteSet(R) /\ Cardinality(R) = m.ones - 1
    BY <1>2, <1>6, FS_RemoveElement
  <2>2. IsFiniteSet(1 .. m.ones) /\ Cardinality(1 .. m.ones) = m.ones
    <3> DEFINE n == m.ones
    <3>1. n \in Nat /\ n \in Int /\ 1 \in Int
      BY <1>1
    <3> HIDE DEF n
    <3>2. /\ IsFiniteSet(1 .. n)
          /\ Cardinality(1 .. n) = IF 1 > n THEN 0 ELSE n - 1 + 1
      BY <3>1, FS_Interval
    <3>3. IsFiniteSet(1 .. n) /\ Cardinality(1 .. n) = n
      BY <3>1, <3>2
    <3>4. QED
      BY <3>3 DEF n
  <2>3. v \in [1 .. m.ones -> R]
    BY <1>4, <1>6
  <2>4. Cardinality(R) < Cardinality(1 .. m.ones)
    BY <1>1, <2>1, <2>2
  <2> HIDE DEF R
  <2>5. PICK i, j \in 1 .. m.ones : i # j /\ v[i] = v[j]
    <3> DEFINE D == 1 .. m.ones
    <3>1. /\ IsFiniteSet(R) /\ IsFiniteSet(D) /\ Cardinality(R) < Cardinality(D)
          /\ v \in [D -> R]
      BY <2>1, <2>2, <2>3, <2>4
    <3> HIDE DEF D
    <3>2. \E i, j \in D : i # j /\ v[i] = v[j]
      BY <3>1, FS_PigeonHole
    <3>3. QED
      BY <3>2 DEF D
  <2>6. v[i] \in Nat /\ (i < j \/ j < i)
    BY <1>1, <1>3, <2>5
  <2>7. QED
    BY <1>5, <2>5, <2>6
<1>7. QED
  BY <1>4, <1>5, <1>6 DEF v

-----------------------------------------------------------------------------
(* Folds over lists                                                        *)

\* Every non-empty part of 1 .. n has a greatest element.
LEMMA GreatestElement ==
  ASSUME NEW n \in Nat, NEW s \in SUBSET (1 .. n), s # {}
  PROVE  Max(s) \in s /\ \A i \in s : i <= Max(s)
<1> DEFINE T == {n - i : i \in s}
<1>1. T \subseteq Nat /\ T # {}
  <2>1. \A i \in s : n - i \in Nat
    OBVIOUS
  <2>2. QED
    BY <2>1
<1>2. PICK m \in T : \A k \in T : m <= k
  <2> HIDE DEF T
  <2>1. QED
    BY <1>1, LeastElement
<1>3. PICK x \in s : m = n - x
  BY <1>2
<1>4. \A i \in s : n - x <= n - i
  BY <1>2, <1>3
<1>5. \A i \in s : x >= i
  BY <1>4
<1>6. \E y \in s : \A i \in s : y >= i
  BY <1>5
<1>7. Max(s) \in s /\ \A i \in s : Max(s) >= i
  BY <1>6 DEF Max
<1>8. QED
  BY <1>7

\* The last number of 1 .. k, and the numbers before it.
LEMMA LastOfPrefix ==
  ASSUME NEW n \in Nat, NEW k \in 1 .. n
  PROVE  /\ Max(1 .. k) = k /\ (1 .. k) \ {k} = 1 .. k - 1 /\ 1 .. k # {}
         /\ 1 .. k \in SUBSET (1 .. n)
<1>1. 1 .. k \in SUBSET (1 .. k) /\ 1 .. k # {} /\ k \in Nat
  OBVIOUS
<1>2. Max(1 .. k) \in 1 .. k /\ \A i \in 1 .. k : i <= Max(1 .. k)
  BY <1>1, GreatestElement
<1>3. QED
  BY <1>2

\* The values of a step function folded over any part of 1 .. n, from the least
\* number to the greatest.
Folds(g, base, F, n) ==
  \A s \in SUBSET (1 .. n) :
    g[s] = IF s = {} THEN base ELSE F[<<g[s \ {Max(s)}], Max(s)>>]

HasFold(X, base, F, n) == \E g \in [SUBSET (1 .. n) -> X] : Folds(g, base, F, n)

\* A fold has a value.
LEMMA FoldExists ==
  ASSUME NEW X, NEW base \in X, NEW n \in Nat, NEW F \in [X \X (1 .. n) -> X]
  PROVE  HasFold(X, base, F, n)
<1> DEFINE S == {k \in Nat : k <= n => HasFold(X, base, F, k)}
<1>1. 0 \in S
  <2> DEFINE g == [s \in SUBSET (1 .. 0) |-> base]
  <2>1. g \in [SUBSET (1 .. 0) -> X]
    OBVIOUS
  <2>2. Folds(g, base, F, 0)
    BY DEF Folds
  <2> HIDE DEF g
  <2>3. HasFold(X, base, F, 0)
    BY <2>1, <2>2 DEF HasFold
  <2>4. QED
    BY <2>3
<1>2. ASSUME NEW k \in Nat, k \in S
      PROVE  k + 1 \in S
  <2>1. SUFFICES ASSUME k + 1 <= n
                 PROVE  HasFold(X, base, F, k + 1)
    OBVIOUS
  <2>2. PICK h \in [SUBSET (1 .. k) -> X] : Folds(h, base, F, k)
    <3>1. HasFold(X, base, F, k)
      BY <1>2, <2>1
    <3>2. QED
      BY <3>1 DEF HasFold
  <2> DEFINE g == [s \in SUBSET (1 .. k + 1) |->
                     IF k + 1 \in s THEN F[<<h[s \ {k + 1}], k + 1>>] ELSE h[s]]
  <2>3. ASSUME NEW s \in SUBSET (1 .. k + 1)
        PROVE  /\ s \ {k + 1} \in SUBSET (1 .. k)
               /\ k + 1 \notin s => s \in SUBSET (1 .. k)
    OBVIOUS
  <2>4. g \in [SUBSET (1 .. k + 1) -> X]
    <3>1. \A s \in SUBSET (1 .. k + 1) :
            /\ h[s \ {k + 1}] \in X
            /\ k + 1 \notin s => h[s] \in X
      BY <2>3
    <3>2. k + 1 \in 1 .. n
      BY <2>1
    <3>3. QED
      BY <3>1, <3>2
  <2>5. ASSUME NEW s \in SUBSET (1 .. k + 1)
        PROVE  g[s] = IF s = {} THEN base ELSE F[<<g[s \ {Max(s)}], Max(s)>>]
    <3>1. CASE k + 1 \in s
      <4>1. Max(s) = k + 1
        <5>1. k + 1 \in Nat /\ s # {}
          BY <3>1
        <5>2. Max(s) \in s /\ k + 1 <= Max(s)
          BY <5>1, <3>1, GreatestElement
        <5>3. QED
          <6>1. Max(s) \in 1 .. k + 1
            BY <5>2
          <6>2. QED
            BY <5>2, <6>1
      <4>2. s \ {k + 1} \in SUBSET (1 .. k + 1) /\ k + 1 \notin s \ {k + 1}
        OBVIOUS
      <4>3. g[s \ {k + 1}] = h[s \ {k + 1}]
        BY <4>2
      <4>4. g[s] = F[<<h[s \ {k + 1}], k + 1>>]
        BY <3>1
      <4> HIDE DEF g
      <4>5. QED
        BY <3>1, <4>1, <4>3, <4>4
    <3>2. CASE k + 1 \notin s
      <4>1. s \in SUBSET (1 .. k) /\ g[s] = h[s]
        BY <2>3, <3>2
      <4>2. h[s] = IF s = {} THEN base ELSE F[<<h[s \ {Max(s)}], Max(s)>>]
        BY <2>2, <4>1 DEF Folds
      <4>3. s \ {Max(s)} \in SUBSET (1 .. k + 1) /\ k + 1 \notin s \ {Max(s)}
        BY <3>2
      <4>4. g[s \ {Max(s)}] = h[s \ {Max(s)}]
        BY <4>3
      <4> HIDE DEF g
      <4>5. QED
        BY <4>1, <4>2, <4>4
    <3>3. QED
      BY <3>1, <3>2
  <2>6. Folds(g, base, F, k + 1)
    <3> HIDE DEF g
    <3>1. QED
      BY <2>5 DEF Folds
  <2> HIDE DEF g
  <2>7. QED
    BY <2>4, <2>6 DEF HasFold
<1>3. Nat \subseteq S
  <2> HIDE DEF S
  <2>1. QED
    BY <1>1, <1>2, SetInduction
<1>4. n \in S
  BY <1>3
<1>5. QED
  BY <1>4

\* Induction over the members of a list.
LEMMA PrefixInduction ==
  ASSUME NEW n \in Nat, NEW S, 0 \in S, \A k \in 1 .. n : k - 1 \in S => k \in S
  PROVE  \A k \in 0 .. n : k \in S
<1> DEFINE T == {k \in Nat : k <= n => k \in S}
<1>1. 0 \in T
  OBVIOUS
<1>2. \A k \in Nat : k \in T => k + 1 \in T
  <2>1. SUFFICES ASSUME NEW k \in Nat, k \in T, k + 1 <= n
                 PROVE  k + 1 \in S
    OBVIOUS
  <2>2. k + 1 \in 1 .. n /\ (k + 1) - 1 = k /\ k \in S
    BY <2>1
  <2>3. QED
    BY <2>2
<1>3. Nat \subseteq T
  <2> HIDE DEF T
  <2>1. QED
    BY <1>1, <1>2, SetInduction
<1>4. QED
  BY <1>3

\* What a fold has computed before each of its steps.
FoldSteps(f, base, F, n) ==
  f[0] = base /\ \A k \in 1 .. n : f[k] = F[<<f[k - 1], k>>]

HasSteps(X, base, F, n, value) ==
  \E f \in [0 .. n -> X] : FoldSteps(f, base, F, n) /\ f[n] = value

\* A function that obeys the recursion of a fold, as far as it stays among the
\* values, has computed it step by step.
LEMMA TraceOf ==
  ASSUME NEW X, NEW base \in X, NEW n \in Nat, NEW F \in [X \X (1 .. n) -> X],
         NEW g, g[{}] = base,
         \A s \in SUBSET (1 .. n) :
           s # {} /\ g[s \ {Max(s)}] \in X => g[s] = F[<<g[s \ {Max(s)}], Max(s)>>]
  PROVE  HasSteps(X, base, F, n, g[1 .. n])
<1> DEFINE f == [k \in 0 .. n |-> g[1 .. k]]
<1>1. f[0] = base
  <2>1. f[0] = g[1 .. 0] /\ 1 .. 0 = {}
    OBVIOUS
  <2> HIDE DEF f
  <2>2. QED
    BY <2>1
<1>2. ASSUME NEW k \in 1 .. n, f[k - 1] \in X
      PROVE  f[k] = F[<<f[k - 1], k>>]
  <2>1. /\ Max(1 .. k) = k /\ (1 .. k) \ {k} = 1 .. k - 1 /\ 1 .. k # {}
        /\ 1 .. k \in SUBSET (1 .. n)
    BY LastOfPrefix
  <2>2. f[k] = g[1 .. k] /\ f[k - 1] = g[1 .. k - 1]
    OBVIOUS
  <2> HIDE DEF f
  <2>3. g[(1 .. k) \ {Max(1 .. k)}] \in X
    BY <1>2, <2>1, <2>2
  <2>4. g[1 .. k] = F[<<g[(1 .. k) \ {Max(1 .. k)}], Max(1 .. k)>>]
    BY <2>1, <2>3
  <2>5. QED
    BY <2>1, <2>2, <2>4
<1>3. f = [k \in 0 .. n |-> f[k]] /\ f[n] = g[1 .. n]
  OBVIOUS
<1> HIDE DEF f
<1> DEFINE S == {k \in 0 .. n : f[k] \in X}
<1>4. 0 \in S
  BY <1>1
<1>5. ASSUME NEW k \in 1 .. n, k - 1 \in S
      PROVE  k \in S
  <2>1. k \in 0 .. n /\ f[k - 1] \in X
    BY <1>5
  <2>2. f[k] = F[<<f[k - 1], k>>]
    BY <1>2, <2>1
  <2>3. f[k] \in X
    BY <2>1, <2>2
  <2>4. QED
    BY <2>1, <2>3
<1>6. \A k \in 0 .. n : k \in S
  <2> HIDE DEF S
  <2>1. QED
    BY <1>4, <1>5, PrefixInduction
<1>7. f \in [0 .. n -> X]
  BY <1>3, <1>6
<1>8. \A k \in 1 .. n : f[k] = F[<<f[k - 1], k>>]
  <2>1. TAKE k \in 1 .. n
  <2>2. k - 1 \in 0 .. n
    OBVIOUS
  <2>3. f[k - 1] \in X
    BY <1>7, <2>2
  <2>4. QED
    BY <1>2, <2>3
<1>9. FoldSteps(f, base, F, n)
  BY <1>1, <1>8 DEF FoldSteps
<1>10. QED
  BY <1>3, <1>7, <1>9 DEF HasSteps

-----------------------------------------------------------------------------
(* Lists                                                                   *)

\* One step of Only on a list.
OnlyStep(Y, q, set) ==
  [x \in Seq(Y) \X (1 .. Len(q)) |->
     IF q[x[2]] \in set THEN Append(x[1], q[x[2]]) ELSE x[1]]

\* Only is computed member by member.
LEMMA OnlyTrace ==
  ASSUME NEW Y, NEW q \in Seq(Y), NEW set
  PROVE  HasSteps(Seq(Y), <<>>, OnlyStep(Y, q, set), Len(q), Only(q, set))
<1> DEFINE n == Len(q)
           F == OnlyStep(Y, q, set)
           Next1(r, i) == IF q[i] \in set THEN Append(r, q[i]) ELSE r
           Solves(g) == g = [s \in SUBSET (1 .. n) |->
                               IF s = {} THEN <<>>
                               ELSE IF q[Max(s)] \in set
                                    THEN Append(g[s \ {Max(s)}], q[Max(s)])
                                    ELSE g[s \ {Max(s)}]]
           iter == CHOOSE g : Solves(g)
<1>1. n \in Nat /\ DOMAIN q = 1 .. n /\ <<>> \in Seq(Y)
  OBVIOUS
<1>2. Only(q, set) = iter[1 .. n]
  BY <1>1 DEF Only, FoldLeft, MapThenFoldSet
<1>3. /\ F \in [Seq(Y) \X (1 .. n) -> Seq(Y)]
      /\ \A r \in Seq(Y), i \in 1 .. n : F[<<r, i>>] = Next1(r, i)
  <2>1. \A i \in 1 .. n : q[i] \in Y
    OBVIOUS
  <2>2. \A x \in Seq(Y) \X (1 .. n) : Next1(x[1], x[2]) \in Seq(Y)
    BY <2>1
  <2>3. QED
    BY <2>2 DEF OnlyStep
<1> HIDE DEF F, n
<1>4. PICK h \in [SUBSET (1 .. n) -> Seq(Y)] : Folds(h, <<>>, F, n)
  <2>1. HasFold(Seq(Y), <<>>, F, n)
    BY <1>1, <1>3, FoldExists
  <2>2. QED
    BY <2>1 DEF HasFold
<1>5. \A s \in SUBSET (1 .. n) : s # {} => Max(s) \in 1 .. n
  BY <1>1, GreatestElement
<1>6. Solves(h)
  <2>1. h = [s \in SUBSET (1 .. n) |-> h[s]]
    BY <1>4
  <2>2. ASSUME NEW s \in SUBSET (1 .. n)
        PROVE  h[s] = IF s = {} THEN <<>> ELSE Next1(h[s \ {Max(s)}], Max(s))
    <3>1. h[s] = IF s = {} THEN <<>> ELSE F[<<h[s \ {Max(s)}], Max(s)>>]
      BY <1>4 DEF Folds
    <3>2. h[s \ {Max(s)}] \in Seq(Y)
      BY <1>4
    <3>3. QED
      BY <1>3, <1>5, <3>1, <3>2
  <2>3. QED
    BY <2>1, <2>2
<1>7. Solves(iter)
  <2> HIDE DEF Solves
  <2>1. QED
    BY <1>6
<1> HIDE DEF iter
<1>8. iter[{}] = <<>>
  <2>1. {} \in SUBSET (1 .. n)
    OBVIOUS
  <2>2. QED
    BY <1>7, <2>1
<1>9. ASSUME NEW s \in SUBSET (1 .. n), s # {}, iter[s \ {Max(s)}] \in Seq(Y)
      PROVE  iter[s] = F[<<iter[s \ {Max(s)}], Max(s)>>]
  <2>1. iter[s] = Next1(iter[s \ {Max(s)}], Max(s))
    BY <1>7, <1>9
  <2>2. QED
    BY <1>3, <1>5, <1>9, <2>1
<1>10. HasSteps(Seq(Y), <<>>, F, n, iter[1 .. n])
  <2> HIDE DEF Solves
  <2>1. QED
    BY <1>1, <1>3, <1>8, <1>9, TraceOf
<1>11. QED
  BY <1>2, <1>10 DEF F, n

\* One more member of a list.
LEMMA AppendFacts ==
  ASSUME NEW Y, NEW s \in Seq(Y), NEW x \in Y
  PROVE  /\ Append(s, x) \in Seq(Y)
         /\ Range(Append(s, x)) = Range(s) \cup {x}
         /\ IsInjective(s) /\ x \notin Range(s) => IsInjective(Append(s, x))
<1> DEFINE t == Append(s, x)
           n == Len(s)
<1>1. /\ t \in Seq(Y) /\ Len(t) = n + 1 /\ n \in Nat
      /\ \A i \in 1 .. n : t[i] = s[i]
      /\ t[n + 1] = x
      /\ DOMAIN t = 1 .. n + 1 /\ DOMAIN s = 1 .. n
  OBVIOUS
<1> HIDE DEF t, n
<1>2. Range(t) = Range(s) \cup {x}
  <2>1. \A i \in 1 .. n + 1 : i \in 1 .. n \/ i = n + 1
    BY <1>1
  <2>2. \A i \in 1 .. n : i \in 1 .. n + 1
    BY <1>1
  <2>3. n + 1 \in 1 .. n + 1
    BY <1>1
  <2>4. QED
    BY <1>1, <2>1, <2>2, <2>3 DEF Range
<1>3. ASSUME IsInjective(s), x \notin Range(s)
      PROVE  IsInjective(t)
  <2>1. \A i \in 1 .. n : s[i] # x
    BY <1>1, <1>3 DEF Range
  <2>2. \A i, j \in 1 .. n : s[i] = s[j] => i = j
    BY <1>1, <1>3 DEF IsInjective
  <2>3. \A i \in 1 .. n + 1 : i \in 1 .. n \/ i = n + 1
    BY <1>1
  <2>4. \A i, j \in 1 .. n + 1 : t[i] = t[j] => i = j
    BY <1>1, <2>1, <2>2, <2>3
  <2>5. QED
    BY <1>1, <2>4 DEF IsInjective
<1>4. QED
  BY <1>1, <1>2, <1>3 DEF t

\* The first k members of a list.
FirstOf(q, k) == {q[j] : j \in 1 .. k}

\* A list that has just the first k members of another that are in a set.
Picks(r, q, k, set) ==
  /\ Range(r) = FirstOf(q, k) \cap set
  /\ IsInjective(q) => IsInjective(r)

\* Only keeps just the members that are in the set, and repeats none.
LEMMA OnlyIs ==
  ASSUME NEW Y, NEW q \in Seq(Y), NEW set
  PROVE  /\ Only(q, set) \in Seq(Y)
         /\ Range(Only(q, set)) = Range(q) \cap set
         /\ IsInjective(q) => IsInjective(Only(q, set))
<1>0. PICK f \in [0 .. Len(q) -> Seq(Y)] :
        /\ FoldSteps(f, <<>>, OnlyStep(Y, q, set), Len(q))
        /\ f[Len(q)] = Only(q, set)
  BY OnlyTrace DEF HasSteps
<1> DEFINE n == Len(q)
<1>1. n \in Nat /\ DOMAIN q = 1 .. n
  OBVIOUS
<1>2. /\ f \in [0 .. n -> Seq(Y)]
      /\ f[0] = <<>>
      /\ \A k \in 1 .. n :
           f[k] = IF q[k] \in set THEN Append(f[k - 1], q[k]) ELSE f[k - 1]
      /\ Only(q, set) = f[n]
  <2>1. ASSUME NEW k \in 1 .. n
        PROVE  f[k] = IF q[k] \in set THEN Append(f[k - 1], q[k]) ELSE f[k - 1]
    <3>1. f[k - 1] \in Seq(Y) /\ <<f[k - 1], k>> \in Seq(Y) \X (1 .. n)
      <4>1. k - 1 \in 0 .. n
        BY <1>1
      <4>2. QED
        BY <1>0, <4>1
    <3>2. f[k] = OnlyStep(Y, q, set)[<<f[k - 1], k>>]
      BY <1>0 DEF FoldSteps
    <3>3. QED
      BY <3>1, <3>2 DEF OnlyStep
  <2>2. QED
    BY <1>0, <2>1 DEF FoldSteps
<1> HIDE DEF n
<1> DEFINE S == {k \in 0 .. n : Picks(f[k], q, k, set)}
<1>3. 0 \in S
  <2>1. Range(f[0]) = {} /\ IsInjective(f[0])
    BY <1>2 DEF Range, IsInjective
  <2>2. FirstOf(q, 0) = {} /\ 0 \in 0 .. n
    BY <1>1 DEF FirstOf
  <2>3. QED
    BY <2>1, <2>2 DEF Picks
<1>4. ASSUME NEW k \in 1 .. n, k - 1 \in S
      PROVE  k \in S
  <2>1. /\ f[k - 1] \in Seq(Y) /\ q[k] \in Y /\ k \in 0 .. n
        /\ Picks(f[k - 1], q, k - 1, set)
    BY <1>1, <1>4
  <2>2. FirstOf(q, k) = FirstOf(q, k - 1) \cup {q[k]}
    <3>1. \A j \in 1 .. k : j \in 1 .. k - 1 \/ j = k
      BY <1>1
    <3>2. k \in 1 .. k /\ \A j \in 1 .. k - 1 : j \in 1 .. k
      BY <1>1
    <3>3. QED
      BY <3>1, <3>2 DEF FirstOf
  <2>3. IsInjective(q) => q[k] \notin FirstOf(q, k - 1)
    <3>1. \A j \in 1 .. k - 1 : j \in 1 .. n /\ j # k
      BY <1>1
    <3>2. QED
      BY <1>1, <3>1 DEF IsInjective, FirstOf
  <2>4. CASE q[k] \in set
    <3>1. f[k] = Append(f[k - 1], q[k])
      BY <1>2, <2>4
    <3>2. /\ Range(f[k]) = Range(f[k - 1]) \cup {q[k]}
          /\ IsInjective(f[k - 1]) /\ q[k] \notin Range(f[k - 1]) => IsInjective(f[k])
      BY <2>1, <3>1, AppendFacts
    <3>3. Picks(f[k], q, k, set)
      BY <2>1, <2>2, <2>3, <2>4, <3>2 DEF Picks
    <3>4. QED
      BY <2>1, <3>3
  <2>5. CASE q[k] \notin set
    <3>1. f[k] = f[k - 1]
      BY <1>2, <2>5
    <3>2. Picks(f[k], q, k, set)
      BY <2>1, <2>2, <2>5, <3>1 DEF Picks
    <3>3. QED
      BY <2>1, <3>2
  <2>6. QED
    BY <2>4, <2>5
<1>5. \A k \in 0 .. n : k \in S
  <2> HIDE DEF S
  <2>1. QED
    BY <1>1, <1>3, <1>4, PrefixInduction
<1>6. Picks(f[n], q, n, set) /\ n \in 0 .. n
  BY <1>1, <1>5
<1>7. FirstOf(q, n) = Range(q)
  BY <1>1 DEF FirstOf, Range
<1>8. QED
  BY <1>2, <1>6, <1>7 DEF Picks

\* One step of Joined on a list of lists.
JoinStep(Y, q) == [x \in Seq(Y) \X (1 .. Len(q)) |-> x[1] \o q[x[2]]]

\* Joined is computed list by list.
LEMMA JoinedTrace ==
  ASSUME NEW Y, NEW q \in Seq(Seq(Y))
  PROVE  HasSteps(Seq(Y), <<>>, JoinStep(Y, q), Len(q), Joined(q))
<1> DEFINE n == Len(q)
           F == JoinStep(Y, q)
           Next1(r, i) == r \o q[i]
           Solves(g) == g = [s \in SUBSET (1 .. n) |->
                               IF s = {} THEN <<>> ELSE g[s \ {Max(s)}] \o q[Max(s)]]
           iter == CHOOSE g : Solves(g)
<1>1. n \in Nat /\ DOMAIN q = 1 .. n /\ <<>> \in Seq(Y)
  OBVIOUS
<1>2. Joined(q) = iter[1 .. n]
  BY <1>1 DEF Joined, FoldLeft, MapThenFoldSet
<1>3. /\ F \in [Seq(Y) \X (1 .. n) -> Seq(Y)]
      /\ \A r \in Seq(Y), i \in 1 .. n : F[<<r, i>>] = Next1(r, i)
  <2>1. \A i \in 1 .. n : q[i] \in Seq(Y)
    OBVIOUS
  <2>2. \A x \in Seq(Y) \X (1 .. n) : Next1(x[1], x[2]) \in Seq(Y)
    BY <2>1
  <2>3. QED
    BY <2>2 DEF JoinStep
<1> HIDE DEF F, n
<1>4. PICK h \in [SUBSET (1 .. n) -> Seq(Y)] : Folds(h, <<>>, F, n)
  <2>1. HasFold(Seq(Y), <<>>, F, n)
    BY <1>1, <1>3, FoldExists
  <2>2. QED
    BY <2>1 DEF HasFold
<1>5. \A s \in SUBSET (1 .. n) : s # {} => Max(s) \in 1 .. n
  BY <1>1, GreatestElement
<1>6. Solves(h)
  <2>1. h = [s \in SUBSET (1 .. n) |-> h[s]]
    BY <1>4
  <2>2. ASSUME NEW s \in SUBSET (1 .. n)
        PROVE  h[s] = IF s = {} THEN <<>> ELSE Next1(h[s \ {Max(s)}], Max(s))
    <3>1. h[s] = IF s = {} THEN <<>> ELSE F[<<h[s \ {Max(s)}], Max(s)>>]
      BY <1>4 DEF Folds
    <3>2. h[s \ {Max(s)}] \in Seq(Y)
      BY <1>4
    <3>3. QED
      BY <1>3, <1>5, <3>1, <3>2
  <2>3. QED
    BY <2>1, <2>2
<1>7. Solves(iter)
  <2> HIDE DEF Solves
  <2>1. QED
    BY <1>6
<1> HIDE DEF iter
<1>8. iter[{}] = <<>>
  <2>1. {} \in SUBSET (1 .. n)
    OBVIOUS
  <2>2. QED
    BY <1>7, <2>1
<1>9. ASSUME NEW s \in SUBSET (1 .. n), s # {}, iter[s \ {Max(s)}] \in Seq(Y)
      PROVE  iter[s] = F[<<iter[s \ {Max(s)}], Max(s)>>]
  <2>1. iter[s] = Next1(iter[s \ {Max(s)}], Max(s))
    BY <1>7, <1>9
  <2>2. QED
    BY <1>3, <1>5, <1>9, <2>1
<1>10. HasSteps(Seq(Y), <<>>, F, n, iter[1 .. n])
  <2> HIDE DEF Solves
  <2>1. QED
    BY <1>1, <1>3, <1>8, <1>9, TraceOf
<1>11. QED
  BY <1>2, <1>10 DEF F, n

\* Two lists, one behind the other.
LEMMA ConcatFacts ==
  ASSUME NEW Y, NEW s \in Seq(Y), NEW t \in Seq(Y)
  PROVE  /\ s \o t \in Seq(Y)
         /\ Range(s \o t) = Range(s) \cup Range(t)
         /\ IsInjective(s) /\ IsInjective(t) /\ Range(s) \cap Range(t) = {}
            => IsInjective(s \o t)
<1> DEFINE u == s \o t
           m == Len(s)
           n == Len(t)
<1>1. /\ u \in Seq(Y) /\ Len(u) = m + n /\ m \in Nat /\ n \in Nat
      /\ DOMAIN u = 1 .. m + n /\ DOMAIN s = 1 .. m /\ DOMAIN t = 1 .. n
  OBVIOUS
<1>2. \A i \in 1 .. m + n : u[i] = IF i <= m THEN s[i] ELSE t[i - m]
  BY ConcatProperties
<1> HIDE DEF u, m, n
<1>3. /\ \A i \in 1 .. m : u[i] = s[i] /\ i \in 1 .. m + n
      /\ \A i \in 1 .. n : u[m + i] = t[i] /\ m + i \in 1 .. m + n
      /\ \A i \in 1 .. m + n : i \in 1 .. m \/ i - m \in 1 .. n
      /\ \A i \in 1 .. m + n : i \notin 1 .. m => u[i] = t[i - m]
  <2>1. ASSUME NEW i \in 1 .. n
        PROVE  u[m + i] = t[i] /\ m + i \in 1 .. m + n
    <3>1. m + i \in 1 .. m + n /\ ~(m + i <= m) /\ (m + i) - m = i
      BY <1>1
    <3>2. QED
      BY <1>2, <3>1
  <2>2. \A i \in 1 .. m : u[i] = s[i] /\ i \in 1 .. m + n
    BY <1>1, <1>2
  <2>3. \A i \in 1 .. m + n : i \in 1 .. m \/ i - m \in 1 .. n
    BY <1>1
  <2>4. \A i \in 1 .. m + n : i \notin 1 .. m => u[i] = t[i - m]
    BY <1>1, <1>2
  <2>5. QED
    BY <2>1, <2>2, <2>3, <2>4
<1>4. Range(u) = Range(s) \cup Range(t)
  <2>1. Range(u) \subseteq Range(s) \cup Range(t)
    BY <1>1, <1>3 DEF Range
  <2>2. Range(s) \subseteq Range(u)
    BY <1>1, <1>3 DEF Range
  <2>3. Range(t) \subseteq Range(u)
    <3>1. \A i \in 1 .. n : \E j \in 1 .. m + n : u[j] = t[i]
      BY <1>3
    <3>2. QED
      BY <1>1, <3>1 DEF Range
  <2>4. QED
    BY <2>1, <2>2, <2>3
<1>5. ASSUME IsInjective(s), IsInjective(t), Range(s) \cap Range(t) = {}
      PROVE  IsInjective(u)
  <2>1. SUFFICES ASSUME NEW i \in 1 .. m + n, NEW j \in 1 .. m + n, u[i] = u[j]
                 PROVE  i = j
    BY <1>1 DEF IsInjective
  <2>2. \A a \in 1 .. m, b \in 1 .. n : s[a] # t[b]
    BY <1>1, <1>5 DEF Range
  <2>3. \A a, b \in 1 .. m : s[a] = s[b] => a = b
    BY <1>1, <1>5 DEF IsInjective
  <2>4. \A a, b \in 1 .. n : t[a] = t[b] => a = b
    BY <1>1, <1>5 DEF IsInjective
  <2>5. CASE i \in 1 .. m /\ j \in 1 .. m
    BY <1>3, <2>1, <2>3, <2>5
  <2>6. CASE i \in 1 .. m /\ j \notin 1 .. m
    BY <1>3, <2>1, <2>2, <2>6
  <2>7. CASE i \notin 1 .. m /\ j \in 1 .. m
    BY <1>3, <2>1, <2>2, <2>7
  <2>8. CASE i \notin 1 .. m /\ j \notin 1 .. m
    <3>1. i - m = j - m
      BY <1>3, <2>1, <2>4, <2>8
    <3>2. QED
      BY <1>1, <3>1
  <2>9. QED
    BY <2>5, <2>6, <2>7, <2>8
<1>6. QED
  BY <1>1, <1>4, <1>5 DEF u

\* The members of the first k lists.
InFirst(lists, k) == UNION {Range(lists[j]) : j \in 1 .. k}

\* No list repeats a member, and no two share one.
Disjoint(lists) ==
  /\ \A k \in DOMAIN lists : IsInjective(lists[k])
  /\ \A j, k \in DOMAIN lists : j # k => Range(lists[j]) \cap Range(lists[k]) = {}

\* A list that has just the members of the first k lists.
Joins(r, lists, k) ==
  /\ Range(r) = InFirst(lists, k)
  /\ Disjoint(lists) => IsInjective(r)

\* Joined has just the members of the lists, none twice if they do not.
LEMMA JoinedIs ==
  ASSUME NEW Y, NEW lists \in Seq(Seq(Y))
  PROVE  /\ Joined(lists) \in Seq(Y)
         /\ Range(Joined(lists)) = UNION {Range(lists[k]) : k \in DOMAIN lists}
         /\ Disjoint(lists) => IsInjective(Joined(lists))
<1>0. PICK f \in [0 .. Len(lists) -> Seq(Y)] :
        /\ FoldSteps(f, <<>>, JoinStep(Y, lists), Len(lists))
        /\ f[Len(lists)] = Joined(lists)
  BY JoinedTrace DEF HasSteps
<1> DEFINE n == Len(lists)
<1>1. n \in Nat /\ DOMAIN lists = 1 .. n
  OBVIOUS
<1>2. /\ f \in [0 .. n -> Seq(Y)]
      /\ f[0] = <<>>
      /\ \A k \in 1 .. n : f[k] = f[k - 1] \o lists[k]
      /\ Joined(lists) = f[n]
  <2>1. ASSUME NEW k \in 1 .. n
        PROVE  f[k] = f[k - 1] \o lists[k]
    <3>1. f[k - 1] \in Seq(Y) /\ <<f[k - 1], k>> \in Seq(Y) \X (1 .. n)
      <4>1. k - 1 \in 0 .. n
        BY <1>1
      <4>2. QED
        BY <1>0, <4>1
    <3>2. f[k] = JoinStep(Y, lists)[<<f[k - 1], k>>]
      BY <1>0 DEF FoldSteps
    <3>3. QED
      BY <3>1, <3>2 DEF JoinStep
  <2>2. QED
    BY <1>0, <2>1 DEF FoldSteps
<1> HIDE DEF n
<1> DEFINE S == {k \in 0 .. n : Joins(f[k], lists, k)}
<1>3. 0 \in S
  <2>1. Range(f[0]) = {} /\ IsInjective(f[0])
    BY <1>2 DEF Range, IsInjective
  <2>2. InFirst(lists, 0) = {} /\ 0 \in 0 .. n
    BY <1>1 DEF InFirst
  <2>3. QED
    BY <2>1, <2>2 DEF Joins
<1>4. ASSUME NEW k \in 1 .. n, k - 1 \in S
      PROVE  k \in S
  <2>1. /\ f[k - 1] \in Seq(Y) /\ lists[k] \in Seq(Y) /\ k \in 0 .. n
        /\ Joins(f[k - 1], lists, k - 1)
    <3>1. k - 1 \in 0 .. n /\ k \in 0 .. n /\ Joins(f[k - 1], lists, k - 1)
      BY <1>1, <1>4
    <3>2. f[k - 1] \in Seq(Y)
      BY <1>2, <3>1
    <3>3. lists[k] \in Seq(Y)
      BY <1>1, <1>4
    <3>4. QED
      BY <3>1, <3>2, <3>3
  <2>2. /\ \A j \in 1 .. k : j \in 1 .. k - 1 \/ j = k
        /\ k \in 1 .. k /\ \A j \in 1 .. k - 1 : j \in 1 .. k /\ j \in 1 .. n /\ j # k
    BY <1>1
  <2>3. InFirst(lists, k) = InFirst(lists, k - 1) \cup Range(lists[k])
    BY <2>2 DEF InFirst
  <2>4. Disjoint(lists) => /\ IsInjective(lists[k])
                           /\ InFirst(lists, k - 1) \cap Range(lists[k]) = {}
    BY <1>1, <2>2 DEF InFirst, Disjoint
  <2>5. f[k] = f[k - 1] \o lists[k]
    BY <1>2
  <2>6. /\ Range(f[k]) = Range(f[k - 1]) \cup Range(lists[k])
        /\ IsInjective(f[k - 1]) /\ IsInjective(lists[k])
             /\ Range(f[k - 1]) \cap Range(lists[k]) = {} => IsInjective(f[k])
    BY <2>1, <2>5, ConcatFacts
  <2>7. Joins(f[k], lists, k)
    BY <2>1, <2>3, <2>4, <2>6 DEF Joins
  <2>8. QED
    BY <2>1, <2>7
<1>5. \A k \in 0 .. n : k \in S
  <2> HIDE DEF S
  <2>1. QED
    BY <1>1, <1>3, <1>4, PrefixInduction
<1>6. Joins(f[n], lists, n) /\ n \in 0 .. n
  BY <1>1, <1>5
<1>7. QED
  BY <1>1, <1>2, <1>6 DEF Joins, InFirst

-----------------------------------------------------------------------------
(* The bitmaps of a look-up                                                *)

\* The maps of the matrix, and the two buffers, which always have a length.
Bitmap == [length : Nat, bits : SUBSET Nat, ones : Nat, zeros : Nat]
Maps == {m \in Bitmap : Proper(m)}
Buffers == {m \in Maps : m.length # 0}

\* A bitmap that grows keeps its bits.
LEMMA GrowFacts ==
  ASSUME NEW m \in Maps, NEW n \in Nat
  PROVE  /\ Grow(m, n) \in Maps /\ Grow(m, n).bits = m.bits
         /\ Grow(m, n).length = IF m.length # 0 /\ n > m.length THEN n ELSE m.length
<1>1. Proper(m) /\ m \in Bitmap /\ m.length \in Nat
  BY DEF Maps, Bitmap
<1>2. Proper(Grow(m, n))
  BY <1>1, OperationsCountExactly
<1>3. Grow(m, n) \in Maps
  BY <1>2 DEF Maps, Bitmap, Proper
<1>4. CASE m.length = 0 \/ n <= m.length
  <2>1. Grow(m, n) = m
    BY <1>4 DEF Grow, Usable
  <2>2. QED
    BY <1>1, <1>3, <1>4, <2>1
<1>5. CASE ~(m.length = 0 \/ n <= m.length)
  <2>1. Usable(m)
    BY <1>1, <1>5, ProperUsable
  <2> DEFINE c == [m EXCEPT !.length = n, !.bits = {i \in @ : i < m.length}]
  <2>2. Grow(m, n) = Count(c)
    BY <1>5, <2>1 DEF Grow
  <2>3. \A i \in m.bits : i \in Nat /\ i < m.length
    BY <1>1, BitsFinite
  <2>4. /\ c \in Bitmap /\ c.length = n /\ c.bits = m.bits
    BY <1>1, <2>3 DEF Bitmap
  <2> HIDE DEF c
  <2>5. Count(c).length = n /\ Count(c).bits = {i \in m.bits : i < n}
    BY <2>4, CountProper DEF Bitmap
  <2>6. \A i \in m.bits : i < n
    BY <1>1, <1>5, <2>3
  <2>7. QED
    BY <1>1, <1>3, <1>5, <2>2, <2>5, <2>6
<1>6. QED
  BY <1>4, <1>5

\* So does one that grows only if it has to.
LEMMA FfpGrowFacts ==
  ASSUME NEW m \in Maps, NEW n \in Nat
  PROVE  /\ FfpGrow(m, n) \in Maps /\ FfpGrow(m, n).bits = m.bits
         /\ FfpGrow(m, n).length = IF m.length # 0 /\ n > m.length THEN n ELSE m.length
<1>1. m.length \in Nat
  BY DEF Maps, Bitmap
<1>2. QED
  BY <1>1, GrowFacts DEF FfpGrow

\* One that shrinks keeps those that fit.
LEMMA ShrinkFacts ==
  ASSUME NEW m \in Maps, NEW n \in Nat
  PROVE  /\ Shrink(m, n) \in Maps
         /\ Shrink(m, n).length = IF n # 0 /\ n < m.length THEN n ELSE m.length
         /\ \A i \in m.bits : n = 0 \/ i < n => i \in Shrink(m, n).bits
<1>1. Proper(m) /\ m \in Bitmap /\ m.length \in Nat
  BY DEF Maps, Bitmap
<1>2. Proper(Shrink(m, n))
  BY <1>1, OperationsCountExactly
<1>3. Shrink(m, n) \in Maps
  BY <1>2 DEF Maps, Bitmap, Proper
<1>4. CASE n = 0 \/ n >= m.length
  <2>1. Shrink(m, n) = m
    BY <1>4 DEF Shrink
  <2>2. QED
    BY <1>1, <1>3, <1>4, <2>1
<1>5. CASE ~(n = 0 \/ n >= m.length)
  <2>1. Usable(m)
    BY <1>1, <1>5, ProperUsable
  <2> DEFINE c == [m EXCEPT !.length = n, !.bits = {i \in @ : i < n}]
  <2>2. Shrink(m, n) = Count(c)
    BY <1>5, <2>1 DEF Shrink
  <2>4. /\ c \in Bitmap /\ c.length = n /\ c.bits = {i \in m.bits : i < n}
    BY <1>1 DEF Bitmap
  <2> HIDE DEF c
  <2>5. Count(c).length = n /\ Count(c).bits = {i \in c.bits : i < n}
    BY <2>4, CountProper DEF Bitmap
  <2>7. QED
    BY <1>1, <1>3, <1>5, <2>2, <2>4, <2>5
<1>6. QED
  BY <1>4, <1>5

\* The operations over two bitmaps keep the length of the second.
LEMMA LengthsKept ==
  ASSUME NEW m \in Maps, NEW k \in Maps
  PROVE  /\ And(k, m) \in Maps /\ And(k, m).length = m.length
         /\ Or(k, m) \in Maps /\ Or(k, m).length = m.length
         /\ Copy(k, m) \in Maps /\ Copy(k, m).length = m.length
<1>1. /\ Proper(m) /\ m \in Bitmap /\ m.length \in Nat
      /\ Proper(k) /\ k \in Bitmap
  BY DEF Maps, Bitmap
<1>2. Proper(And(k, m)) /\ Proper(Or(k, m)) /\ Proper(Copy(k, m))
  <2>1. 0 \in Nat
    OBVIOUS
  <2>2. QED
    BY <1>1, <2>1, OperationsCountExactly
<1>3. And(k, m) \in Maps /\ Or(k, m) \in Maps /\ Copy(k, m) \in Maps
  BY <1>2 DEF Maps, Bitmap, Proper
<1>4. And(k, m).length = m.length
  <2> DEFINE c == [m EXCEPT !.bits = {i \in @ : i < Shared(m, k) => i \in k.bits}]
  <2>1. c \in Bitmap /\ c.length = m.length
    BY <1>1 DEF Bitmap
  <2>2. Count(c).length = m.length
    <3> HIDE DEF c
    <3>1. QED
      BY <2>1, CountProper DEF Bitmap
  <2>3. QED
    BY <2>2 DEF And
<1>5. Or(k, m).length = m.length
  <2> DEFINE c == [m EXCEPT !.bits = @ \cup {i \in k.bits : i < Shared(m, k)}]
  <2>1. c \in Bitmap /\ c.length = m.length
    BY <1>1 DEF Bitmap
  <2>2. Count(c).length = m.length
    <3> HIDE DEF c
    <3>1. QED
      BY <2>1, CountProper DEF Bitmap
  <2>3. QED
    BY <2>2 DEF Or
<1>6. Copy(k, m).length = m.length
  <2> DEFINE c == [m EXCEPT !.bits = {i \in k.bits : i < k.length}]
  <2>1. c \in Bitmap /\ c.length = m.length
    BY <1>1 DEF Bitmap
  <2>2. Count(c).length = m.length
    <3> HIDE DEF c
    <3>1. QED
      BY <2>1, CountProper DEF Bitmap
  <2>3. QED
    BY <2>2 DEF Copy
<1>7. QED
  BY <1>3, <1>4, <1>5, <1>6

\* A copy into a bitmap that is no shorter has the bits of its source.
LEMMA CopyFacts ==
  ASSUME NEW m \in Buffers, NEW k \in Buffers, k.length <= m.length
  PROVE  Copy(k, m).bits = k.bits
<1>1. /\ Proper(m) /\ m \in Bitmap /\ m.length \in Nat /\ m.length # 0
      /\ Proper(k) /\ k \in Bitmap /\ k.length \in Nat /\ k.length # 0
  BY DEF Buffers, Maps, Bitmap
<1>2. Usable(m) /\ Usable(k)
  BY <1>1, ProperUsable
<1> DEFINE c == [m EXCEPT !.bits = {i \in k.bits : i < k.length}]
<1>3. Copy(k, m) = Count(c)
  BY <1>1, <1>2 DEF Copy
<1>4. \A i \in k.bits : i \in Nat /\ i < k.length
  BY <1>1, BitsFinite
<1>5. c \in Bitmap /\ c.length = m.length /\ c.bits = k.bits
  BY <1>1, <1>4 DEF Bitmap
<1> HIDE DEF c
<1>6. Count(c).bits = {i \in k.bits : i < m.length}
  BY <1>5, CountProper DEF Bitmap
<1>7. \A i \in k.bits : i < m.length
  BY <1>1, <1>4
<1>8. QED
  BY <1>3, <1>6, <1>7

\* The next character narrows the buffer, but never loses an array that both
\* the buffer and the map of the character have.
LEMMA NarrowFacts ==
  ASSUME NEW buf \in Buffers, NEW m \in Maps
  PROVE  /\ Narrow(buf, m) \in Buffers
         /\ m.length # 0 =>
              \A a \in buf.bits : a \in m.bits => a \in Narrow(buf, m).bits
<1>1. /\ Proper(m) /\ m \in Bitmap /\ m.length \in Nat
      /\ Proper(buf) /\ buf \in Maps /\ buf.length \in Nat /\ buf.length # 0
  BY DEF Buffers, Maps, Bitmap
<1> DEFINE sized == IF m.length > buf.length THEN FfpGrow(buf, m.length)
                    ELSE IF m.length < buf.length THEN Shrink(buf, m.length)
                    ELSE buf
           result == And(m, sized)
<1>2. /\ sized \in Maps /\ sized.length # 0 /\ sized.length \in Nat
      /\ m.length # 0 => sized.length = m.length
      /\ \A a \in buf.bits : a \in m.bits => a \in sized.bits
  <2>1. CASE m.length > buf.length
    <3>1. sized = FfpGrow(buf, m.length)
      BY <2>1
    <3>2. sized \in Maps /\ sized.bits = buf.bits /\ sized.length = m.length
      BY <1>1, <2>1, <3>1, FfpGrowFacts
    <3>3. QED
      BY <1>1, <2>1, <3>2
  <2>2. CASE m.length < buf.length
    <3>1. sized = Shrink(buf, m.length)
      BY <1>1, <2>2
    <3>2. /\ sized \in Maps
          /\ sized.length = IF m.length # 0 THEN m.length ELSE buf.length
          /\ \A i \in buf.bits : m.length = 0 \/ i < m.length => i \in sized.bits
      BY <1>1, <2>2, <3>1, ShrinkFacts
    <3>3. \A a \in m.bits : a < m.length
      BY <1>1, BitsFinite
    <3>4. QED
      BY <1>1, <3>2, <3>3
  <2>3. CASE m.length = buf.length
    <3>1. sized = buf
      BY <1>1, <2>3
    <3>2. QED
      BY <1>1, <2>3, <3>1
  <2>4. QED
    BY <1>1, <2>1, <2>2, <2>3
<1> HIDE DEF sized
<1>3. result \in Maps /\ result.length = sized.length
  <2>1. m \in Maps
    OBVIOUS
  <2>2. QED
    BY <1>2, <2>1, LengthsKept
<1>4. m.length # 0 => result.bits = sized.bits \cap m.bits
  <2>1. SUFFICES ASSUME m.length # 0
                 PROVE  result.bits = sized.bits \cap m.bits
    OBVIOUS
  <2>2. Proper(sized) /\ sized.length <= m.length
    BY <1>1, <1>2, <2>1 DEF Maps
  <2>3. QED
    BY <1>1, <1>2, <2>1, <2>2, BlockWiseIsExact
<1> HIDE DEF result
<1>5. Narrow(buf, m) = IF buf.length > result.length THEN Grow(result, buf.length)
                       ELSE result
  BY DEF Narrow, result, sized
<1>6. /\ Narrow(buf, m) \in Maps /\ Narrow(buf, m).bits = result.bits
      /\ Narrow(buf, m).length # 0
  <2>1. /\ Grow(result, buf.length) \in Maps
        /\ Grow(result, buf.length).bits = result.bits
        /\ Grow(result, buf.length).length =
             IF result.length # 0 /\ buf.length > result.length THEN buf.length
             ELSE result.length
    BY <1>1, <1>3, GrowFacts
  <2>2. QED
    BY <1>1, <1>2, <1>3, <1>5, <2>1
<1>7. QED
  BY <1>2, <1>4, <1>6 DEF Buffers

\* One step of the fold that narrows a buffer.
NarrowStep(q) == [x \in Buffers \X (1 .. Len(q)) |-> Narrow(x[1], q[x[2]])]

\* A buffer is narrowed map by map.
LEMMA NarrowTrace ==
  ASSUME NEW first \in Buffers, NEW q \in Seq(Maps)
  PROVE  HasSteps(Buffers, first, NarrowStep(q), Len(q), FoldLeft(Narrow, first, q))
<1> DEFINE n == Len(q)
           F == NarrowStep(q)
           Solves(g) == g = [s \in SUBSET (1 .. n) |->
                               IF s = {} THEN first
                               ELSE Narrow(g[s \ {Max(s)}], q[Max(s)])]
           iter == CHOOSE g : Solves(g)
<1>1. n \in Nat /\ DOMAIN q = 1 .. n
  OBVIOUS
<1>2. FoldLeft(Narrow, first, q) = iter[1 .. n]
  BY <1>1 DEF FoldLeft, MapThenFoldSet
<1>3. /\ F \in [Buffers \X (1 .. n) -> Buffers]
      /\ \A r \in Buffers, i \in 1 .. n : F[<<r, i>>] = Narrow(r, q[i])
  <2>1. \A i \in 1 .. n : q[i] \in Maps
    OBVIOUS
  <2>2. \A x \in Buffers \X (1 .. n) : Narrow(x[1], q[x[2]]) \in Buffers
    BY <2>1, NarrowFacts
  <2>3. QED
    BY <2>2 DEF NarrowStep
<1> HIDE DEF F, n
<1>4. PICK h \in [SUBSET (1 .. n) -> Buffers] : Folds(h, first, F, n)
  <2>1. HasFold(Buffers, first, F, n)
    BY <1>1, <1>3, FoldExists
  <2>2. QED
    BY <2>1 DEF HasFold
<1>5. \A s \in SUBSET (1 .. n) : s # {} => Max(s) \in 1 .. n
  BY <1>1, GreatestElement
<1>6. Solves(h)
  <2>1. h = [s \in SUBSET (1 .. n) |-> h[s]]
    BY <1>4
  <2>2. ASSUME NEW s \in SUBSET (1 .. n)
        PROVE  h[s] = IF s = {} THEN first ELSE Narrow(h[s \ {Max(s)}], q[Max(s)])
    <3>1. h[s] = IF s = {} THEN first ELSE F[<<h[s \ {Max(s)}], Max(s)>>]
      BY <1>4 DEF Folds
    <3>2. h[s \ {Max(s)}] \in Buffers
      BY <1>4
    <3>3. QED
      BY <1>3, <1>5, <3>1, <3>2
  <2>3. QED
    BY <2>1, <2>2
<1>7. Solves(iter)
  <2> HIDE DEF Solves
  <2>1. QED
    BY <1>6
<1> HIDE DEF iter
<1>8. iter[{}] = first
  <2>1. {} \in SUBSET (1 .. n)
    OBVIOUS
  <2>2. QED
    BY <1>7, <2>1
<1>9. ASSUME NEW s \in SUBSET (1 .. n), s # {}, iter[s \ {Max(s)}] \in Buffers
      PROVE  iter[s] = F[<<iter[s \ {Max(s)}], Max(s)>>]
  <2>1. iter[s] = Narrow(iter[s \ {Max(s)}], q[Max(s)])
    BY <1>7, <1>9
  <2>2. QED
    BY <1>3, <1>5, <1>9, <2>1
<1>10. HasSteps(Buffers, first, F, n, iter[1 .. n])
  <2> HIDE DEF Solves
  <2>1. QED
    BY <1>1, <1>3, <1>8, <1>9, TraceOf
<1>11. QED
  BY <1>2, <1>10 DEF F, n

\* Narrowed by one map after the other, a buffer stays one, and keeps every
\* array that it and all the maps have.
LEMMA AllNarrowed ==
  ASSUME NEW first \in Buffers, NEW q \in Seq(Maps)
  PROVE  /\ FoldLeft(Narrow, first, q) \in Buffers
         /\ \A a \in first.bits :
              (\A j \in DOMAIN q : q[j].length # 0 /\ a \in q[j].bits)
                => a \in FoldLeft(Narrow, first, q).bits
<1> DEFINE all == FoldLeft(Narrow, first, q)
           n == Len(q)
<1>1. n \in Nat /\ DOMAIN q = 1 .. n
  OBVIOUS
<1>2. HasSteps(Buffers, first, NarrowStep(q), n, all)
  BY NarrowTrace
<1>3. PICK f \in [0 .. n -> Buffers] : FoldSteps(f, first, NarrowStep(q), n) /\ f[n] = all
  BY <1>2 DEF HasSteps
<1>4. ASSUME NEW k \in 1 .. n
      PROVE  /\ f[k] = Narrow(f[k - 1], q[k])
             /\ f[k - 1] \in Buffers /\ q[k] \in Maps /\ k \in 0 .. n
  <2>1. k - 1 \in 0 .. n /\ k \in 0 .. n
    BY <1>1
  <2>2. f[k - 1] \in Buffers /\ q[k] \in Maps
    BY <1>1, <1>3, <2>1
  <2>3. f[k] = NarrowStep(q)[<<f[k - 1], k>>]
    BY <1>3 DEF FoldSteps
  <2>4. QED
    BY <1>1, <2>1, <2>2, <2>3 DEF NarrowStep
<1>5. ASSUME NEW a \in first.bits,
             \A j \in DOMAIN q : q[j].length # 0 /\ a \in q[j].bits
      PROVE  a \in all.bits
  <2> DEFINE S == {k \in 0 .. n : a \in f[k].bits}
  <2> HIDE DEF all, n
  <2>1. 0 \in S
    BY <1>1, <1>3, <1>5 DEF FoldSteps
  <2>2. ASSUME NEW k \in 1 .. n, k - 1 \in S
        PROVE  k \in S
    <3>1. q[k].length # 0 /\ a \in q[k].bits /\ a \in f[k - 1].bits
      BY <1>1, <1>5, <2>2
    <3>2. a \in Narrow(f[k - 1], q[k]).bits
      BY <1>4, <3>1, NarrowFacts
    <3>3. QED
      BY <1>4, <3>2
  <2>3. \A k \in 0 .. n : k \in S
    <3> HIDE DEF S
    <3>1. QED
      BY <1>1, <2>1, <2>2, PrefixInduction
  <2>4. a \in f[n].bits
    BY <1>1, <2>3
  <2>5. QED
    BY <1>3, <2>4
<1>6. all \in Buffers
  <2> HIDE DEF all, n
  <2>1. n \in 0 .. n
    BY <1>1
  <2>2. QED
    BY <1>3, <2>1
<1>7. QED
  BY <1>5, <1>6

\* Whatever the first buffer held, one start adds the arrays that all the maps
\* have to the second, and takes none from it.
LEMMA TryStartFacts ==
  ASSUME NEW maps \in Seq(Maps), maps # <<>>, NEW bufs \in Buffers \X Buffers
  PROVE  /\ TryStart(maps, bufs) \in Buffers \X Buffers
         /\ bufs[2].bits \subseteq TryStart(maps, bufs)[2].bits
         /\ \A a : (\A j \in DOMAIN maps : maps[j].length # 0 /\ a \in maps[j].bits)
                      => a \in TryStart(maps, bufs)[2].bits
<1> DEFINE m == maps[1]
           sized == FfpGrow(bufs[1], m.length)
           first == Copy(m, sized)
           q == Tail(maps)
           all == FoldLeft(Narrow, first, q)
           large == FfpGrow(bufs[2], all.length)
<1>1. /\ m \in Maps /\ 1 \in DOMAIN maps /\ q \in Seq(Maps)
      /\ \A j \in DOMAIN q : j + 1 \in DOMAIN maps /\ q[j] = maps[j + 1]
  <2>1. Len(maps) \in Nat \ {0} /\ DOMAIN maps = 1 .. Len(maps)
    BY EmptySeq
  <2>2. m \in Maps /\ 1 \in DOMAIN maps
    BY <2>1
  <2>3. /\ q \in Seq(Maps) /\ Len(q) = Len(maps) - 1
        /\ \A j \in 1 .. Len(maps) - 1 : q[j] = maps[j + 1]
    BY HeadTailProperties
  <2>4. QED
    BY <2>1, <2>2, <2>3
<1>2. /\ m.length \in Nat
      /\ bufs = <<bufs[1], bufs[2]>>
      /\ bufs[1] \in Maps /\ bufs[1].length \in Nat /\ bufs[1].length # 0
      /\ bufs[2] \in Maps /\ bufs[2].length \in Nat /\ bufs[2].length # 0
  <2>1. bufs[1] \in Buffers /\ bufs[2] \in Buffers /\ bufs = <<bufs[1], bufs[2]>>
    OBVIOUS
  <2>2. QED
    BY <1>1, <2>1 DEF Buffers, Maps, Bitmap
<1> HIDE DEF m, q
<1>3. /\ sized \in Maps /\ sized.length # 0 /\ sized \in Buffers
      /\ m.length # 0 => m.length <= sized.length
  <2>1. /\ sized \in Maps
        /\ sized.length = IF bufs[1].length # 0 /\ m.length > bufs[1].length
                          THEN m.length ELSE bufs[1].length
    BY <1>2, FfpGrowFacts
  <2>2. QED
    BY <1>2, <2>1 DEF Buffers
<1> HIDE DEF sized
<1>4. first \in Buffers
  <2>1. first \in Maps /\ first.length = sized.length
    BY <1>1, <1>3, LengthsKept
  <2>2. QED
    BY <1>3, <2>1 DEF Buffers
<1>5. m.length # 0 => first.bits = m.bits
  <2>1. m.length # 0 => m \in Buffers
    BY <1>1 DEF Buffers
  <2>2. QED
    BY <1>3, <2>1, CopyFacts
<1> HIDE DEF first
<1>6. /\ all \in Buffers
      /\ \A a \in first.bits :
           (\A j \in DOMAIN q : q[j].length # 0 /\ a \in q[j].bits) => a \in all.bits
  BY <1>1, <1>4, AllNarrowed
<1>7. all \in Maps /\ all.length \in Nat /\ all.length # 0 /\ Proper(all)
  BY <1>6 DEF Buffers, Maps, Bitmap
<1> HIDE DEF all
<1>8. /\ large \in Maps /\ large.bits = bufs[2].bits /\ large.length # 0
      /\ all.length <= large.length
  <2>1. /\ large \in Maps /\ large.bits = bufs[2].bits
        /\ large.length = IF bufs[2].length # 0 /\ all.length > bufs[2].length
                          THEN all.length ELSE bufs[2].length
    BY <1>2, <1>7, FfpGrowFacts
  <2>2. QED
    BY <1>2, <1>7, <2>1
<1> HIDE DEF large
<1>9. /\ Or(all, large) \in Buffers
      /\ Or(all, large).bits = bufs[2].bits \cup all.bits
  <2>1. Or(all, large) \in Maps /\ Or(all, large).length = large.length
    BY <1>7, <1>8, LengthsKept
  <2>2. Proper(large)
    BY <1>8 DEF Maps
  <2>3. Or(all, large).bits = large.bits \cup all.bits
    BY <1>7, <1>8, <2>2, BlockWiseIsExact
  <2>4. QED
    BY <1>8, <2>1, <2>3 DEF Buffers
<1>10. TryStart(maps, bufs) = <<all, Or(all, large)>>
  BY DEF TryStart, all, large, first, sized, m, q
<1>11. ASSUME NEW a, \A j \in DOMAIN maps : maps[j].length # 0 /\ a \in maps[j].bits
       PROVE  a \in all.bits
  <2>1. m.length # 0 /\ a \in m.bits
    BY <1>1, <1>11 DEF m
  <2>2. \A j \in DOMAIN q : q[j].length # 0 /\ a \in q[j].bits
    BY <1>1, <1>11
  <2>3. QED
    BY <1>5, <1>6, <2>1, <2>2
<1>12. QED
  BY <1>6, <1>9, <1>10, <1>11

-----------------------------------------------------------------------------
(* The look-up in the matrix                                               *)

Matrices == [max_length : 0 .. MaxLength,
             map : [1 .. MaxLength -> [Chars -> {NoChar} \cup Maps]]]

Pairs == Buffers \X Buffers

\* The maps a start combines are all there.
LEMMA StartsAre ==
  ASSUME NEW mat \in Matrices, NEW part \in Parts, Len(part) <= mat.max_length
  PROVE  /\ Starts(mat, part) \in Seq(Nat)
         /\ \A p : p \in Range(Starts(mat, part)) <=>
              /\ p \in 1 .. mat.max_length - Len(part) + 1
              /\ \A j \in DOMAIN part : MapsFrom(mat, part, p)[j] # NoChar
         /\ \A p \in Range(Starts(mat, part)) :
              MapsFrom(mat, part, p) \in Seq(Maps) /\ MapsFrom(mat, part, p) # <<>>
<1> DEFINE n == mat.max_length - Len(part) + 1
           l == Len(part)
           q == [p \in 1 .. n |-> p]
           set == {p \in 1 .. n : \A j \in DOMAIN part : MapsFrom(mat, part, p)[j] # NoChar}
<1>0. /\ part \in Seq(Chars) /\ l \in Nat /\ l # 0 /\ DOMAIN part = 1 .. l
      /\ \A j \in 1 .. l : part[j] \in Chars
      /\ MaxLength \in Nat
      /\ mat.max_length \in 0 .. MaxLength
      /\ mat.map \in [1 .. MaxLength -> [Chars -> {NoChar} \cup Maps]]
  <2>1. part \in Seq(Chars) /\ part # <<>> /\ MaxLength \in Nat
    BY SearchAssumption
  <2>2. l \in Nat /\ l # 0 /\ DOMAIN part = 1 .. l /\ \A j \in 1 .. l : part[j] \in Chars
    BY <2>1, EmptySeq
  <2>3. QED
    BY <2>1, <2>2 DEF Matrices
<1>1. n \in Nat /\ \A p \in 1 .. n, j \in 1 .. l : p + j - 1 \in 1 .. MaxLength
  <2>1. mat.max_length \in Nat /\ mat.max_length <= MaxLength /\ l <= mat.max_length
    BY <1>0
  <2> DEFINE x == mat.max_length
  <2> HIDE DEF x, l
  <2>2. x - l + 1 \in Nat /\ \A p \in 1 .. x - l + 1, j \in 1 .. l : p + j - 1 \in 1 .. MaxLength
    BY <1>0, <2>1 DEF x
  <2>3. QED
    BY <2>2 DEF x, l
<1>2. q \in Seq(Nat) /\ Range(q) = 1 .. n
  <2> HIDE DEF n
  <2>1. q \in [1 .. n -> Nat]
    BY <1>1
  <2>2. q \in Seq(Nat)
    BY <1>1, <2>1
  <2>3. QED
    BY <2>2 DEF Range
<1>3. Starts(mat, part) = Only(q, set)
  BY DEF Starts
<1>4. Only(q, set) \in Seq(Nat) /\ Range(Only(q, set)) = Range(q) \cap set
  <2> HIDE DEF q, set
  <2>1. QED
    BY <1>2, OnlyIs
<1>5. \A p : p \in Range(Starts(mat, part)) <=> p \in set
  BY <1>2, <1>3, <1>4
<1>6. ASSUME NEW p \in set
      PROVE  MapsFrom(mat, part, p) \in Seq(Maps) /\ MapsFrom(mat, part, p) # <<>>
  <2> DEFINE m == MapsFrom(mat, part, p)
  <2>1. m = [j \in 1 .. l |-> mat.map[p + j - 1][part[j]]]
    BY <1>0 DEF MapsFrom
  <2>2. ASSUME NEW j \in 1 .. l
        PROVE  m[j] \in Maps
    <3>1. m[j] = mat.map[p + j - 1][part[j]] /\ m[j] # NoChar
      BY <1>0, <2>1
    <3>2. p + j - 1 \in 1 .. MaxLength /\ part[j] \in Chars
      BY <1>0, <1>1
    <3>3. mat.map[p + j - 1][part[j]] \in {NoChar} \cup Maps
      BY <1>0, <3>2
    <3>4. QED
      BY <3>1, <3>3
  <2> HIDE DEF m, l
  <2>3. m \in [1 .. l -> Maps]
    BY <2>1, <2>2
  <2>4. m \in Seq(Maps) /\ Len(m) = l
    BY <1>0, <2>3
  <2>5. m # <<>>
    BY <1>0, <2>4
  <2>6. QED
    BY <2>4, <2>5 DEF m
<1>7. QED
  BY <1>3, <1>4, <1>5, <1>6

\* One step of the fold over the starts.
PartStep(mat, part) ==
  [x \in Pairs \X (1 .. Len(Starts(mat, part))) |->
     TryStart(MapsFrom(mat, part, Starts(mat, part)[x[2]]), x[1])]

\* A look-up goes from start to start.
LEMMA PartTrace ==
  ASSUME NEW mat \in Matrices, NEW part \in Parts, Len(part) <= mat.max_length,
         NEW first \in Pairs
  PROVE  HasSteps(Pairs, first, PartStep(mat, part), Len(Starts(mat, part)),
                  TryStarts(mat, part, first))
<1> DEFINE q == Starts(mat, part)
           n == Len(q)
           F == PartStep(mat, part)
           Solves(g) == g = [s \in SUBSET (1 .. n) |->
                               IF s = {} THEN first
                               ELSE TryStart(MapsFrom(mat, part, q[Max(s)]), g[s \ {Max(s)}])]
           iter == CHOOSE g : Solves(g)
<1>1. n \in Nat /\ DOMAIN q = 1 .. n
  BY StartsAre
<1>2. TryStarts(mat, part, first) = iter[1 .. n]
  BY <1>1 DEF TryStarts, FoldLeft, MapThenFoldSet
<1>3. /\ F \in [Pairs \X (1 .. n) -> Pairs]
      /\ \A r \in Pairs, i \in 1 .. n : F[<<r, i>>] = TryStart(MapsFrom(mat, part, q[i]), r)
  <2>1. \A i \in 1 .. n : /\ MapsFrom(mat, part, q[i]) \in Seq(Maps)
                          /\ MapsFrom(mat, part, q[i]) # <<>>
    <3>1. TAKE i \in 1 .. n
    <3>2. q[i] \in Range(q)
      BY <1>1 DEF Range
    <3>3. QED
      BY <3>2, StartsAre
  <2>2. \A x \in Pairs \X (1 .. n) :
          TryStart(MapsFrom(mat, part, q[x[2]]), x[1]) \in Pairs
    BY <2>1, TryStartFacts DEF Pairs
  <2>3. QED
    BY <2>2 DEF PartStep
<1> HIDE DEF F, n, q
<1>4. PICK h \in [SUBSET (1 .. n) -> Pairs] : Folds(h, first, F, n)
  <2>1. HasFold(Pairs, first, F, n)
    BY <1>1, <1>3, FoldExists
  <2>2. QED
    BY <2>1 DEF HasFold
<1>5. \A s \in SUBSET (1 .. n) : s # {} => Max(s) \in 1 .. n
  BY <1>1, GreatestElement
<1>6. Solves(h)
  <2>1. h = [s \in SUBSET (1 .. n) |-> h[s]]
    BY <1>4
  <2>2. ASSUME NEW s \in SUBSET (1 .. n)
        PROVE  h[s] = IF s = {} THEN first
                      ELSE TryStart(MapsFrom(mat, part, q[Max(s)]), h[s \ {Max(s)}])
    <3>1. h[s] = IF s = {} THEN first ELSE F[<<h[s \ {Max(s)}], Max(s)>>]
      BY <1>4 DEF Folds
    <3>2. h[s \ {Max(s)}] \in Pairs
      BY <1>4
    <3>3. QED
      BY <1>3, <1>5, <3>1, <3>2
  <2>3. QED
    BY <2>1, <2>2
<1>7. Solves(iter)
  <2> HIDE DEF Solves
  <2>1. QED
    BY <1>6
<1> HIDE DEF iter
<1>8. iter[{}] = first
  <2>1. {} \in SUBSET (1 .. n)
    OBVIOUS
  <2>2. QED
    BY <1>7, <2>1
<1>9. ASSUME NEW s \in SUBSET (1 .. n), s # {}, iter[s \ {Max(s)}] \in Pairs
      PROVE  iter[s] = F[<<iter[s \ {Max(s)}], Max(s)>>]
  <2>1. iter[s] = TryStart(MapsFrom(mat, part, q[Max(s)]), iter[s \ {Max(s)}])
    BY <1>7, <1>9
  <2>2. QED
    BY <1>3, <1>5, <1>9, <2>1
<1>10. HasSteps(Pairs, first, F, n, iter[1 .. n])
  <2> HIDE DEF Solves
  <2>1. QED
    BY <1>1, <1>3, <1>8, <1>9, TraceOf
<1>11. QED
  BY <1>2, <1>10 DEF F, n, q

\* An array that has every character of a part in its place, from some start
\* within the longest name.
Holds(mat, part, a) ==
  \E p \in 1 .. mat.max_length - Len(part) + 1 :
    \A j \in DOMAIN part :
      LET m == mat.map[p + j - 1][part[j]] IN
      m # NoChar /\ m.length # 0 /\ a \in m.bits

\* The look-up leaves buffers, and marks every array that holds the part in its
\* maps, whatever earlier look-ups left in the buffers and however the lengths
\* of the maps differ.
LEMMA PartMapFacts ==
  ASSUME NEW mat \in Matrices, NEW part \in Parts,
         NEW buf \in Buffers, NEW buf2 \in Buffers
  PROVE  /\ PartMap(mat, part, buf, buf2) \in Pairs
         /\ \A a : Holds(mat, part, a) => a \in PartMap(mat, part, buf, buf2)[2].bits
<1> DEFINE zeroed == Zeroed(buf2.length)
           first == <<buf, zeroed>>
<1>1. /\ mat.max_length \in Nat /\ part \in Seq(Chars) /\ Len(part) \in Nat
      /\ DOMAIN part = 1 .. Len(part)
  <2>1. part \in Seq(Chars) /\ MaxLength \in Nat
    BY SearchAssumption
  <2>2. QED
    BY <2>1 DEF Matrices
<1>2. first \in Pairs
  <2>1. buf2.length \in Nat /\ buf2.length # 0
    BY DEF Buffers, Maps, Bitmap
  <2>2. Proper(zeroed) /\ zeroed.length = buf2.length
    BY <2>1, ZeroedProper DEF Zeroed
  <2>3. zeroed \in Buffers
    BY <2>1, <2>2 DEF Buffers, Maps, Bitmap, Proper
  <2>4. QED
    BY <2>3 DEF Pairs
<1> HIDE DEF first
<1>3. CASE Len(part) > mat.max_length
  <2>1. PartMap(mat, part, buf, buf2) = first
    BY <1>3 DEF PartMap, first, zeroed
  <2>2. \A a : ~Holds(mat, part, a)
    <3>1. 1 .. mat.max_length - Len(part) + 1 = {}
      BY <1>1, <1>3
    <3>2. QED
      BY <3>1 DEF Holds
  <2>3. QED
    BY <1>2, <2>1, <2>2
<1>4. CASE Len(part) <= mat.max_length
  <2> DEFINE q == Starts(mat, part)
             n == Len(q)
             value == TryStarts(mat, part, first)
  <2>1. PartMap(mat, part, buf, buf2) = value
    BY <1>1, <1>4 DEF PartMap, first, zeroed
  <2>2. HasSteps(Pairs, first, PartStep(mat, part), n, value)
    BY <1>2, <1>4, PartTrace
  <2>3. PICK f \in [0 .. n -> Pairs] :
          FoldSteps(f, first, PartStep(mat, part), n) /\ f[n] = value
    BY <2>2 DEF HasSteps
  <2>4. n \in Nat /\ DOMAIN q = 1 .. n
    BY <1>4, StartsAre
  <2> HIDE DEF q, n, value
  <2>5. ASSUME NEW k \in 1 .. n
        PROVE  /\ f[k] = TryStart(MapsFrom(mat, part, q[k]), f[k - 1])
               /\ f[k - 1] \in Pairs /\ k \in 0 .. n
               /\ MapsFrom(mat, part, q[k]) \in Seq(Maps)
               /\ MapsFrom(mat, part, q[k]) # <<>>
    <3>1. k - 1 \in 0 .. n /\ k \in 0 .. n
      BY <2>4
    <3>2. f[k - 1] \in Pairs
      BY <2>3, <3>1
    <3>3. f[k] = PartStep(mat, part)[<<f[k - 1], k>>]
      BY <2>3 DEF FoldSteps
    <3>4. <<f[k - 1], k>> \in Pairs \X (1 .. Len(Starts(mat, part)))
      BY <3>2 DEF n, q
    <3>5. f[k] = TryStart(MapsFrom(mat, part, q[k]), f[k - 1])
      BY <3>3, <3>4 DEF PartStep, q
    <3>6. q[k] \in Range(q)
      BY <2>4 DEF Range
    <3>7. MapsFrom(mat, part, q[k]) \in Seq(Maps) /\ MapsFrom(mat, part, q[k]) # <<>>
      BY <1>4, <3>6, StartsAre DEF q
    <3>8. QED
      BY <3>1, <3>2, <3>5, <3>7
  <2>6. ASSUME NEW a, Holds(mat, part, a)
        PROVE  a \in value[2].bits
    <3>1. PICK p \in 1 .. mat.max_length - Len(part) + 1 :
            \A j \in DOMAIN part :
              LET m == mat.map[p + j - 1][part[j]] IN
              m # NoChar /\ m.length # 0 /\ a \in m.bits
      BY <2>6 DEF Holds
    <3>2. \A j \in DOMAIN part :
            /\ MapsFrom(mat, part, p)[j] # NoChar
            /\ MapsFrom(mat, part, p)[j].length # 0 /\ a \in MapsFrom(mat, part, p)[j].bits
      BY <3>1 DEF MapsFrom
    <3>3. p \in Range(q)
      BY <1>4, <3>2, StartsAre DEF q
    <3>4. PICK i \in 1 .. n : q[i] = p
      BY <2>4, <3>3 DEF Range
    <3>5. DOMAIN MapsFrom(mat, part, p) = DOMAIN part
      BY DEF MapsFrom
    <3> DEFINE S == {k \in 0 .. n : k >= i => a \in f[k][2].bits}
    <3>6. 0 \in S
      BY <2>4, <3>4
    <3>7. ASSUME NEW k \in 1 .. n, k - 1 \in S
          PROVE  k \in S
      <4>1. /\ f[k - 1][2].bits \subseteq f[k][2].bits
            /\ \A b : (\A j \in DOMAIN MapsFrom(mat, part, q[k]) :
                         /\ MapsFrom(mat, part, q[k])[j].length # 0
                         /\ b \in MapsFrom(mat, part, q[k])[j].bits)
                        => b \in f[k][2].bits
        BY <2>5, TryStartFacts DEF Pairs
      <4>2. CASE k = i
        <5>1. a \in f[k][2].bits
          BY <3>2, <3>4, <3>5, <4>1, <4>2
        <5>2. QED
          BY <2>5, <5>1
      <4>3. CASE k # i
        <5>1. k >= i => k - 1 >= i
          BY <2>4, <4>3
        <5>2. QED
          BY <2>5, <3>7, <4>1, <5>1
      <4>4. QED
        BY <4>2, <4>3
    <3>8. \A k \in 0 .. n : k \in S
      <4> HIDE DEF S
      <4>1. QED
        BY <2>4, <3>6, <3>7, PrefixInduction
    <3>9. n \in 0 .. n /\ n >= i
      BY <2>4
    <3>10. a \in f[n][2].bits
      BY <3>8, <3>9
    <3>11. QED
      BY <2>3, <3>10
  <2>7. value \in Pairs
    <3>1. n \in 0 .. n
      BY <2>4
    <3>2. QED
      BY <2>3, <3>1
  <2>8. QED
    BY <2>1, <2>6, <2>7
<1>5. QED
  BY <1>1, <1>3, <1>4

-----------------------------------------------------------------------------
(* The inductive invariant                                                 *)

Types ==
  /\ file_name \in [Live -> Names] /\ Live \subseteq Entries
  /\ child \in [Live \cup {Root} -> Seq(Live)]
  /\ chain \in [Names \cup Parts -> Seq(Live)]
  /\ node \in [Slots -> Names \cup {NoName}]
  /\ number \in [Slots -> 0 .. MaxNumber]
  /\ matrix \in Matrices
  /\ map_buf \in Buffers /\ map_buf2 \in Buffers
  /\ lost \in 0 .. MaxLost /\ cmds \in 0 .. MaxCmds

\* A chain has the entries of its name, each once.
ChainsExact ==
  \A s \in Names \cup Parts : IsInjective(chain[s]) /\ Range(chain[s]) = Named(s)

\* No directory has a child twice.
ChildrenOnce == \A p \in DOMAIN child : IsInjective(child[p])

\* A name has a structure while it has entries, and never two.
Structures ==
  /\ \A s \in Names : chain[s] # <<>> <=> \E i \in Slots : node[i] = s
  /\ \A i, j \in Slots : node[i] = node[j] /\ node[i] # NoName => i = j

\* The map of each character of a name marks the array its structure is in.
MarkedAt(mat, s, a) ==
  /\ Len(s) <= mat.max_length
  /\ \A j \in DOMAIN s : mat.map[j][s[j]] # NoChar /\ a \in mat.map[j][s[j]].bits

NoneEmpty(mat) ==
  \A p \in 1 .. MaxLength, c \in Chars :
    mat.map[p][c] # NoChar => mat.map[p][c].length # 0

\* As long as no allocation has failed, every name is marked.
Marks ==
  lost = 0 => /\ NoneEmpty(matrix)
              /\ \A i \in Used : MarkedAt(matrix, node[i], i \div L1Size)

Inv == Types /\ ChainsExact /\ ChildrenOnce /\ Structures /\ Marks

-----------------------------------------------------------------------------
(* The search                                                              *)

\* The members of an array of slots have its index.
LEMMA ArrayOf ==
  ASSUME NEW a \in Nat, NEW k \in 1 .. L1Size
  PROVE  /\ a * L1Size + k - 1 \in Nat
         /\ (a * L1Size + k - 1) \div L1Size = a
<1>1. L1Size \in Nat \ {0}
  BY SearchAssumption
<1> DEFINE s == k - 1
<1>2. s \in 0 .. L1Size - 1
  BY <1>1
<1>3. a * L1Size + k - 1 = a * L1Size + s
  BY <1>1
<1> HIDE DEF s
<1>4. a * L1Size + s \in Nat
  BY <1>1, <1>2
<1>5. (a * L1Size + s) \div L1Size = a
  BY <1>1, <1>2
<1>6. QED
  BY <1>3, <1>4, <1>5

\* The used slots of an array, each once.
LEMMA UsedInIs ==
  ASSUME NEW a \in Nat, Types
  PROVE  /\ UsedIn(a) \in Seq(Nat) /\ IsInjective(UsedIn(a))
         /\ Range(UsedIn(a)) = {i \in Used : i \div L1Size = a}
<1> DEFINE q == [k \in 1 .. L1Size |-> a * L1Size + k - 1]
<1>1. L1Size \in Nat \ {0}
  BY SearchAssumption
<1>2. /\ DOMAIN q = 1 .. L1Size
      /\ \A k \in 1 .. L1Size : /\ q[k] = a * L1Size + k - 1 /\ q[k] \in Nat
                                /\ q[k] \div L1Size = a
  BY ArrayOf
<1>3. q \in Seq(Nat)
  <2>1. q \in [1 .. L1Size -> Nat]
    BY <1>2
  <2> HIDE DEF q
  <2>2. QED
    BY <1>1, <2>1
<1>4. IsInjective(q)
  <2>1. SUFFICES ASSUME NEW k \in 1 .. L1Size, NEW l \in 1 .. L1Size,
                        a * L1Size + k - 1 = a * L1Size + l - 1
                 PROVE  k = l
    BY <1>2 DEF IsInjective
  <2> DEFINE x == a * L1Size
  <2>2. x \in Nat
    BY <1>1
  <2> HIDE DEF x
  <2>3. x + k - 1 = x + l - 1
    BY <2>1 DEF x
  <2>4. QED
    BY <1>1, <2>2, <2>3
<1>5. Range(q) = {i \in Nat : i \div L1Size = a}
  <2>1. ASSUME NEW i \in Nat, i \div L1Size = a
        PROVE  i \in Range(q)
    <3> DEFINE r == i % L1Size
               x == a * L1Size
    <3>1. r \in 0 .. L1Size - 1 /\ i = x + r /\ x \in Nat
      BY <1>1, <2>1
    <3> HIDE DEF r, x
    <3>2. r + 1 \in 1 .. L1Size /\ i = x + (r + 1) - 1
      BY <1>1, <3>1
    <3>3. q[r + 1] = x + (r + 1) - 1
      BY <1>2, <3>2 DEF x
    <3> HIDE DEF q
    <3>4. QED
      BY <1>2, <3>2, <3>3 DEF Range
  <2> HIDE DEF q
  <2>2. QED
    BY <1>2, <2>1 DEF Range
<1>6. UsedIn(a) = Only(q, Used)
  BY DEF UsedIn
<1> HIDE DEF q
<1>7. /\ Only(q, Used) \in Seq(Nat) /\ IsInjective(Only(q, Used))
      /\ Range(Only(q, Used)) = Range(q) \cap Used
  BY <1>3, <1>4, OnlyIs
<1>8. Used \subseteq Nat
  BY DEF Used, Slots
<1>9. QED
  BY <1>5, <1>6, <1>7, <1>8

\* The slots the search looks at: the used ones of the arrays marked, each once.
LEMMA SlotsOfIs ==
  ASSUME NEW m \in Maps, Types
  PROVE  /\ SlotsOf(m) \in Seq(Nat) /\ IsInjective(SlotsOf(m))
         /\ Range(SlotsOf(m)) = {i \in Used : i \div L1Size \in m.bits}
<1> DEFINE v == Visited(m)
           lists == [k \in 1 .. m.ones |-> UsedIn(v[k])]
<1>1. m.ones \in Nat /\ m.bits \subseteq Nat /\ Proper(m)
  BY DEF Maps, Bitmap
<1>2. /\ v \in [1 .. m.ones -> m.bits]
      /\ \A i, j \in 1 .. m.ones : i < j => v[i] < v[j]
      /\ \A b \in m.bits : \E i \in 1 .. m.ones : v[i] = b
  BY <1>1, VisitsTheOnes
<1>3. SlotsOf(m) = Joined(lists)
  BY DEF SlotsOf
<1> HIDE DEF v
<1>4. \A k \in 1 .. m.ones :
        /\ v[k] \in Nat /\ lists[k] = UsedIn(v[k])
        /\ lists[k] \in Seq(Nat) /\ IsInjective(lists[k])
        /\ Range(lists[k]) = {i \in Used : i \div L1Size = v[k]}
  <2>1. TAKE k \in 1 .. m.ones
  <2>2. v[k] \in Nat
    BY <1>1, <1>2
  <2>3. QED
    BY <2>2, UsedInIs
<1>5. lists \in Seq(Seq(Nat)) /\ DOMAIN lists = 1 .. m.ones
  <2>1. lists \in [1 .. m.ones -> Seq(Nat)]
    BY <1>4
  <2> HIDE DEF lists
  <2>2. QED
    BY <1>1, <2>1
<1> HIDE DEF lists
<1>6. Disjoint(lists)
  <2>1. ASSUME NEW j \in 1 .. m.ones, NEW k \in 1 .. m.ones, j # k
        PROVE  Range(lists[j]) \cap Range(lists[k]) = {}
    <3>1. v[j] # v[k]
      <4>1. j < k \/ k < j
        BY <1>1, <2>1
      <4>2. v[j] \in Nat /\ v[k] \in Nat
        BY <1>4
      <4>3. QED
        BY <1>2, <4>1, <4>2
    <3>2. QED
      BY <1>4, <3>1
  <2>2. QED
    BY <1>4, <1>5, <2>1 DEF Disjoint
<1>7. /\ Joined(lists) \in Seq(Nat) /\ IsInjective(Joined(lists))
      /\ Range(Joined(lists)) = UNION {Range(lists[k]) : k \in 1 .. m.ones}
  BY <1>5, <1>6, JoinedIs
<1>8. UNION {Range(lists[k]) : k \in 1 .. m.ones} = {i \in Used : i \div L1Size \in m.bits}
  <2>1. ASSUME NEW i, i \in UNION {Range(lists[k]) : k \in 1 .. m.ones}
        PROVE  i \in Used /\ i \div L1Size \in m.bits
    <3>1. PICK k \in 1 .. m.ones : i \in Range(lists[k])
      BY <2>1
    <3>2. i \in {x \in Used : x \div L1Size = v[k]}
      BY <1>4, <3>1
    <3>3. v[k] \in m.bits
      BY <1>2
    <3>4. QED
      BY <3>2, <3>3
  <2>2. ASSUME NEW i \in Used, i \div L1Size \in m.bits
        PROVE  i \in UNION {Range(lists[k]) : k \in 1 .. m.ones}
    <3>1. PICK k \in 1 .. m.ones : v[k] = i \div L1Size
      BY <1>2, <2>2
    <3>2. i \in Range(lists[k])
      BY <1>4, <3>1
    <3>3. QED
      BY <3>2
  <2>3. QED
    BY <2>1, <2>2
<1>9. QED
  BY <1>3, <1>7, <1>8

\* A list without repetitions is as long as the set of its members is large.
LEMMA InjectiveLen ==
  ASSUME NEW Y, NEW q \in Seq(Y), IsInjective(q)
  PROVE  Cardinality(Range(q)) = Len(q)
<1> DEFINE n == Len(q)
           D == 1 .. n
           R == Range(q)
<1>1. n \in Nat /\ DOMAIN q = D /\ n \in Int /\ 1 \in Int
  OBVIOUS
<1> HIDE DEF n
<1>2. IsFiniteSet(D) /\ Cardinality(D) = n
  <2>1. /\ IsFiniteSet(1 .. n)
        /\ Cardinality(1 .. n) = IF 1 > n THEN 0 ELSE n - 1 + 1
    BY <1>1, FS_Interval
  <2>2. QED
    BY <1>1, <2>1
<1>3. q \in [D -> R]
  <2>1. q = [i \in D |-> q[i]]
    BY <1>1
  <2>2. \A i \in D : q[i] \in R
    BY <1>1 DEF Range
  <2> HIDE DEF D, R
  <2>3. QED
    BY <2>1, <2>2
<1>4. q \in Bijection(D, R)
  <2>1. \A r \in R : \E i \in D : q[i] = r
    BY <1>1 DEF Range
  <2> HIDE DEF D, R
  <2>2. QED
    BY <1>3, <2>1 DEF Bijection, Injection, Surjection
<1> HIDE DEF D, R
<1>5. ExistsBijection(D, R)
  BY <1>4 DEF ExistsBijection
<1>6. Cardinality(R) = Cardinality(D)
  BY <1>2, <1>5, FS_Bijection
<1>7. QED
  BY <1>2, <1>6 DEF R, n

\* What fits of a list that repeats nothing.
LEMMA FilledIs ==
  ASSUME NEW Y, NEW q \in Seq(Y), IsInjective(q)
  PROVE  /\ Range(Filled(q)) \subseteq Range(q) /\ IsInjective(Filled(q))
         /\ Len(Filled(q)) = Min({Len(q), BufSize})
<1> DEFINE n == Len(q)
           m == Min({n, BufSize})
<1>1. n \in Nat /\ DOMAIN q = 1 .. n /\ BufSize \in Nat /\ \A i \in 1 .. n : q[i] \in Y
  BY SearchAssumption
<1> HIDE DEF n
<1>2. m \in 0 .. n
  <2>1. m \in {n, BufSize} /\ m <= n
    <3>1. \E x \in {n, BufSize} : \A y \in {n, BufSize} : x =< y
      BY <1>1
    <3>2. QED
      BY <3>1 DEF Min
  <2>2. QED
    BY <1>1, <2>1
<1>3. Filled(q) = SubSeq(q, 1, m)
  BY DEF Filled, n
<1> HIDE DEF m
<1>4. /\ 1 \in Int /\ m \in Int /\ \A i \in 1 .. m : q[i] \in Y
  BY <1>1, <1>2
<1> DEFINE r == SubSeq(q, 1, m)
<1>5. /\ r \in Seq(Y) /\ Len(r) = IF 1 <= m THEN m - 1 + 1 ELSE 0
      /\ \A i \in 1 .. m - 1 + 1 : r[i] = q[1 + i - 1]
  BY <1>4, SubSeqProperties
<1>6. Len(r) = m /\ DOMAIN r = 1 .. m
  BY <1>2, <1>5
<1> HIDE DEF r
<1>7. \A i \in 1 .. m : r[i] = q[i] /\ i \in 1 .. n
  BY <1>1, <1>2, <1>5
<1>8. Range(r) \subseteq Range(q)
  BY <1>1, <1>6, <1>7 DEF Range
<1>9. IsInjective(r)
  BY <1>1, <1>6, <1>7 DEF IsInjective
<1>10. QED
  BY <1>3, <1>6, <1>8, <1>9 DEF r, m, n

\* A set of entries as a list that repeats none.
Lists(q, set) == q \in Seq(Live) /\ IsInjective(q) /\ Range(q) = set

\* The entries whose name has its structure in a slot of T.
InSlots(T) == {e \in Live : \E i \in T : node[i] = file_name[e]}

\* The chains of the structures in different slots, one behind the other, list
\* just the entries of the names of those slots.
LEMMA ChainsJoined ==
  ASSUME Inv, NEW q \in Seq(Nat), IsInjective(q), Range(q) \subseteq Used
  PROVE  Lists(Joined([k \in DOMAIN q |-> chain[node[q[k]]]]), InSlots(Range(q)))
<1> DEFINE lists == [k \in DOMAIN q |-> chain[node[q[k]]]]
           n == Len(q)
<1>1. n \in Nat /\ DOMAIN q = 1 .. n
  OBVIOUS
<1> HIDE DEF n
<1>2. ASSUME NEW k \in 1 .. n
      PROVE  /\ q[k] \in Slots /\ node[q[k]] \in Names
             /\ lists[k] = chain[node[q[k]]] /\ lists[k] \in Seq(Live)
             /\ IsInjective(lists[k]) /\ Range(lists[k]) = Named(node[q[k]])
  <2>1. q[k] \in Used
    BY <1>1 DEF Range
  <2>2. q[k] \in Slots /\ node[q[k]] \in Names
    BY <2>1 DEF Used, Inv, Types
  <2>3. lists[k] = chain[node[q[k]]]
    BY <1>1
  <2> HIDE DEF lists
  <2>4. lists[k] \in Seq(Live) /\ IsInjective(lists[k]) /\ Range(lists[k]) = Named(node[q[k]])
    BY <2>2, <2>3 DEF Inv, Types, ChainsExact
  <2>5. QED
    BY <2>2, <2>3, <2>4
<1>3. DOMAIN lists = 1 .. n
  BY <1>1
<1>4. lists \in Seq(Seq(Live))
  <2>1. lists = [k \in 1 .. n |-> lists[k]]
    BY <1>1
  <2> HIDE DEF lists
  <2>2. lists \in [1 .. n -> Seq(Live)]
    BY <1>2, <2>1
  <2>3. QED
    BY <1>1, <2>2
<1> HIDE DEF lists
<1>5. Disjoint(lists)
  <2>1. ASSUME NEW j \in 1 .. n, NEW k \in 1 .. n, j # k
        PROVE  Range(lists[j]) \cap Range(lists[k]) = {}
    <3>1. q[j] # q[k]
      BY <1>1, <2>1 DEF IsInjective
    <3>2. node[q[j]] # NoName
      BY <1>2, SearchAssumption
    <3>3. node[q[j]] # node[q[k]]
      BY <1>2, <3>1, <3>2 DEF Inv, Structures
    <3>4. QED
      BY <1>2, <3>3 DEF Named
  <2>2. QED
    BY <1>2, <1>3, <2>1 DEF Disjoint
<1>6. /\ Joined(lists) \in Seq(Live) /\ IsInjective(Joined(lists))
      /\ Range(Joined(lists)) = UNION {Range(lists[k]) : k \in 1 .. n}
  BY <1>3, <1>4, <1>5, JoinedIs
<1>7. UNION {Range(lists[k]) : k \in 1 .. n} = InSlots(Range(q))
  <2>1. ASSUME NEW e, e \in UNION {Range(lists[k]) : k \in 1 .. n}
        PROVE  e \in InSlots(Range(q))
    <3>1. PICK k \in 1 .. n : e \in Range(lists[k])
      BY <2>1
    <3>2. e \in Live /\ file_name[e] = node[q[k]] /\ q[k] \in Range(q)
      BY <1>1, <1>2, <3>1 DEF Named, Range
    <3>3. QED
      BY <3>2 DEF InSlots
  <2>2. ASSUME NEW e \in InSlots(Range(q))
        PROVE  e \in UNION {Range(lists[k]) : k \in 1 .. n}
    <3>1. PICK k \in 1 .. n : node[q[k]] = file_name[e]
      BY <1>1 DEF InSlots, Range
    <3>2. e \in Named(node[q[k]])
      BY <3>1 DEF InSlots, Named
    <3>3. QED
      BY <1>2, <3>2
  <2>3. QED
    BY <2>1, <2>2
<1>8. QED
  BY <1>6, <1>7 DEF Lists, lists

\* A list of entries cut down to a set of them.
LEMMA OnlyLists ==
  ASSUME NEW q, NEW T, NEW set, Lists(q, T)
  PROVE  Lists(Only(q, set), T \cap set)
BY OnlyIs DEF Lists

\* Every array with a name that contains the part is marked.
Complete(part, marks) ==
  chain[part] = <<>> =>
    \A i \in Used : HasPart(node[i], part) => i \div L1Size \in marks.bits

\* A search result: meant children, each once, and all of them if the marks
\* are complete.
Exact(seq, p, part, complete) ==
  /\ Lists(seq, Range(seq))
  /\ Range(seq) \subseteq Meant(p, part)
  /\ complete => Range(seq) = Meant(p, part)

\* Whichever list is gone through, the result is exact.
LEMMA SearchedIs ==
  ASSUME Inv, NEW p \in DOMAIN child, NEW part \in Parts, NEW marks \in Maps
  PROVE  Exact(Searched(p, part, marks), p, part, Complete(part, marks))
<1> DEFINE slot == CHOOSE i \in Slots : node[i] = part
           Holding == Only(SlotsOf(marks), {i \in Used : HasPart(node[i], part)})
           found == Searched(p, part, marks)
           lists == [k \in DOMAIN Holding |-> chain[node[Holding[k]]]]
<1>1. /\ child[p] \in Seq(Live) /\ IsInjective(child[p])
      /\ chain[part] \in Seq(Live) /\ IsInjective(chain[part])
      /\ Range(chain[part]) = Named(part)
      /\ Len(child[p]) \in Nat
  BY DEF Inv, Types, ChainsExact, ChildrenOnce
<1>2. Lists(child[p], Range(child[p])) /\ Lists(chain[part], Named(part))
  BY <1>1 DEF Lists
<1>3. Range(child[p]) \subseteq Live
  BY <1>1 DEF Range
<1>4. CASE chain[part] # <<>>
  <2>1. Meant(p, part) = Range(child[p]) \cap Named(part)
    BY <1>3, <1>4 DEF Meant, Named
  <2>2. part \in Names
    <3>1. 1 \in DOMAIN chain[part]
      <4>1. Len(chain[part]) \in Nat /\ Len(chain[part]) # 0
        BY <1>1, <1>4, EmptySeq
      <4>2. QED
        BY <1>1, <4>1
    <3>2. chain[part][1] \in Named(part)
      BY <1>1, <3>1 DEF Range
    <3>3. QED
      BY <3>2 DEF Named, Inv, Types
  <2>3. number[slot] \in Nat
    <3>1. \E i \in Slots : node[i] = part
      BY <1>4, <2>2 DEF Inv, Structures
    <3>2. slot \in Slots
      BY <3>1
    <3> HIDE DEF slot
    <3>3. number[slot] \in 0 .. MaxNumber
      BY <3>2 DEF Inv, Types
    <3>4. QED
      BY <3>3
  <2>4. CASE number[slot] < Len(child[p])
    <3>1. found = ChildrenWith(p, chain[part])
      <4>1. ~(number[slot] >= Len(child[p]))
        BY <1>1, <2>3, <2>4
      <4> HIDE DEF slot
      <4>2. QED
        BY <1>4, <2>4, <4>1 DEF Searched, slot
    <3>2. Lists(found, Named(part) \cap Range(child[p]))
      BY <1>2, <3>1, OnlyLists DEF ChildrenWith
    <3> HIDE DEF found
    <3>3. QED
      BY <2>1, <3>2 DEF Lists, Exact, found
  <2>5. CASE number[slot] >= Len(child[p])
    <3>1. found = Only(child[p], Named(part))
      <4>1. ~(number[slot] < Len(child[p]))
        BY <1>1, <2>3, <2>5
      <4> HIDE DEF slot
      <4>2. QED
        BY <1>4, <2>5, <4>1 DEF Searched, slot
    <3>2. Lists(found, Range(child[p]) \cap Named(part))
      BY <1>2, <3>1, OnlyLists
    <3> HIDE DEF found
    <3>3. QED
      BY <2>1, <3>2 DEF Lists, Exact, found
  <2>6. QED
    BY <1>1, <2>3, <2>4, <2>5
<1>5. CASE chain[part] = <<>>
  <2>1. Meant(p, part) = Range(child[p]) \cap Containing(part)
    BY <1>3, <1>5 DEF Meant, Containing
  <2>2. marks.ones * L1Size \in Nat
    BY SearchAssumption DEF Maps, Bitmap
  <2>3. CASE marks.ones * L1Size > Len(child[p])
    <3>1. found = Only(child[p], Containing(part))
      <4>1. ~(marks.ones * L1Size <= Len(child[p]))
        BY <1>1, <2>2, <2>3
      <4>2. QED
        BY <1>5, <2>3, <4>1 DEF Searched
    <3>2. Lists(found, Range(child[p]) \cap Containing(part))
      BY <1>2, <3>1, OnlyLists
    <3> HIDE DEF found
    <3>3. QED
      BY <2>1, <3>2 DEF Lists, Exact, found
  <2>4. CASE marks.ones * L1Size <= Len(child[p])
    <3>1. found = ChildrenWith(p, Joined(lists))
      <4>1. found = ChildrenWith(p, Joined([k \in DOMAIN Holding |-> chain[node[Holding[k]]]]))
        <5>1. ~(marks.ones * L1Size > Len(child[p]))
          BY <1>1, <2>2, <2>4
        <5>2. QED
          BY <1>5, <2>4, <5>1 DEF Searched
      <4>2. QED
        BY <4>1
    <3>2. Types
      BY DEF Inv
    <3>3. /\ SlotsOf(marks) \in Seq(Nat) /\ IsInjective(SlotsOf(marks))
          /\ Range(SlotsOf(marks)) = {i \in Used : i \div L1Size \in marks.bits}
      BY <3>2, SlotsOfIs
    <3>4. /\ Holding \in Seq(Nat) /\ IsInjective(Holding)
          /\ Range(Holding) = {i \in Used : i \div L1Size \in marks.bits}
                              \cap {i \in Used : HasPart(node[i], part)}
      BY <3>3, OnlyIs
    <3> HIDE DEF Holding
    <3>5. Lists(Joined(lists), InSlots(Range(Holding)))
      BY <3>4, ChainsJoined
    <3> HIDE DEF lists
    <3>6. Lists(found, InSlots(Range(Holding)) \cap Range(child[p]))
      BY <3>1, <3>5, OnlyLists DEF ChildrenWith
    <3>7. InSlots(Range(Holding)) \subseteq Containing(part)
      BY <3>4 DEF InSlots, Containing
    <3>8. ASSUME Complete(part, marks)
          PROVE  Containing(part) \subseteq InSlots(Range(Holding))
      <4>1. SUFFICES ASSUME NEW e \in Containing(part)
                     PROVE  e \in InSlots(Range(Holding))
        OBVIOUS
      <4>2. /\ e \in Live /\ file_name[e] \in Names /\ HasPart(file_name[e], part)
            /\ file_name[e] # NoName
        BY <4>1, SearchAssumption DEF Containing, Inv, Types
      <4>3. e \in Range(chain[file_name[e]])
        BY <4>2 DEF Inv, ChainsExact, Named
      <4>4. chain[file_name[e]] # <<>>
        BY <4>3 DEF Range
      <4>5. PICK i \in Slots : node[i] = file_name[e]
        BY <4>2, <4>4 DEF Inv, Structures
      <4>6. i \in Used
        BY <4>2, <4>5 DEF Used
      <4>7. i \div L1Size \in marks.bits
        BY <1>5, <3>8, <4>2, <4>5, <4>6 DEF Complete
      <4>8. i \in Range(Holding)
        BY <3>4, <4>2, <4>5, <4>6, <4>7
      <4>9. QED
        BY <4>2, <4>5, <4>8 DEF InSlots
    <3> HIDE DEF found
    <3>9. Range(found) = InSlots(Range(Holding)) \cap Range(child[p])
      BY <3>6 DEF Lists
    <3>10. Lists(found, Range(found))
      BY <3>6 DEF Lists
    <3>11. QED
      BY <2>1, <3>7, <3>8, <3>9, <3>10 DEF Exact, found
  <2>5. QED
    BY <1>1, <2>2, <2>3, <2>4
<1>6. QED
  BY <1>4, <1>5

\* The characters of a stretch of a name are the name's at its places.
LEMMA StretchOf ==
  ASSUME NEW s, NEW x \in Int, NEW y \in Int, \A k \in x .. y : s[k] \in Chars
  PROVE  \A k \in 1 .. y - x + 1 : SubSeq(s, x, y)[k] = s[x + k - 1]
BY SubSeqProperties

\* The look-up marks every array with a name that contains the part, as long
\* as no allocation has failed.
LEMMA LookUpComplete ==
  ASSUME Inv, lost = 0, NEW part \in Parts, NEW i \in Used, HasPart(node[i], part)
  PROVE  Holds(matrix, part, i \div L1Size)
<1> DEFINE s == node[i]
           l == Len(part)
<1>1. /\ s \in Names /\ s \in Seq(Chars) /\ Len(s) <= MaxLength /\ Len(s) \in Nat
      /\ MaxLength \in Nat /\ DOMAIN s = 1 .. Len(s)
  <2>1. s \in Names
    BY DEF Used, Inv, Types
  <2>2. s \in Seq(Chars) /\ Len(s) <= MaxLength /\ MaxLength \in Nat
    BY <2>1, SearchAssumption
  <2>3. QED
    BY <2>1, <2>2
<1>2. part \in Seq(Chars) /\ l \in Nat /\ DOMAIN part = 1 .. l /\ l # 0
  BY SearchAssumption, EmptySeq
<1>3. PICK q \in 0 .. Len(s) - l : SubSeq(s, q + 1, q + l) = part
  BY DEF HasPart
<1>4. /\ NoneEmpty(matrix) /\ Len(s) <= matrix.max_length
      /\ \A j \in DOMAIN s : /\ matrix.map[j][s[j]] # NoChar
                             /\ i \div L1Size \in matrix.map[j][s[j]].bits
  BY DEF Inv, Marks, MarkedAt
<1>5. matrix.max_length \in Nat
  BY <1>1 DEF Inv, Types, Matrices
<1> HIDE DEF s, l
<1>6. q + 1 \in 1 .. matrix.max_length - l + 1
  BY <1>1, <1>2, <1>4, <1>5
<1>7. ASSUME NEW j \in 1 .. l
      PROVE  LET m == matrix.map[q + 1 + j - 1][part[j]] IN
             m # NoChar /\ m.length # 0 /\ i \div L1Size \in m.bits
  <2>1. q + 1 \in Int /\ q + l \in Int /\ q + j \in 1 .. Len(s) /\ q + 1 + j - 1 = q + j
    BY <1>1, <1>2
  <2>2. \A k \in q + 1 .. q + l : s[k] \in Chars
    <3>1. \A k \in q + 1 .. q + l : k \in 1 .. Len(s)
      BY <1>1, <1>2
    <3>2. QED
      BY <1>1, <3>1
  <2>3. \A k \in 1 .. (q + l) - (q + 1) + 1 :
          SubSeq(s, q + 1, q + l)[k] = s[(q + 1) + k - 1]
    BY <2>1, <2>2, StretchOf
  <2>4. j \in 1 .. (q + l) - (q + 1) + 1
    BY <1>2
  <2>5. part[j] = s[q + j]
    BY <1>3, <2>1, <2>3, <2>4
  <2>6. q + j \in DOMAIN s /\ q + j \in 1 .. MaxLength /\ s[q + j] \in Chars
    BY <1>1, <2>1
  <2>7. /\ matrix.map[q + j][s[q + j]] # NoChar
        /\ i \div L1Size \in matrix.map[q + j][s[q + j]].bits
    BY <1>4, <2>6
  <2>8. matrix.map[q + j][s[q + j]].length # 0
    BY <1>4, <2>6, <2>7 DEF NoneEmpty
  <2>9. QED
    BY <2>1, <2>5, <2>7, <2>8
<1>8. QED
  BY <1>2, <1>6, <1>7 DEF Holds, l

\* The property, from the invariant.
LEMMA InvFinds ==
  ASSUME Inv
  PROVE  FindsExactly
<1>1. SUFFICES ASSUME NEW p \in DOMAIN child, NEW part \in Parts
               PROVE  LET found == FindChildren(p, part).found
                          meant == Meant(p, part)
                      IN  /\ Range(found) \subseteq meant
                          /\ IsInjective(found)
                          /\ lost = 0 => Len(found) = Min({Cardinality(meant), BufSize})
  BY DEF FindsExactly
<1> DEFINE looked == IF child[p] = <<>> \/ chain[part] # <<>> THEN <<map_buf, map_buf2>>
                     ELSE PartMap(matrix, part, map_buf, map_buf2)
           seq == Searched(p, part, looked[2])
           found == FindChildren(p, part).found
<1>2. CASE child[p] = <<>>
  <2>1. found = <<>>
    BY <1>2 DEF FindChildren
  <2>2. Range(found) = {} /\ IsInjective(found) /\ Len(found) = 0
    BY <2>1 DEF Range, IsInjective
  <2>3. Meant(p, part) = {}
    BY <1>2 DEF Meant, Range
  <2>4. Min({0, BufSize}) = 0
    <3>1. BufSize \in Nat
      BY SearchAssumption
    <3>2. \E x \in {0, BufSize} : \A y \in {0, BufSize} : x =< y
      BY <3>1
    <3>3. QED
      BY <3>1, <3>2 DEF Min
  <2>5. Cardinality({}) = 0
    BY FS_EmptySet
  <2> HIDE DEF found
  <2>6. QED
    BY <2>2, <2>3, <2>4, <2>5 DEF found
<1>3. CASE child[p] # <<>>
  <2>1. found = Filled(seq)
    BY <1>3 DEF FindChildren
  <2>2. /\ matrix \in Matrices /\ map_buf \in Buffers /\ map_buf2 \in Buffers
    BY DEF Inv, Types
  <2>3. looked \in Pairs
    <3>1. PartMap(matrix, part, map_buf, map_buf2) \in Pairs
      BY <2>2, PartMapFacts
    <3>2. <<map_buf, map_buf2>> \in Pairs
      BY <2>2 DEF Pairs
    <3>3. QED
      BY <3>1, <3>2
  <2>4. looked[2] \in Maps
    BY <2>3 DEF Pairs, Buffers
  <2>5. ASSUME lost = 0
        PROVE  Complete(part, looked[2])
    <3>1. SUFFICES ASSUME chain[part] = <<>>, NEW i \in Used, HasPart(node[i], part)
                   PROVE  i \div L1Size \in looked[2].bits
      BY DEF Complete
    <3>2. looked = PartMap(matrix, part, map_buf, map_buf2)
      BY <1>3, <3>1
    <3>3. Holds(matrix, part, i \div L1Size)
      BY <2>5, <3>1, LookUpComplete
    <3>4. i \div L1Size \in PartMap(matrix, part, map_buf, map_buf2)[2].bits
      BY <2>2, <3>3, PartMapFacts
    <3>5. QED
      BY <3>2, <3>4
  <2> HIDE DEF looked
  <2>6. Exact(seq, p, part, Complete(part, looked[2]))
    BY <2>4, SearchedIs
  <2> HIDE DEF seq
  <2>7. /\ seq \in Seq(Live) /\ IsInjective(seq) /\ Range(seq) \subseteq Meant(p, part)
        /\ lost = 0 => Range(seq) = Meant(p, part)
    BY <2>5, <2>6 DEF Exact, Lists
  <2>8. /\ Range(Filled(seq)) \subseteq Range(seq) /\ IsInjective(Filled(seq))
        /\ Len(Filled(seq)) = Min({Len(seq), BufSize})
    BY <2>7, FilledIs
  <2>9. Cardinality(Range(seq)) = Len(seq)
    BY <2>7, InjectiveLen
  <2> HIDE DEF found
  <2>10. QED
    BY <2>1, <2>7, <2>8, <2>9 DEF found
<1>4. QED
  BY <1>2, <1>3

-----------------------------------------------------------------------------
(* Marks in the matrix                                                     *)

\* A bit that is set keeps the others, and is set if the bitmap reaches it.
LEMMA WriteFacts ==
  ASSUME NEW m \in Maps, NEW i \in Nat
  PROVE  /\ Write(m, i) \in Maps /\ Write(m, i).length = m.length
         /\ m.bits \subseteq Write(m, i).bits
         /\ m.length # 0 /\ i < m.length => i \in Write(m, i).bits
<1>1. Proper(m) /\ m \in Bitmap /\ m.length \in Nat
  BY DEF Maps, Bitmap
<1>2. Proper(Write(m, i))
  BY <1>1, WriteProper
<1>3. Write(m, i) \in Maps
  BY <1>2 DEF Maps, Bitmap, Proper
<1>4. CASE ~Usable(m) \/ i >= m.length \/ i \in m.bits
  <2>1. Write(m, i) = m
    BY <1>4 DEF Write
  <2>2. m.length # 0 => Usable(m)
    BY <1>1, ProperUsable
  <2>3. QED
    BY <1>1, <1>3, <1>4, <2>1, <2>2
<1>5. CASE ~(~Usable(m) \/ i >= m.length \/ i \in m.bits)
  <2>1. Write(m, i) = [m EXCEPT !.bits = @ \cup {i}, !.ones = @ + 1, !.zeros = @ - 1]
    BY <1>5 DEF Write
  <2>2. Write(m, i).length = m.length /\ Write(m, i).bits = m.bits \cup {i}
    BY <1>1, <2>1 DEF Bitmap
  <2>3. QED
    BY <1>3, <2>2
<1>6. QED
  BY <1>4, <1>5

\* A mark in the map of a character: it is set unless the map has no blocks,
\* and no other mark goes.
LEMMA MarkedFacts ==
  ASSUME NEW m \in {NoChar} \cup Maps, NEW a \in Nat
  PROVE  /\ Marked(m, a) \in Maps
         /\ m = NoChar \/ m.length # 0 =>
              Marked(m, a).length # 0 /\ a \in Marked(m, a).bits
         /\ m # NoChar => m.bits \subseteq Marked(m, a).bits
<1>0. a + 1 \in Nat /\ a + 1 # 0 /\ a < a + 1
  OBVIOUS
<1>1. CASE m = NoChar
  <2> DEFINE z == Zeroed(a + 1)
  <2>1. Proper(z) /\ z.length = a + 1
    BY <1>0, ZeroedProper DEF Zeroed
  <2>2. z \in Maps
    BY <2>1 DEF Maps, Bitmap, Proper
  <2>3. Marked(m, a) = Write(z, a)
    BY <1>1 DEF Marked
  <2> HIDE DEF z
  <2>4. QED
    BY <1>0, <1>1, <2>1, <2>2, <2>3, WriteFacts
<1>2. CASE m # NoChar
  <2> DEFINE g == FfpGrow(m, a + 1)
  <2>1. m \in Maps /\ m.length \in Nat
    BY <1>2 DEF Maps, Bitmap
  <2>2. /\ g \in Maps /\ g.bits = m.bits
        /\ g.length = IF m.length # 0 /\ a + 1 > m.length THEN a + 1 ELSE m.length
    BY <1>0, <2>1, FfpGrowFacts
  <2>3. Marked(m, a) = Write(g, a)
    BY <1>2 DEF Marked
  <2> HIDE DEF g
  <2>4. /\ Write(g, a) \in Maps /\ Write(g, a).length = g.length
        /\ g.bits \subseteq Write(g, a).bits
        /\ g.length # 0 /\ a < g.length => a \in Write(g, a).bits
    BY <2>2, WriteFacts
  <2>5. m.length # 0 => g.length # 0 /\ a < g.length
    BY <1>0, <2>1, <2>2
  <2>6. QED
    BY <1>2, <2>2, <2>3, <2>4, <2>5
<1>3. QED
  BY <1>1, <1>2

\* The failures an addition can meet, and the one it meets without one.
NoFailure == <<0, "none">>
Failure(s, failure) ==
  failure = NoFailure \/ failure \in (DOMAIN s) \X {"char", "bitmap", "grow"}

\* A failure is of a character of the name.
LEMMA FailuresAre ==
  ASSUME NEW mat, NEW s, NEW a, NEW failure \in Failures(mat, s, a)
  PROVE  Failure(s, failure)
BY DEF Failures, Failure

\* The longer of two lengths.
LEMMA MaxOfTwo ==
  ASSUME NEW m \in Nat, NEW n \in Nat
  PROVE  /\ Max({m, n}) \in {m, n} /\ m <= Max({m, n}) /\ n <= Max({m, n})
<1>1. \E x \in {m, n} : \A y \in {m, n} : x >= y
  OBVIOUS
<1>2. QED
  BY <1>1 DEF Max

\* What an addition makes of the map of a character at position p.
Mark(mat, s, a, failure, p, m) ==
  LET at == failure[1]
      ends == failure[2] \in {"char", "bitmap"}
  IN  IF ends /\ p > at THEN m
      ELSE IF p # at THEN Marked(m, a)
      ELSE CASE failure[2] = "char"   -> m
             [] failure[2] = "bitmap" -> NoBlocks
             [] failure[2] = "grow"   -> Write(m, a)

\* A failing map was there when its growth fails.
Grows(mat, s, failure) ==
  failure[2] = "grow" => mat.map[failure[1]][s[failure[1]]] # NoChar

\* A growth fails only where there was a map to grow.
LEMMA FailuresGrow ==
  ASSUME NEW mat, NEW s, NEW a, NEW failure \in Failures(mat, s, a)
  PROVE  Grows(mat, s, failure)
BY DEF Failures, Grows

\* However an addition ends, the matrix is one.
LEMMA AddedIsMatrix ==
  ASSUME NEW mat \in Matrices, NEW s \in Names, NEW a \in Nat, NEW failure,
         Failure(s, failure), Grows(mat, s, failure)
  PROVE  AddToMatrix(mat, s, a, failure) \in Matrices
<1>1. /\ s \in Seq(Chars) /\ Len(s) \in Nat /\ Len(s) <= MaxLength /\ MaxLength \in Nat
      /\ DOMAIN s = 1 .. Len(s) /\ \A j \in 1 .. Len(s) : s[j] \in Chars
  <2>1. s \in Seq(Chars) /\ Len(s) <= MaxLength /\ MaxLength \in Nat
    BY SearchAssumption
  <2>2. QED
    BY <2>1
<1>2. /\ mat.max_length \in 0 .. MaxLength
      /\ mat.map \in [1 .. MaxLength -> [Chars -> {NoChar} \cup Maps]]
  BY DEF Matrices
<1> DEFINE ends == failure[2] \in {"char", "bitmap"}
           len == IF ends THEN mat.max_length ELSE Max({mat.max_length, Len(s)})
           map == [p \in DOMAIN mat.map |->
                     IF p > Len(s) THEN mat.map[p]
                     ELSE [mat.map[p] EXCEPT ![s[p]] = Mark(mat, s, a, failure, p, @)]]
<1>3. AddToMatrix(mat, s, a, failure) = [max_length |-> len, map |-> map]
  BY DEF AddToMatrix, Mark
<1>4. len \in 0 .. MaxLength
  <2>1. mat.max_length \in Nat /\ mat.max_length <= MaxLength
    BY <1>1, <1>2
  <2> DEFINE x == mat.max_length
             y == Len(s)
  <2>2. x \in Nat /\ y \in Nat /\ x <= MaxLength /\ y <= MaxLength
    BY <1>1, <2>1
  <2> HIDE DEF x, y
  <2>3. Max({x, y}) \in {x, y}
    BY <2>2, MaxOfTwo
  <2>4. x \in 0 .. MaxLength /\ Max({x, y}) \in 0 .. MaxLength
    BY <1>1, <2>2, <2>3
  <2>5. QED
    BY <2>4 DEF x, y
<1>5. ASSUME NEW p \in 1 .. MaxLength, NEW c \in Chars
      PROVE  mat.map[p][c] \in {NoChar} \cup Maps
  BY <1>2
<1>6. ASSUME NEW p \in 1 .. MaxLength, p <= Len(s)
      PROVE  Mark(mat, s, a, failure, p, mat.map[p][s[p]]) \in {NoChar} \cup Maps
  <2> DEFINE m == mat.map[p][s[p]]
  <2>1. m \in {NoChar} \cup Maps
    BY <1>1, <1>5, <1>6
  <2>2. Marked(m, a) \in Maps
    BY <2>1, MarkedFacts
  <2>3. NoBlocks \in Maps
    <3>1. 0 \in Nat
      OBVIOUS
    <3>2. Proper(NoBlocks)
      BY <3>1, ZeroedProper
    <3>3. QED
      BY <3>2 DEF Maps, Bitmap, Proper
  <2>4. CASE p # failure[1]
    BY <2>1, <2>2, <2>4 DEF Mark
  <2>5. CASE p = failure[1]
    <3>1. failure[2] \in {"char", "bitmap", "grow"}
      BY <1>1, <2>5 DEF Failure, NoFailure
    <3>2. ~(p > failure[1])
      BY <2>5
    <3>3. CASE failure[2] = "char"
      BY <2>1, <2>5, <3>2, <3>3 DEF Mark
    <3>4. CASE failure[2] = "bitmap"
      BY <2>3, <2>5, <3>2, <3>4 DEF Mark
    <3>5. CASE failure[2] = "grow"
      <4>1. m # NoChar
        BY <2>5, <3>5 DEF Grows
      <4>2. Write(m, a) \in Maps
        BY <2>1, <4>1, WriteFacts
      <4>3. Mark(mat, s, a, failure, p, m) = Write(m, a)
        BY <2>5, <3>2, <3>5 DEF Mark
      <4>4. QED
        BY <4>2, <4>3
    <3>6. QED
      BY <3>1, <3>3, <3>4, <3>5
  <2>6. QED
    BY <2>4, <2>5
<1>7. map \in [1 .. MaxLength -> [Chars -> {NoChar} \cup Maps]]
  <2>1. ASSUME NEW p \in 1 .. MaxLength
        PROVE  (IF p > Len(s) THEN mat.map[p]
                ELSE [mat.map[p] EXCEPT ![s[p]] = Mark(mat, s, a, failure, p, @)])
               \in [Chars -> {NoChar} \cup Maps]
    <3>1. mat.map[p] \in [Chars -> {NoChar} \cup Maps]
      BY <1>2
    <3>2. CASE p > Len(s)
      BY <3>1, <3>2
    <3>3. CASE ~(p > Len(s))
      <4>1. p <= Len(s)
        BY <1>1, <3>3
      <4>2. Mark(mat, s, a, failure, p, mat.map[p][s[p]]) \in {NoChar} \cup Maps
        BY <1>6, <4>1
      <4>3. QED
        BY <3>1, <3>3, <4>2
    <3>4. QED
      BY <3>2, <3>3
  <2>2. DOMAIN mat.map = 1 .. MaxLength
    BY <1>2
  <2>3. QED
    BY <2>1, <2>2
<1> HIDE DEF len, map
<1>8. QED
  BY <1>3, <1>4, <1>7 DEF Matrices

\* An addition that meets no failure marks every character of the name, keeps
\* every other mark and leaves no map empty.
LEMMA AddedMarks ==
  ASSUME NEW mat \in Matrices, NoneEmpty(mat), NEW s \in Names, NEW a \in Nat
  PROVE  LET new == AddToMatrix(mat, s, a, NoFailure) IN
         /\ NoneEmpty(new) /\ MarkedAt(new, s, a)
         /\ \A t \in Names, b \in Nat : MarkedAt(mat, t, b) => MarkedAt(new, t, b)
<1> DEFINE new == AddToMatrix(mat, s, a, NoFailure)
<1>1. \A t \in Names : /\ t \in Seq(Chars) /\ Len(t) \in Nat /\ Len(t) <= MaxLength
                       /\ DOMAIN t = 1 .. Len(t) /\ \A j \in 1 .. Len(t) : t[j] \in Chars
  <2>1. TAKE t \in Names
  <2>2. t \in Seq(Chars) /\ Len(t) <= MaxLength
    BY SearchAssumption
  <2>3. QED
    BY <2>2
<1>2. /\ mat.max_length \in Nat /\ MaxLength \in Nat
      /\ mat.map \in [1 .. MaxLength -> [Chars -> {NoChar} \cup Maps]]
  BY SearchAssumption DEF Matrices
<1> DEFINE len == Max({mat.max_length, Len(s)})
           map == [p \in DOMAIN mat.map |->
                     IF p > Len(s) THEN mat.map[p]
                     ELSE [mat.map[p] EXCEPT ![s[p]] = Marked(@, a)]]
<1>3. new = [max_length |-> len, map |-> map]
  <2>1. /\ NoFailure[1] = 0 /\ NoFailure[2] = "none"
        /\ NoFailure[2] \notin {"char", "bitmap"}
    BY DEF NoFailure
  <2>2. \A p \in DOMAIN mat.map : p # 0
    BY <1>2
  <2> HIDE DEF NoFailure
  <2>3. QED
    BY <2>1, <2>2 DEF AddToMatrix
<1>4. mat.max_length <= len /\ Len(s) <= len /\ len \in Nat
  BY <1>1, <1>2, MaxOfTwo
<1>5. ASSUME NEW p \in 1 .. MaxLength, NEW c \in Chars
      PROVE  map[p][c] = IF p <= Len(s) /\ c = s[p] THEN Marked(mat.map[p][c], a)
                         ELSE mat.map[p][c]
  <2>1. mat.map[p] \in [Chars -> {NoChar} \cup Maps] /\ p \in DOMAIN mat.map
    BY <1>2
  <2>2. CASE p > Len(s)
    <3>1. ~(p <= Len(s))
      BY <1>1, <2>2
    <3>2. QED
      BY <2>1, <2>2, <3>1
  <2>3. CASE ~(p > Len(s))
    <3>1. p <= Len(s)
      BY <1>1, <2>3
    <3>2. map[p] = [mat.map[p] EXCEPT ![s[p]] = Marked(mat.map[p][s[p]], a)]
      BY <2>1, <2>3
    <3> HIDE DEF map
    <3>3. QED
      BY <2>1, <3>1, <3>2
  <2>4. QED
    BY <2>2, <2>3
<1> HIDE DEF len, map
<1>6. new.max_length = len /\ new.map = map
  BY <1>3
<1> HIDE DEF new
<1>7. ASSUME NEW p \in 1 .. MaxLength, NEW c \in Chars
      PROVE  /\ mat.map[p][c] \in {NoChar} \cup Maps
             /\ Marked(mat.map[p][c], a) \in Maps
             /\ Marked(mat.map[p][c], a).length # 0
             /\ a \in Marked(mat.map[p][c], a).bits
             /\ mat.map[p][c] # NoChar =>
                  mat.map[p][c].bits \subseteq Marked(mat.map[p][c], a).bits
  <2>1. mat.map[p][c] \in {NoChar} \cup Maps
    BY <1>2
  <2>2. mat.map[p][c] = NoChar \/ mat.map[p][c].length # 0
    BY DEF NoneEmpty
  <2>3. QED
    BY <2>1, <2>2, MarkedFacts
<1>8. \A m \in Maps : m # NoChar
  BY SearchAssumption DEF Maps, Bitmap
<1>9. NoneEmpty(new)
  <2>1. SUFFICES ASSUME NEW p \in 1 .. MaxLength, NEW c \in Chars,
                        new.map[p][c] # NoChar
                 PROVE  new.map[p][c].length # 0
    BY DEF NoneEmpty
  <2>2. CASE p <= Len(s) /\ c = s[p]
    BY <1>5, <1>6, <1>7, <2>2
  <2>3. CASE ~(p <= Len(s) /\ c = s[p])
    <3>1. new.map[p][c] = mat.map[p][c]
      BY <1>5, <1>6, <2>3
    <3>2. QED
      BY <2>1, <3>1 DEF NoneEmpty
  <2>4. QED
    BY <2>2, <2>3
<1>10. MarkedAt(new, s, a)
  <2>1. ASSUME NEW j \in DOMAIN s
        PROVE  new.map[j][s[j]] # NoChar /\ a \in new.map[j][s[j]].bits
    <3>1. j \in 1 .. MaxLength /\ j <= Len(s) /\ s[j] \in Chars
      BY <1>1, <1>2
    <3>2. new.map[j][s[j]] = Marked(mat.map[j][s[j]], a)
      BY <1>5, <1>6, <3>1
    <3>3. QED
      BY <1>7, <1>8, <3>1, <3>2
  <2>2. QED
    BY <1>4, <1>6, <2>1 DEF MarkedAt
<1>11. ASSUME NEW t \in Names, NEW b \in Nat, MarkedAt(mat, t, b)
       PROVE  MarkedAt(new, t, b)
  <2>1. ASSUME NEW j \in DOMAIN t
        PROVE  new.map[j][t[j]] # NoChar /\ b \in new.map[j][t[j]].bits
    <3>1. j \in 1 .. MaxLength /\ t[j] \in Chars
      BY <1>1, <1>2
    <3>2. mat.map[j][t[j]] # NoChar /\ b \in mat.map[j][t[j]].bits
      BY <1>11 DEF MarkedAt
    <3>3. CASE j <= Len(s) /\ t[j] = s[j]
      <4>1. new.map[j][t[j]] = Marked(mat.map[j][t[j]], a)
        BY <1>5, <1>6, <3>1, <3>3
      <4>2. QED
        BY <1>7, <1>8, <3>1, <3>2, <4>1
    <3>4. CASE ~(j <= Len(s) /\ t[j] = s[j])
      <4>1. new.map[j][t[j]] = mat.map[j][t[j]]
        BY <1>5, <1>6, <3>1, <3>4
      <4>2. QED
        BY <3>2, <4>1
    <3>5. QED
      BY <3>3, <3>4
  <2>2. Len(t) <= new.max_length
    <3>1. Len(t) <= mat.max_length
      BY <1>11 DEF MarkedAt
    <3>2. Len(t) \in Nat
      BY <1>1
    <3>3. QED
      BY <1>2, <1>4, <1>6, <3>1, <3>2
  <2>3. QED
    BY <2>1, <2>2 DEF MarkedAt
<1>12. QED
  BY <1>9, <1>10, <1>11 DEF new

-----------------------------------------------------------------------------
(* The steps keep the invariant                                            *)

\* The buffers of the start have a length.
LEMMA EmptyBuffer ==
  Zeroed(MapSize) \in Buffers
<1>1. MapSize \in Nat /\ MapSize # 0
  BY SearchAssumption
<1>2. Proper(Zeroed(MapSize)) /\ Zeroed(MapSize).length = MapSize
  BY <1>1, ZeroedProper DEF Zeroed
<1>3. QED
  BY <1>1, <1>2 DEF Buffers, Maps, Bitmap, Proper

\* An empty database keeps the invariant.
LEMMA InitInv ==
  ASSUME Init
  PROVE  Inv
<1>1. /\ MaxEntries \in Nat /\ MaxNumber \in Nat /\ MaxLost \in Nat /\ MaxCmds \in Nat
      /\ MaxLength \in Nat /\ NoName \notin Names
  BY SearchAssumption
<1>2. Live = {} /\ DOMAIN child = {Root}
  BY DEF Init, Live
<1>3. \A s \in Names \cup Parts : chain[s] = <<>>
  BY DEF Init
<1>4. \A i \in Slots : node[i] = NoName
  BY DEF Init
<1>5. Types
  <2>1. file_name \in [Live -> Names] /\ Live \subseteq Entries
    BY <1>2 DEF Init
  <2>2. child \in [Live \cup {Root} -> Seq(Live)] /\ chain \in [Names \cup Parts -> Seq(Live)]
    <3>1. <<>> \in Seq(Live)
      OBVIOUS
    <3>2. QED
      BY <1>2, <3>1 DEF Init
  <2>3. /\ node \in [Slots -> Names \cup {NoName}] /\ number \in [Slots -> 0 .. MaxNumber]
        /\ lost \in 0 .. MaxLost /\ cmds \in 0 .. MaxCmds
    BY <1>1 DEF Init
  <2>4. matrix \in Matrices
    <3>1. /\ matrix.max_length = 0
          /\ matrix = [max_length |-> matrix.max_length, map |-> matrix.map]
          /\ matrix.map = [p \in 1 .. MaxLength |-> [c \in Chars |-> NoChar]]
      BY DEF Init
    <3>2. matrix.map \in [1 .. MaxLength -> [Chars -> {NoChar} \cup Maps]]
      BY <3>1
    <3>3. matrix.max_length \in 0 .. MaxLength
      BY <1>1, <3>1
    <3>4. QED
      BY <3>1, <3>2, <3>3 DEF Matrices
  <2>5. map_buf \in Buffers /\ map_buf2 \in Buffers
    BY EmptyBuffer DEF Init
  <2>6. QED
    BY <2>1, <2>2, <2>3, <2>4, <2>5 DEF Types
<1>6. ChainsExact
  <2>1. ASSUME NEW s \in Names \cup Parts
        PROVE  IsInjective(chain[s]) /\ Range(chain[s]) = Named(s)
    BY <1>2, <1>3 DEF IsInjective, Range, Named
  <2>2. QED
    BY <2>1 DEF ChainsExact
<1>7. ChildrenOnce
  <2>1. \A p \in DOMAIN child : child[p] = <<>>
    BY DEF Init
  <2>2. QED
    BY <2>1 DEF ChildrenOnce, IsInjective
<1>8. Structures
  BY <1>1, <1>3, <1>4 DEF Structures
<1>9. Marks
  <2>1. \A p \in 1 .. MaxLength, c \in Chars : matrix.map[p][c] = NoChar
    BY DEF Init
  <2>2. Used = {}
    BY <1>4 DEF Used
  <2>3. QED
    BY <2>1, <2>2 DEF Marks, NoneEmpty
<1>10. QED
  BY <1>5, <1>6, <1>7, <1>8, <1>9 DEF Inv

\* A look-up leaves buffers behind, and nothing else.
LEMMA FindStep ==
  ASSUME Inv, NEW p \in DOMAIN child, NEW part \in Parts, Find(p, part),
         cmds' \in 0 .. MaxCmds
  PROVE  Inv'
<1>1. /\ file_name' = file_name /\ child' = child /\ chain' = chain /\ node' = node
      /\ number' = number /\ matrix' = matrix /\ lost' = lost
  BY DEF Find
<1> DEFINE bufs == FindChildren(p, part).bufs
<1>2. bufs \in Pairs
  <2>1. matrix \in Matrices /\ map_buf \in Buffers /\ map_buf2 \in Buffers
    BY DEF Inv, Types
  <2>2. PartMap(matrix, part, map_buf, map_buf2) \in Pairs
    BY <2>1, PartMapFacts
  <2>3. <<map_buf, map_buf2>> \in Pairs
    BY <2>1 DEF Pairs
  <2>4. QED
    BY <2>2, <2>3 DEF FindChildren
<1>3. map_buf' = bufs[1] /\ map_buf2' = bufs[2]
  BY DEF Find
<1> HIDE DEF bufs
<1>4. map_buf' \in Buffers /\ map_buf2' \in Buffers
  BY <1>2, <1>3 DEF Pairs
<1>5. QED
  BY <1>1, <1>4 DEF Inv, Types, ChainsExact, ChildrenOnce, Structures, Marks, NoneEmpty,
                    MarkedAt, Live, Named, Used

\* A list of entries without one of them.
LEMMA Without ==
  ASSUME NEW Y, NEW q \in Seq(Y), NEW Z, Range(q) \subseteq Z
  PROVE  q \in Seq(Z)
<1>1. Len(q) \in Nat /\ DOMAIN q = 1 .. Len(q) /\ q = [i \in 1 .. Len(q) |-> q[i]]
  OBVIOUS
<1>2. \A i \in 1 .. Len(q) : q[i] \in Z
  BY <1>1 DEF Range
<1> DEFINE n == Len(q)
<1>3. n \in Nat /\ q = [i \in 1 .. n |-> q[i]] /\ \A i \in 1 .. n : q[i] \in Z
  BY <1>1, <1>2
<1> HIDE DEF n
<1>4. q \in [1 .. n -> Z]
  BY <1>3
<1>5. QED
  BY <1>3, <1>4

\* A deletion of nothing but marks of str_len 0 characters leaves the matrix.
LEMMA DelNothing ==
  ASSUME NEW mat \in Matrices, NEW i \in Slots
  PROVE  DelFromMatrix(mat, i) = mat
<1>1. /\ mat.map \in [1 .. MaxLength -> [Chars -> {NoChar} \cup Maps]]
      /\ mat.max_length \in 0 .. MaxLength
      /\ mat = [max_length |-> mat.max_length, map |-> mat.map]
      /\ MaxLength \in Nat
  BY SearchAssumption DEF Matrices
<1> DEFINE s == node[i]
           a == i \div L1Size
           Others == {j \in Slots \ {i} : j \div L1Size = a /\ node[j] # NoName}
           Shares(p) == \E j \in Others :
                          p <= Len(node[j]) /\ node[j][p] = s[p]
           Unmark(p, m) ==
             LET left == IF Shares(p) THEN m ELSE Clear(m, a)
             IN  IF left.ones = 0 THEN NoChar ELSE left
           map == [p \in DOMAIN mat.map |->
                     IF p > StrLen(s) THEN mat.map[p]
                     ELSE [mat.map[p] EXCEPT ![s[p]] = Unmark(p, @)]]
           taken == {p \in 1 .. StrLen(s) : \E c \in Chars : map[p][c] # NoChar}
           len == IF StrLen(s) # mat.max_length THEN mat.max_length
                  ELSE Max(taken \cup {0})
<1>2. DelFromMatrix(mat, i) = [max_length |-> len, map |-> map]
  BY DEF DelFromMatrix
<1>3. StrLen(s) = 0
  BY DEF StrLen
<1>4. map = mat.map
  <2>1. DOMAIN mat.map = 1 .. MaxLength /\ mat.map = [p \in 1 .. MaxLength |-> mat.map[p]]
    BY <1>1
  <2>2. \A p \in 1 .. MaxLength : p > StrLen(s)
    BY <1>1, <1>3
  <2>3. \A p \in 1 .. MaxLength : map[p] = mat.map[p]
    BY <2>1, <2>2
  <2>4. map = [p \in 1 .. MaxLength |-> map[p]]
    BY <2>1
  <2> HIDE DEF map
  <2>5. QED
    BY <2>1, <2>3, <2>4
<1>5. len = mat.max_length
  <2>1. taken = {}
    <3>1. 1 .. StrLen(s) = {}
      BY <1>3
    <3>2. QED
      BY <3>1
  <2>2. Max({0}) = 0
    BY DEF Max
  <2>3. Max(taken \cup {0}) = 0
    <3> HIDE DEF taken
    <3>1. taken \cup {0} = {0}
      BY <2>1
    <3>2. QED
      BY <2>2, <3>1
  <2> HIDE DEF taken
  <2>4. QED
    BY <1>1, <1>3, <2>3
<1> HIDE DEF len, map
<1>6. QED
  BY <1>1, <1>2, <1>4, <1>5

\* A name that has entries has just one structure.
LEMMA SlotOfIs ==
  ASSUME Inv, NEW s \in Names, chain[s] # <<>>
  PROVE  /\ SlotOf(s) \in Slots /\ node[SlotOf(s)] = s
         /\ \A i \in Slots : node[i] = s => i = SlotOf(s)
<1>1. \E i \in Slots : node[i] = s
  BY DEF Inv, Structures
<1>2. SlotOf(s) \in Slots /\ node[SlotOf(s)] = s
  BY <1>1 DEF SlotOf
<1>3. s # NoName
  BY SearchAssumption
<1>4. QED
  BY <1>2, <1>3 DEF Inv, Structures

\* An entry goes, with the last of a name its structure; the marks stay.
LEMMA DeleteStep ==
  ASSUME Inv, NEW e \in Live, Delete(e), cmds' \in 0 .. MaxCmds
  PROVE  Inv'
<1>0. PICK s : s = file_name[e]
  OBVIOUS
<1> DEFINE i == SlotOf(s)
           Z == Live \ {e}
<1>1. /\ file_name' = [f \in Z |-> file_name[f]]
      /\ child' = [q \in DOMAIN child \ {e} |-> Only(child[q], Z)]
      /\ chain' = [chain EXCEPT ![s] = Only(@, Z)]
      /\ chain[s] = <<e>> =>
           /\ matrix' = DelFromMatrix(matrix, i)
           /\ node' = [node EXCEPT ![i] = NoName]
           /\ number' = [number EXCEPT ![i] = 0]
      /\ chain[s] # <<e>> => matrix' = matrix /\ node' = node /\ number' = number
      /\ map_buf' = map_buf /\ map_buf2' = map_buf2 /\ lost' = lost
  BY <1>0 DEF Delete
<1>2. Types /\ ChainsExact /\ ChildrenOnce /\ Structures /\ Marks
  BY DEF Inv
<1>3. /\ file_name \in [Live -> Names] /\ Live \subseteq Entries
      /\ child \in [Live \cup {Root} -> Seq(Live)]
      /\ chain \in [Names \cup Parts -> Seq(Live)]
      /\ node \in [Slots -> Names \cup {NoName}]
      /\ number \in [Slots -> 0 .. MaxNumber]
      /\ matrix \in Matrices
  BY <1>2 DEF Types
<1>4. s \in Names /\ e \in Named(s) /\ chain[s] # <<>>
  <2>1. s \in Names /\ e \in Named(s)
    BY <1>0, <1>3 DEF Named
  <2>2. e \in Range(chain[s])
    BY <1>2, <2>1 DEF ChainsExact
  <2>3. QED
    BY <2>1, <2>2 DEF Range
<1>5. i \in Slots /\ node[i] = s /\ \A j \in Slots : node[j] = s => j = i
  BY <1>4, SlotOfIs
<1> HIDE DEF i
<1>6. Live' = Z /\ Z \subseteq Live
  BY <1>1 DEF Live
<1>7. \A f \in Z : file_name'[f] = file_name[f]
  BY <1>1
<1>8. matrix' = matrix
  BY <1>1, <1>3, <1>5, DelNothing
<1>9. e # Root
  BY <1>3 DEF Entries, Root
<1>10. DOMAIN child = Live \cup {Root} /\ DOMAIN child' = Z \cup {Root}
  BY <1>1, <1>3, <1>9
<1>11. ASSUME NEW q \in Seq(Live)
       PROVE  /\ Only(q, Z) \in Seq(Z) /\ Range(Only(q, Z)) = Range(q) \cap Z
              /\ IsInjective(q) => IsInjective(Only(q, Z))
  <2>1. /\ Only(q, Z) \in Seq(Live) /\ Range(Only(q, Z)) = Range(q) \cap Z
        /\ IsInjective(q) => IsInjective(Only(q, Z))
    BY OnlyIs
  <2>2. Range(Only(q, Z)) \subseteq Z
    BY <2>1
  <2>3. Only(q, Z) \in Seq(Z)
    BY <2>1, <2>2, Without
  <2>4. QED
    BY <2>1, <2>3
<1>12. ASSUME NEW t \in Names \cup Parts
       PROVE  chain'[t] \in Seq(Z) /\ IsInjective(chain'[t]) /\ Range(chain'[t]) = Named(t)'
  <2>1. Named(t)' = Named(t) \cap Z
    BY <1>6, <1>7 DEF Named
  <2>2. chain[t] \in Seq(Live) /\ IsInjective(chain[t]) /\ Range(chain[t]) = Named(t)
    BY <1>2, <1>3 DEF ChainsExact
  <2>3. CASE t = s
    <3>1. chain'[t] = Only(chain[t], Z)
      BY <1>1, <1>3, <2>3
    <3>2. QED
      BY <1>11, <2>1, <2>2, <3>1
  <2>4. CASE t # s
    <3>1. chain'[t] = chain[t]
      BY <1>1, <1>3, <2>4
    <3>2. e \notin Named(t)
      BY <1>0, <2>4 DEF Named
    <3>3. Named(t) \subseteq Z
      BY <3>2 DEF Named
    <3>4. chain[t] \in Seq(Z)
      BY <2>2, <3>3, Without
    <3>5. QED
      BY <2>1, <2>2, <3>1, <3>3, <3>4
  <2>5. QED
    BY <2>3, <2>4
<1>13. ASSUME NEW q \in Z \cup {Root}
       PROVE  child'[q] \in Seq(Z) /\ IsInjective(child'[q])
  <2>1. q \in DOMAIN child \ {e} /\ q \in Live \cup {Root}
    BY <1>9, <1>10
  <2>2. child[q] \in Seq(Live) /\ IsInjective(child[q])
    BY <1>2, <1>3, <2>1 DEF ChildrenOnce
  <2>3. child'[q] = Only(child[q], Z)
    BY <1>1, <2>1
  <2>4. QED
    BY <1>11, <2>2, <2>3
<1>14. /\ node' \in [Slots -> Names \cup {NoName}] /\ number' \in [Slots -> 0 .. MaxNumber]
  <2>1. 0 \in 0 .. MaxNumber
    BY SearchAssumption
  <2>2. QED
    BY <1>1, <1>3, <2>1
<1>15. Types'
  <2>1. file_name' \in [Z -> Names]
    BY <1>1, <1>3
  <2>2. child' \in [Z \cup {Root} -> Seq(Z)]
    <3>1. child' = [q \in Z \cup {Root} |-> child'[q]]
      BY <1>1, <1>10
    <3>2. QED
      BY <1>13, <3>1
  <2>3. chain' \in [Names \cup Parts -> Seq(Z)]
    <3>1. chain' = [t \in Names \cup Parts |-> chain'[t]]
      BY <1>1, <1>3
    <3>2. QED
      BY <1>12, <3>1
  <2>4. map_buf' \in Buffers /\ map_buf2' \in Buffers /\ lost' \in 0 .. MaxLost
    BY <1>1, <1>2 DEF Types
  <2>5. Z \subseteq Entries
    BY <1>3
  <2> HIDE DEF Z
  <2>6. QED
    BY <1>3, <1>6, <1>8, <1>14, <2>1, <2>2, <2>3, <2>4, <2>5 DEF Types
<1>16. ChainsExact'
  BY <1>12 DEF ChainsExact
<1>17. ChildrenOnce'
  BY <1>10, <1>13 DEF ChildrenOnce
<1>18. CASE chain[s] = <<e>>
  <2>1. \A j \in Slots : node'[j] = IF j = i THEN NoName ELSE node[j]
    BY <1>1, <1>3, <1>18
  <2>2. chain'[s] = <<>>
    <3>1. chain'[s] \in Seq(Z) /\ Range(chain'[s]) = Named(s)'
      BY <1>4, <1>12
    <3>2. Named(s) = {e}
      <4>1. Range(chain[s]) = Named(s) /\ Range(chain[s]) = {e}
        <5>1. Range(<<e>>) = {e}
          BY DEF Range
        <5>2. QED
          BY <1>2, <1>4, <1>18, <5>1 DEF ChainsExact
      <4>2. QED
        BY <4>1
    <3>3. Named(s)' = Named(s) \cap Z
      BY <1>6, <1>7 DEF Named
    <3>4. Range(chain'[s]) = {}
      BY <3>1, <3>2, <3>3
    <3>5. Len(chain'[s]) \in Nat /\ DOMAIN chain'[s] = 1 .. Len(chain'[s])
      BY <3>1
    <3>6. ~(1 <= Len(chain'[s]))
      <4>1. ASSUME 1 <= Len(chain'[s])
            PROVE  FALSE
        <5>1. 1 \in DOMAIN chain'[s]
          BY <3>5, <4>1
        <5>2. QED
          BY <3>4, <5>1 DEF Range
      <4>2. QED
        BY <4>1
    <3>7. Len(chain'[s]) = 0
      BY <3>5, <3>6
    <3>8. QED
      BY <3>1, <3>7, EmptySeq
  <2>3. \A t \in Names : t # s => chain'[t] = chain[t]
    BY <1>1, <1>3
  <2>4. \A t \in Names : t # NoName
    BY SearchAssumption
  <2>5. ASSUME NEW t \in Names
        PROVE  chain'[t] # <<>> <=> \E j \in Slots : node'[j] = t
    <3>1. CASE t = s
      BY <1>5, <2>1, <2>2, <2>4, <3>1
    <3>2. CASE t # s
      <4>1. chain[t] # <<>> <=> \E j \in Slots : node[j] = t
        BY <1>2 DEF Structures
      <4>2. \A j \in Slots : node'[j] = t <=> node[j] = t
        BY <1>5, <2>1, <2>4, <3>2
      <4>3. QED
        BY <2>3, <3>2, <4>1, <4>2
    <3>3. QED
      BY <3>1, <3>2
  <2>6. \A j, k \in Slots : node'[j] = node'[k] /\ node'[j] # NoName => j = k
    BY <1>2, <2>1 DEF Structures
  <2>7. Structures'
    BY <2>5, <2>6 DEF Structures
  <2>8. Used' \subseteq Used /\ \A j \in Used' : node'[j] = node[j]
    BY <2>1 DEF Used
  <2>9. Marks'
    BY <1>1, <1>2, <1>8, <2>8 DEF Marks, NoneEmpty, MarkedAt
  <2>10. QED
    BY <1>15, <1>16, <1>17, <2>7, <2>9 DEF Inv
<1>19. CASE chain[s] # <<e>>
  <2>1. node' = node
    BY <1>1, <1>19
  <2>2. chain'[s] # <<>>
    <3>1. SUFFICES ASSUME chain'[s] = <<>>
                   PROVE  FALSE
      OBVIOUS
    <3>2. Range(chain'[s]) = Named(s)' /\ Named(s)' = Named(s) \cap Z
      BY <1>4, <1>6, <1>7, <1>12 DEF Named
    <3>3. Named(s) \subseteq {e}
      <4>1. Range(chain'[s]) = {}
        BY <3>1 DEF Range
      <4>2. Named(s) \subseteq Live
        BY DEF Named
      <4>3. QED
        BY <3>2, <4>1, <4>2
    <3>4. /\ chain[s] \in Seq(Live) /\ IsInjective(chain[s])
          /\ \A x \in Range(chain[s]) : x = e
      BY <1>2, <1>3, <1>4, <3>3 DEF ChainsExact
    <3>5. Len(chain[s]) \in Nat /\ DOMAIN chain[s] = 1 .. Len(chain[s]) /\ Len(chain[s]) # 0
      BY <1>4, <3>4, EmptySeq
    <3>6. \A k \in 1 .. Len(chain[s]) : chain[s][k] = e
      BY <3>4, <3>5 DEF Range
    <3>7. Len(chain[s]) = 1
      <4>0. Len(chain[s]) = 1 \/ Len(chain[s]) > 1
        <5> DEFINE n == Len(chain[s])
        <5>1. n \in Nat /\ n # 0
          BY <3>5
        <5> HIDE DEF n
        <5>2. n = 1 \/ n > 1
          BY <5>1
        <5>3. QED
          BY <5>2 DEF n
      <4>1. SUFFICES ASSUME Len(chain[s]) > 1
                     PROVE  FALSE
        BY <4>0
      <4>2. 1 \in DOMAIN chain[s] /\ 2 \in DOMAIN chain[s]
        BY <3>5, <4>1
      <4>3. chain[s][1] = chain[s][2]
        BY <3>5, <3>6, <4>2
      <4>4. QED
        BY <3>4, <4>2, <4>3 DEF IsInjective
    <3>8. chain[s] = <<e>>
      <4> DEFINE q == chain[s]
      <4>1. q \in Seq(Live) /\ Len(q) = 1 /\ q[1] = e
        BY <3>4, <3>6, <3>7
      <4> HIDE DEF q
      <4>2. q = <<e>>
        BY <4>1
      <4>3. QED
        BY <4>2 DEF q
    <3>9. QED
      BY <1>19, <3>8
  <2>3. \A t \in Names : t # s => chain'[t] = chain[t]
    BY <1>1, <1>3
  <2>4. Structures'
    <3>1. \A t \in Names : chain'[t] # <<>> <=> chain[t] # <<>>
      BY <1>4, <2>2, <2>3
    <3>2. QED
      BY <1>2, <2>1, <3>1 DEF Structures
  <2>5. Marks'
    BY <1>1, <1>2, <1>8, <2>1 DEF Marks, NoneEmpty, MarkedAt, Used
  <2>6. QED
    BY <1>15, <1>16, <1>17, <2>4, <2>5 DEF Inv
<1>20. QED
  BY <1>18, <1>19

\* While an entry is free, a slot is: structures have different names, and
\* each has an entry.
LEMMA FreeSlotIs ==
  ASSUME Inv, Live # Entries
  PROVE  FreeSlot \in Slots /\ node[FreeSlot] = NoName
<1>1. MaxEntries \in Nat
  BY SearchAssumption
<1>2. SUFFICES ASSUME \A i \in Slots : node[i] # NoName
               PROVE  FALSE
  <2>1. SUFFICES ASSUME NEW x \in Slots, node[x] = NoName
                 PROVE  FreeSlot \in Slots /\ node[FreeSlot] = NoName
    OBVIOUS
  <2> DEFINE T == {i \in Slots : node[i] = NoName}
  <2>2. T \subseteq Nat /\ T # {}
    BY <2>1 DEF Slots
  <2>3. \E m \in T : \A k \in T : m <= k
    <3> HIDE DEF T
    <3>1. QED
      BY <2>2, LeastElement
  <2>4. Min(T) \in T
    <3> HIDE DEF T
    <3>1. QED
      BY <2>3 DEF Min
  <2>5. QED
    BY <2>4 DEF FreeSlot
<1>3. /\ file_name \in [Live -> Names] /\ Live \subseteq Entries
      /\ node \in [Slots -> Names \cup {NoName}]
      /\ chain \in [Names \cup Parts -> Seq(Live)]
  BY DEF Inv, Types
<1> DEFINE first == [i \in Slots |-> chain[node[i]][1]]
<1>4. ASSUME NEW i \in Slots
      PROVE  first[i] \in Live /\ file_name[first[i]] = node[i]
  <2>1. node[i] \in Names
    BY <1>2, <1>3
  <2>2. chain[node[i]] # <<>> /\ chain[node[i]] \in Seq(Live)
    BY <1>3, <2>1 DEF Inv, Structures
  <2>3. 1 \in DOMAIN chain[node[i]]
    <3>1. Len(chain[node[i]]) \in Nat /\ Len(chain[node[i]]) # 0
      BY <2>2, EmptySeq
    <3>2. QED
      BY <2>2, <3>1
  <2>4. first[i] \in Range(chain[node[i]])
    BY <2>3 DEF Range
  <2>5. first[i] \in Named(node[i])
    BY <2>1, <2>4 DEF Inv, ChainsExact
  <2>6. QED
    BY <2>5 DEF Named
<1>5. first \in [Slots -> Live]
  BY <1>4
<1> HIDE DEF first
<1>6. IsFiniteSet(Slots) /\ Cardinality(Slots) = MaxEntries
  BY <1>1, IndexesBefore DEF Slots
<1>7. IsFiniteSet(Live) /\ Cardinality(Live) < MaxEntries
  <2>1. IsFiniteSet(Entries) /\ Cardinality(Entries) = MaxEntries
    <3>1. 1 \in Int /\ MaxEntries \in Int
      BY <1>1
    <3>2. /\ IsFiniteSet(1 .. MaxEntries)
          /\ Cardinality(1 .. MaxEntries) = IF 1 > MaxEntries THEN 0 ELSE MaxEntries - 1 + 1
      BY <3>1, FS_Interval
    <3>3. QED
      BY <1>1, <3>2 DEF Entries
  <2>2. /\ IsFiniteSet(Live) /\ Cardinality(Live) <= Cardinality(Entries)
        /\ Cardinality(Entries) = Cardinality(Live) => Entries = Live
    BY <1>3, <2>1, FS_Subset
  <2>3. Cardinality(Live) \in Nat
    BY <2>2, FS_CardinalityType
  <2>4. QED
    BY <1>1, <2>1, <2>2, <2>3
<1>8. Cardinality(Live) < Cardinality(Slots)
  BY <1>6, <1>7
<1>9. \E x, y \in Slots : x # y /\ first[x] = first[y]
  BY <1>5, <1>6, <1>7, <1>8, FS_PigeonHole
<1>10. PICK x, y \in Slots : x # y /\ first[x] = first[y]
  BY <1>9
<1>11. node[x] = node[y] /\ node[x] # NoName
  BY <1>2, <1>4, <1>10
<1>12. QED
  BY <1>10, <1>11 DEF Inv, Structures

\* The memory lasted, or an addition to the matrix failed and that is on record.
Recorded(s, failure) ==
  \/ failure = NoFailure /\ lost' = lost
  \/ lost' # 0

\* A new entry joins its directory and its name; a new name is marked in the
\* matrix as far as the memory lasts.
LEMMA AddStep ==
  ASSUME Inv, NEW p \in DOMAIN child, NEW s \in Names, NEW failure,
         AddEntry(p, s, failure), Failure(s, failure),
         chain[s] = <<>> => Grows(matrix, s, failure),
         Recorded(s, failure), lost' \in 0 .. MaxLost, cmds' \in 0 .. MaxCmds
  PROVE  Inv'
<1>0. PICK e : e = Min(Entries \ Live)
  OBVIOUS
<1>1. PICK i : i = IF chain[s] = <<>> THEN FreeSlot ELSE SlotOf(s)
  OBVIOUS
<1> DEFINE Z == Live \cup {e}
<1>2. /\ Live # Entries
      /\ file_name' = [f \in Z |-> IF f = e THEN s ELSE file_name[f]]
      /\ child' = [q \in DOMAIN child \cup {e} |->
                     IF q = e THEN <<>>
                     ELSE IF q = p THEN Append(child[q], e) ELSE child[q]]
      /\ number[i] < MaxNumber
      /\ chain' = [chain EXCEPT ![s] = Append(@, e)]
      /\ node' = [node EXCEPT ![i] = s]
      /\ number' = [number EXCEPT ![i] = @ + 1]
      /\ matrix' = IF chain[s] = <<>>
                   THEN AddToMatrix(matrix, s, i \div L1Size, failure)
                   ELSE matrix
      /\ map_buf' = map_buf /\ map_buf2' = map_buf2
  BY <1>0, <1>1 DEF AddEntry, LinkName
<1>3. Types /\ ChainsExact /\ ChildrenOnce /\ Structures /\ Marks
  BY DEF Inv
<1>4. /\ file_name \in [Live -> Names] /\ Live \subseteq Entries
      /\ child \in [Live \cup {Root} -> Seq(Live)]
      /\ chain \in [Names \cup Parts -> Seq(Live)]
      /\ node \in [Slots -> Names \cup {NoName}]
      /\ number \in [Slots -> 0 .. MaxNumber]
      /\ matrix \in Matrices
  BY <1>3 DEF Types
<1>5. e \in Entries /\ e \notin Live /\ e # Root
  <2>1. Entries \ Live \subseteq Nat /\ Entries \ Live # {}
    <3>1. Entries \ Live # {}
      BY <1>2, <1>4
    <3>2. Entries \subseteq Nat
      BY DEF Entries
    <3>3. QED
      BY <3>1, <3>2
  <2>2. \E m \in Entries \ Live : \A k \in Entries \ Live : m <= k
    BY <2>1, LeastElement
  <2>3. e \in Entries \ Live
    BY <1>0, <2>2 DEF Min
  <2>4. QED
    BY <2>3 DEF Entries, Root
<1>6. Live' = Z
  BY <1>2 DEF Live
<1>7. /\ i \in Slots
      /\ chain[s] = <<>> => node[i] = NoName
      /\ chain[s] # <<>> => node[i] = s
  BY <1>1, <1>2, FreeSlotIs, SlotOfIs
<1>8. i \div L1Size \in Nat
  <2>1. i \in Nat /\ L1Size \in Nat \ {0}
    BY <1>7, SearchAssumption DEF Slots
  <2>2. QED
    BY <2>1
<1>9. \A t \in Names : t # NoName
  BY SearchAssumption
<1>10. ASSUME NEW q \in Seq(Live)
       PROVE  /\ q \in Seq(Z) /\ Range(q) \subseteq Live
              /\ Append(q, e) \in Seq(Z) /\ Range(Append(q, e)) = Range(q) \cup {e}
              /\ IsInjective(q) => IsInjective(Append(q, e))
  <2>1. Range(q) \subseteq Live
    BY DEF Range
  <2>2. q \in Seq(Z) /\ e \in Z
    BY <2>1, Without
  <2>3. e \notin Range(q)
    BY <1>5, <2>1
  <2> HIDE DEF Z
  <2>4. /\ Append(q, e) \in Seq(Z) /\ Range(Append(q, e)) = Range(q) \cup {e}
        /\ IsInjective(q) /\ e \notin Range(q) => IsInjective(Append(q, e))
    BY <2>2, AppendFacts
  <2>5. QED
    BY <2>1, <2>2, <2>3, <2>4
<1>11. ASSUME NEW t \in Names \cup Parts
       PROVE  chain'[t] \in Seq(Z) /\ IsInjective(chain'[t]) /\ Range(chain'[t]) = Named(t)'
  <2>1. chain[t] \in Seq(Live) /\ IsInjective(chain[t]) /\ Range(chain[t]) = Named(t)
    BY <1>3, <1>4 DEF ChainsExact
  <2>2. /\ file_name'[e] = s
        /\ \A f \in Live : file_name'[f] = file_name[f]
    BY <1>2, <1>5
  <2>3. Named(t)' = IF t = s THEN Named(t) \cup {e} ELSE Named(t)
    BY <1>6, <2>2 DEF Named
  <2>4. CASE t = s
    <3>1. chain'[t] = Append(chain[t], e)
      BY <1>2, <1>4, <2>4
    <3>2. QED
      BY <1>10, <2>1, <2>3, <2>4, <3>1
  <2>5. CASE t # s
    <3>1. chain'[t] = chain[t]
      BY <1>2, <1>4, <2>5
    <3>2. QED
      BY <1>10, <2>1, <2>3, <2>5, <3>1
  <2>6. QED
    BY <2>4, <2>5
<1>12. DOMAIN child = Live \cup {Root} /\ DOMAIN child' = Z \cup {Root}
  BY <1>2, <1>4
<1>13. ASSUME NEW q \in Z \cup {Root}
       PROVE  child'[q] \in Seq(Z) /\ IsInjective(child'[q])
  <2>1. CASE q = e
    <3>1. child'[q] = <<>>
      BY <1>2, <2>1
    <3>2. <<>> \in Seq(Z) /\ IsInjective(<<>>)
      BY DEF IsInjective
    <3>3. QED
      BY <3>1, <3>2
  <2>2. CASE q # e
    <3>1. q \in DOMAIN child
      BY <1>12, <2>2
    <3>2. child[q] \in Seq(Live) /\ IsInjective(child[q])
      BY <1>3, <1>4, <1>12, <3>1 DEF ChildrenOnce
    <3>3. child'[q] = IF q = p THEN Append(child[q], e) ELSE child[q]
      BY <1>2, <2>2, <3>1
    <3>4. QED
      BY <1>10, <3>2, <3>3
  <2>3. QED
    BY <2>1, <2>2
<1>14. matrix' \in Matrices
  BY <1>2, <1>4, <1>8, AddedIsMatrix
<1>15. Types'
  <2>1. file_name' \in [Z -> Names]
    BY <1>2, <1>4
  <2>2. child' \in [Z \cup {Root} -> Seq(Z)]
    <3>1. child' = [q \in Z \cup {Root} |-> child'[q]]
      BY <1>2, <1>12
    <3>2. QED
      BY <1>13, <3>1
  <2>3. chain' \in [Names \cup Parts -> Seq(Z)]
    <3>1. chain' = [t \in Names \cup Parts |-> chain'[t]]
      BY <1>2, <1>4
    <3>2. QED
      BY <1>11, <3>1
  <2>4. map_buf' \in Buffers /\ map_buf2' \in Buffers
    BY <1>2, <1>3 DEF Types
  <2>5. Z \subseteq Entries
    BY <1>4, <1>5
  <2>6. node' \in [Slots -> Names \cup {NoName}]
    BY <1>2, <1>4
  <2>7. number' \in [Slots -> 0 .. MaxNumber]
    <3>1. number[i] \in 0 .. MaxNumber /\ MaxNumber \in Nat
      BY <1>4, <1>7, SearchAssumption
    <3>2. number[i] + 1 \in 0 .. MaxNumber
      BY <1>2, <3>1
    <3>3. QED
      BY <1>2, <1>4, <3>2
  <2> HIDE DEF Z
  <2>8. QED
    BY <1>6, <1>14, <2>1, <2>2, <2>3, <2>4, <2>5, <2>6, <2>7 DEF Types
<1>16. ChainsExact'
  BY <1>11 DEF ChainsExact
<1>17. ChildrenOnce'
  BY <1>12, <1>13 DEF ChildrenOnce
<1>18. \A j \in Slots : node'[j] = IF j = i THEN s ELSE node[j]
  BY <1>2, <1>4
<1>19. Structures'
  <2>1. ASSUME NEW t \in Names
        PROVE  chain'[t] # <<>> <=> \E j \in Slots : node'[j] = t
    <3>1. CASE t = s
      <4>1. chain'[t] = Append(chain[t], e) /\ chain[t] \in Seq(Live)
        BY <1>2, <1>4, <3>1
      <4>2. chain'[t] # <<>>
        <5>1. e \in Range(chain'[t])
          BY <1>10, <4>1
        <5>2. QED
          BY <5>1 DEF Range
      <4>3. QED
        BY <1>7, <1>18, <3>1, <4>2
    <3>2. CASE t # s
      <4>1. chain'[t] = chain[t]
        BY <1>2, <1>4, <3>2
      <4>2. chain[t] # <<>> <=> \E j \in Slots : node[j] = t
        BY <1>3 DEF Structures
      <4>3. \A j \in Slots : node'[j] = t <=> node[j] = t
        BY <1>7, <1>9, <1>18, <3>2
      <4>4. QED
        BY <4>1, <4>2, <4>3
    <3>3. QED
      BY <3>1, <3>2
  <2>2. ASSUME NEW j \in Slots, NEW k \in Slots, node'[j] = node'[k], node'[j] # NoName
        PROVE  j = k
    <3>1. \A l \in Slots : l # i => node[l] # s
      <4>1. SUFFICES ASSUME NEW l \in Slots, l # i, node[l] = s
                     PROVE  FALSE
        OBVIOUS
      <4>2. chain[s] # <<>>
        BY <1>3, <4>1 DEF Structures
      <4>3. QED
        BY <1>3, <1>7, <1>9, <4>1, <4>2 DEF Structures
    <3>2. CASE j = i \/ k = i
      BY <1>18, <2>2, <3>1, <3>2
    <3>3. CASE j # i /\ k # i
      BY <1>3, <1>18, <2>2, <3>3 DEF Structures
    <3>4. QED
      BY <3>2, <3>3
  <2>3. QED
    BY <2>1, <2>2 DEF Structures
<1>20. Marks'
  <2>1. SUFFICES ASSUME lost' = 0
                 PROVE  /\ NoneEmpty(matrix)'
                        /\ \A j \in Used' : MarkedAt(matrix', node'[j], j \div L1Size)
    BY DEF Marks
  <2>2. failure = NoFailure /\ lost = 0
    BY <2>1 DEF Recorded
  <2>3. NoneEmpty(matrix) /\ \A j \in Used : MarkedAt(matrix, node[j], j \div L1Size)
    BY <1>3, <2>2 DEF Marks
  <2>4. CASE chain[s] = <<>>
    <3> DEFINE new == AddToMatrix(matrix, s, i \div L1Size, NoFailure)
    <3>1. matrix' = new
      BY <1>2, <2>2, <2>4
    <3>2. /\ NoneEmpty(new) /\ MarkedAt(new, s, i \div L1Size)
          /\ \A t \in Names, b \in Nat : MarkedAt(matrix, t, b) => MarkedAt(new, t, b)
      BY <1>4, <1>8, <2>3, AddedMarks
    <3> HIDE DEF new
    <3>3. NoneEmpty(matrix')
      BY <3>1, <3>2
    <3>4. ASSUME NEW j \in Used'
          PROVE  MarkedAt(matrix', node'[j], j \div L1Size)
      <4>1. j \in Slots /\ node'[j] # NoName
        BY DEF Used
      <4>2. CASE j = i
        BY <1>18, <3>1, <3>2, <4>1, <4>2
      <4>3. CASE j # i
        <5>1. node'[j] = node[j] /\ node[j] \in Names /\ j \in Used
          BY <1>4, <1>18, <4>1, <4>3 DEF Used
        <5>2. j \div L1Size \in Nat
          <6>1. j \in Nat /\ L1Size \in Nat \ {0}
            BY <4>1, SearchAssumption DEF Slots
          <6>2. QED
            BY <6>1
        <5>3. MarkedAt(matrix, node[j], j \div L1Size)
          BY <2>3, <5>1
        <5>4. QED
          BY <3>1, <3>2, <5>1, <5>2, <5>3
      <4>4. QED
        BY <4>2, <4>3
    <3>5. QED
      BY <3>3, <3>4
  <2>5. CASE chain[s] # <<>>
    <3>1. matrix' = matrix
      BY <1>2, <2>5
    <3>2. \A j \in Slots : node'[j] = node[j]
      BY <1>7, <1>18, <2>5
    <3>3. \A j \in Used' : j \in Used /\ node'[j] = node[j]
      BY <3>2 DEF Used
    <3>4. NoneEmpty(matrix')
      BY <2>3, <3>1
    <3>5. QED
      BY <2>3, <3>1, <3>3, <3>4
  <2>6. QED
    BY <2>4, <2>5
<1>21. QED
  BY <1>15, <1>16, <1>17, <1>19, <1>20 DEF Inv

\* Every step keeps the invariant.
LEMMA NextInv ==
  ASSUME Inv, [Next]_vars
  PROVE  Inv'
<1>1. CASE UNCHANGED vars
  BY <1>1 DEF vars, Inv, Types, ChainsExact, ChildrenOnce, Structures, Marks, NoneEmpty,
              MarkedAt, Live, Named, Used
<1>2. CASE Next
  <2>1. cmds' \in 0 .. MaxCmds
    <3>1. cmds \in 0 .. MaxCmds /\ MaxCmds \in Nat /\ cmds < MaxCmds /\ cmds' = cmds + 1
      BY <1>2, SearchAssumption DEF Inv, Types, Next
    <3>2. QED
      BY <3>1
  <2>2. ASSUME NEW p \in DOMAIN child, NEW s \in Names, Add(p, s)
        PROVE  Inv'
    <3>1. lost \in 0 .. MaxLost /\ MaxLost \in Nat
      BY SearchAssumption DEF Inv, Types
    <3>2. CASE AddEntry(p, s, NoFailure) /\ UNCHANGED lost
      <4>1. Failure(s, NoFailure) /\ Grows(matrix, s, NoFailure)
        BY DEF Failure, Grows, NoFailure
      <4>2. Recorded(s, NoFailure) /\ lost' \in 0 .. MaxLost
        BY <3>1, <3>2 DEF Recorded
      <4>3. QED
        BY <2>1, <3>2, <4>1, <4>2, AddStep
    <3>3. CASE /\ lost < MaxLost
               /\ lost' = lost + 1
               /\ \E failure \in Failures(matrix, s, FreeSlot \div L1Size) :
                    AddEntry(p, s, failure)
      <4>1. PICK failure \in Failures(matrix, s, FreeSlot \div L1Size) :
              AddEntry(p, s, failure)
        BY <3>3
      <4>2. Failure(s, failure) /\ Grows(matrix, s, failure)
        BY FailuresAre, FailuresGrow
      <4>3. Recorded(s, failure) /\ lost' \in 0 .. MaxLost
        BY <3>1, <3>3 DEF Recorded
      <4>4. QED
        BY <2>1, <4>1, <4>2, <4>3, AddStep
    <3>4. QED
      BY <2>2, <3>2, <3>3 DEF Add, NoFailure
  <2>3. QED
    BY <1>2, <2>1, <2>2, DeleteStep, FindStep DEF Next
<1>3. QED
  BY <1>1, <1>2

\* The invariant holds in every reachable state.
LEMMA SpecInv ==
  Spec => []Inv
<1>1. Init => Inv
  BY InitInv
<1>2. Inv /\ [Next]_vars => Inv'
  BY NextInv
<1>3. QED
  BY <1>1, <1>2, PTL DEF Spec

\* Every bitmap of the matrix and of the search counts its one bits exactly, and
\* the lists of children, of names and of structures stay lists of what is live,
\* whichever allocations of the matrix have failed.
THEOREM TypeCorrect ==
  Spec => []TypeOK
<1>1. Inv => TypeOK
  <2>1. SUFFICES ASSUME Inv
                 PROVE  TypeOK
    OBVIOUS
  <2>2. matrix \in Matrices /\ map_buf \in Buffers /\ map_buf2 \in Buffers
    BY <2>1 DEF Inv, Types
  <2>3. WellCounted(map_buf) /\ WellCounted(map_buf2)
    BY <2>2 DEF Buffers, Maps, Proper
  <2>4. \A p \in DOMAIN matrix.map, c \in Chars :
          matrix.map[p][c] = NoChar \/ WellCounted(matrix.map[p][c])
    <3>1. TAKE p \in DOMAIN matrix.map, c \in Chars
    <3>2. matrix.map[p][c] \in {NoChar} \cup Maps
      BY <2>2 DEF Matrices
    <3>3. QED
      BY <3>2 DEF Maps, Proper
  <2>5. matrix.max_length \in 0 .. MaxLength
    BY <2>2 DEF Matrices
  <2>6. QED
    BY <2>1, <2>3, <2>4, <2>5 DEF Inv, Types, TypeOK
<1>2. QED
  BY <1>1, SpecInv, PTL

\* Whichever way the costs make find_children_via_file_name go, whatever marks
\* deleted names have left in the matrix and earlier look-ups in the buffers,
\* and however the lengths of the maps differ, it returns meant children only,
\* none twice, and as long as no allocation of the matrix has failed as many as
\* the buffer takes.
THEOREM SearchIsExact ==
  Spec => []FindsExactly
<1>1. Inv => FindsExactly
  BY InvFinds
<1>2. QED
  BY <1>1, SpecInv, PTL
=============================================================================
