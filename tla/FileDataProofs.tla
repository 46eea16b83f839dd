--------------------------- MODULE FileDataProofs ---------------------------
(***************************************************************************)
(* Proofs about file data, for every class table, every size of files and of *)
(* memory, and any number of commands: the arithmetic of fingerprint_file,   *)
(* then the commands that fill in, change and take away file data.           *)
(***************************************************************************)
EXTENDS FileData, FiniteSetTheorems, WellFoundedInduction, SequenceTheorems,
        TLAPS

-----------------------------------------------------------------------------
(* Facts about numbers the proofs rest on                                  *)

\* A non-empty set of natural numbers has a least element.
LEMMA LeastElement ==
  ASSUME NEW T, T \subseteq Nat, T # {}
  PROVE  \E m \in T : \A k \in T : m <= k
<1>1. PICK m \in T : \A k \in T : <<k, m>> \notin OpToRel(<, Nat)
  BY NatLessThanWellFounded, WFMin
<1>2. ASSUME NEW k \in T, k < m
      PROVE  FALSE
  <2>1. <<k, m>> \in OpToRel(<, Nat)
    BY <1>2 DEF OpToRel
  <2>2. QED
    BY <1>1, <2>1
<1>3. \A k \in T : ~(k < m)
  BY <1>2
<1>4. \A k \in T : k \in Nat /\ m \in Nat
  OBVIOUS
<1>5. \A k \in T : m <= k
  BY <1>3, <1>4
<1>6. QED
  BY <1>5

\* A set that has 0 and the successor of each of its numbers has them all.
LEMMA SetInduction ==
  ASSUME NEW S, 0 \in S, \A n \in Nat : n \in S => n + 1 \in S
  PROVE  Nat \subseteq S
<1>1. SUFFICES ASSUME Nat \ S # {}
               PROVE  FALSE
  OBVIOUS
<1>2. PICK m \in Nat \ S : \A k \in Nat \ S : m <= k
  BY <1>1, LeastElement
<1>3. m - 1 \in Nat /\ m - 1 \in S
  BY <1>2
<1>4. QED
  BY <1>2, <1>3

\* The sizes that fingerprint_file splits: not 0, which it treats before, and
\* not the size of the last class, which lies in no class.
Splits(size) == size \in Nat \ {0} /\ size # LastClass

-----------------------------------------------------------------------------
(* Arithmetic                                                              *)

\* A number that is a multiple and a rest is split by \div and %.
LEMMA DivisionIsUnique ==
  ASSUME NEW q \in Nat \ {0}, NEW k \in Nat, NEW t \in Nat, t < q
  PROVE  /\ (k * q + t) \div q = k
         /\ (k * q + t) % q = t
OBVIOUS

\* The quotient that is rounded up.
LEMMA RoundedUp ==
  ASSUME NEW size \in Nat \ {0}, NEW n \in Nat \ {0}
  PROVE  LET q == (size + n - 1) \div n
         IN  /\ q \in Nat \ {0}
             /\ size <= n * q
             /\ n * q <= size + n - 1
<1> DEFINE q == (size + n - 1) \div n
<1> DEFINE r == (size + n - 1) % n
<1>1. /\ q \in Int /\ r \in 0 .. n - 1
      /\ size + n - 1 = n * q + r
  OBVIOUS
<1>2. size <= n * q /\ n * q <= size + n - 1
  <2>1. n * q \in Int
    BY <1>1
  <2> HIDE DEF q, r
  <2>2. QED
    BY <1>1, <2>1
<1>3. q > 0
  <2>1. SUFFICES ASSUME q <= 0
                 PROVE  FALSE
    BY <1>1
  <2> HIDE DEF q, r
  <2>2. n * q <= 0
    BY <1>1, <2>1
  <2>3. QED
    BY <1>1, <1>2, <2>2
<1>4. QED
  BY <1>1, <1>2, <1>3

\* When the number of sections times the one less is at most the size, the last
\* of the rounded up sections is not empty.
LEMMA LastNotEmpty ==
  ASSUME NEW size \in Nat \ {0}, NEW n \in Nat \ {0}, NEW q \in Nat \ {0},
         n * (n - 1) <= size, size <= n * q, n * q <= size + n - 1
  PROVE  (n - 1) * q < size
<1>1. /\ (n - 1) * q = n * q - q
      /\ n * q \in Nat
  OBVIOUS
<1>2. CASE q >= n
  <2>1. n * q - q <= size + n - 1 - n
    BY <1>1, <1>2
  <2>2. QED
    BY <1>1, <2>1
<1>3. CASE q = n - 1
  <2>1. n * q = n * (n - 1)
    BY <1>3
  <2>2. n * q = size
    BY <2>1, <1>1
  <2>3. QED
    BY <1>1, <2>2
<1>4. CASE q < n - 1
  <2>1. n * q < n * (n - 1)
    BY <1>4
  <2>2. n * (n - 1) \in Nat
    OBVIOUS
  <2>3. QED
    BY <1>1, <2>1, <2>2
<1>5. QED
  BY <1>2, <1>3, <1>4

-----------------------------------------------------------------------------
(* The number of sections                                                  *)

\* Every size between the small ones and the last class lies in a class.
LEMMA SomeClass ==
  ASSUME NEW size \in Nat, size < LastClass
  PROVE  \E k \in Classes : InClass(size, k)
<1> DEFINE T == {k \in Classes : size < ClassSize[k]}
<1>1. Len(ClassSize) \in Classes
  BY LayoutAssumption DEF Classes
<1>2. T \subseteq Nat /\ T # {}
  BY <1>1 DEF Classes, LastClass
<1>3. PICK k \in T : \A j \in T : k <= j
  <2> HIDE DEF T
  <2> QED
    BY <1>2, LeastElement
<1>4. ASSUME NEW j \in 1 .. (k - 1)
      PROVE  ClassSize[j] <= size
  <2>1. j \in Classes
    BY <1>3 DEF Classes
  <2>2. j \notin T
    BY <1>3 DEF Classes
  <2>3. ClassSize[j] \in Nat
    BY <2>1, LayoutAssumption DEF Classes
  <2>4. QED
    BY <2>1, <2>2, <2>3
<1>5. QED
  BY <1>3, <1>4 DEF InClass

\* There is a section, and few enough of them for the size.
LEMMA NumberFits ==
  ASSUME NEW size, Splits(size)
  PROVE  /\ SectNum(size) \in Nat \ {0}
         /\ SectNum(size) * (SectNum(size) - 1) <= size
<1> USE DEF Splits
<1>1. LastClass \in Nat /\ SmallSize \in Nat
  BY LayoutAssumption DEF LastClass
<1>2. CASE size < SmallSize
  BY <1>2 DEF SectNum
<1>3. CASE ~ (size < SmallSize) /\ size > LastClass
  <2>1. SectNum(size) = FallbackNum
    BY <1>1, <1>3 DEF SectNum
  <2>2. FallbackNum * (FallbackNum - 1) <= LastClass /\ FallbackNum \in Nat \ {0}
    BY LayoutAssumption
  <2>3. FallbackNum * (FallbackNum - 1) \in Int
    BY <2>2
  <2>4. QED
    BY <1>1, <1>3, <2>1, <2>2, <2>3
<1>4. CASE ~ (size < SmallSize) /\ size < LastClass
  <2> DEFINE c == CHOOSE k \in Classes : InClass(size, k)
  <2>1. c \in Classes /\ InClass(size, c)
    BY <1>4, SomeClass
  <2>2. SectNum(size) = IdealNum[c]
    BY <1>1, <1>4 DEF SectNum
  <2> HIDE DEF c
  <2>3. /\ IdealNum[c] \in Nat \ {0}
        /\ IdealNum[c] * (IdealNum[c] - 1) <= ClassFloor(c)
    BY <2>1, LayoutAssumption
  <2>4. ClassFloor(c) \in Nat /\ ClassFloor(c) <= size
    <3>1. CASE c = 1
      BY <1>1, <1>4, <3>1 DEF ClassFloor
    <3>2. CASE c # 1
      <4>1. c - 1 \in 1 .. (c - 1) /\ c - 1 \in Classes
        BY <2>1, <3>2 DEF Classes
      <4>2. ClassSize[c - 1] <= size /\ ClassSize[c - 1] \in Nat
        BY <2>1, <4>1, LayoutAssumption DEF InClass, Classes
      <4>3. QED
        BY <3>2, <4>2 DEF ClassFloor
    <3>3. QED
      BY <3>1, <3>2
  <2>5. IdealNum[c] * (IdealNum[c] - 1) \in Int
    BY <2>3
  <2>6. QED
    BY <2>2, <2>3, <2>4, <2>5
<1>5. QED
  BY <1>1, <1>2, <1>3, <1>4
-----------------------------------------------------------------------------
(* Where the sections lie                                                  *)

\* The last section is what the others leave, and is not empty.
LEMMA LastIsTheRest ==
  ASSUME NEW size, Splits(size)
  PROVE  /\ NormSize(size) \in Nat \ {0}
         /\ LastSize(size) \in 1 .. NormSize(size)
         /\ (SectNum(size) - 1) * NormSize(size) + LastSize(size) = size
<1> DEFINE n == SectNum(size)
<1> DEFINE q == NormSize(size)
<1>1. size \in Nat \ {0}
  BY DEF Splits
<1>2. n \in Nat \ {0} /\ n * (n - 1) <= size
  BY NumberFits
<1>3. q \in Nat \ {0} /\ size <= n * q /\ n * q <= size + n - 1
  <2> HIDE DEF n
  <2>1. (size + n - 1) \div n = q
    BY DEF NormSize, n
  <2>2. QED
    BY <1>1, <1>2, <2>1, RoundedUp
<1>4. LastSize(size) = IF size % q = 0 THEN q ELSE size % q
  BY DEF LastSize
<1> HIDE DEF n, q
<1>5. (n - 1) * q < size
  BY <1>1, <1>2, <1>3, LastNotEmpty
<1> DEFINE t == size - (n - 1) * q
<1>6. /\ n * q = (n - 1) * q + q
      /\ (n - 1) * q \in Nat
  BY <1>2, <1>3
<1>7. t \in 1 .. q
  BY <1>1, <1>3, <1>5, <1>6
<1>8. CASE t = q
  <2>1. size = n * q + 0
    BY <1>1, <1>6, <1>8
  <2>2. size % q = 0
    BY <1>2, <1>3, <2>1, DivisionIsUnique
  <2>3. QED
    BY <1>1, <1>3, <1>4, <1>6, <1>7, <1>8, <2>2 DEF n, q
<1>9. CASE t < q
  <2>1. size = (n - 1) * q + t /\ n - 1 \in Nat /\ t \in Nat
    BY <1>1, <1>2, <1>6, <1>7
  <2> HIDE DEF t
  <2>2. size % q = t
    BY <1>3, <1>9, <2>1, DivisionIsUnique
  <2>3. LastSize(size) = t
    BY <1>4, <1>7, <2>2
  <2>4. QED
    BY <1>3, <1>7, <2>1, <2>3 DEF n, q
<1>10. QED
  BY <1>3, <1>7, <1>8, <1>9

\* fingerprint_file's sections partition the file: the first starts at its first
\* byte, each starts where the one before ends, none is empty or larger than the
\* normal size, and the last one ends with the last byte.
THEOREM SectionsPartition ==
  ASSUME NEW size, Splits(size)
  PROVE  /\ SectNum(size) \in Nat \ {0}
         /\ SectStart(size, 0) = 0
         /\ \A i \in 0 .. SectNum(size) - 1 : SectSize(size, i) \in 1 .. NormSize(size)
         /\ \A i \in 0 .. SectNum(size) - 2 : SectStart(size, i + 1) = SectEnd(size, i) + 1
         /\ SectEnd(size, SectNum(size) - 1) = size - 1
<1>1. SectNum(size) \in Nat \ {0}
  BY NumberFits
<1>2. /\ NormSize(size) \in Nat \ {0}
      /\ LastSize(size) \in 1 .. NormSize(size)
      /\ (SectNum(size) - 1) * NormSize(size) + LastSize(size) = size
  BY LastIsTheRest
<1>3. SectStart(size, 0) = 0
  BY <1>2 DEF SectStart
<1>4. ASSUME NEW i \in 0 .. SectNum(size) - 1
      PROVE  SectSize(size, i) \in 1 .. NormSize(size)
  BY <1>1, <1>2 DEF SectSize
<1>5. ASSUME NEW i \in 0 .. SectNum(size) - 2
      PROVE  SectStart(size, i + 1) = SectEnd(size, i) + 1
  <2>1. SectSize(size, i) = NormSize(size)
    BY <1>1 DEF SectSize
  <2>2. (i + 1) * NormSize(size) = i * NormSize(size) + NormSize(size)
    BY <1>2
  <2>3. i * NormSize(size) \in Int
    BY <1>2
  <2>4. QED
    BY <1>2, <2>1, <2>2, <2>3 DEF SectStart, SectEnd
<1>6. SectEnd(size, SectNum(size) - 1) = size - 1
  <2>1. SectSize(size, SectNum(size) - 1) = LastSize(size)
    BY <1>1 DEF SectSize
  <2>2. (SectNum(size) - 1) * NormSize(size) \in Int /\ size \in Nat
    BY <1>1, <1>2 DEF Splits
  <2>3. QED
    BY <1>2, <2>1, <2>2 DEF SectStart, SectEnd
<1>7. QED
  BY <1>1, <1>3, <1>4, <1>5, <1>6

-----------------------------------------------------------------------------
(* Where samples are taken                                                 *)

\* The share of a number that lies below a bound.
LEMMA QuotientBound ==
  ASSUME NEW a \in Nat, NEW b \in Nat \ {0}
  PROVE  a \div b \in Nat /\ b * (a \div b) <= a /\ a < b * (a \div b) + b
OBVIOUS

\* The samples of a file or of a section, whatever its length, lie inside of it
\* one after the other: the next starts where the last has ended or later.
THEOREM SamplesApart ==
  ASSUME NEW len \in Nat \ {0}
  PROVE  LET s == Sampling(len)
         IN  /\ s.num \in 0 .. len /\ s.len \in 1 .. len
             /\ \A j \in 0 .. s.num - 1 :
                  /\ SamplePos(len, j) \in Nat
                  /\ SamplePos(len, j) + s.len <= SamplePos(len, j + 1)
                  /\ SamplePos(len, j + 1) <= len
<1> DEFINE s == Sampling(len)
<1> DEFINE share == len \div ExtractSizeMax
<1> DEFINE leak == (len * LeakPercent) \div 100
<1>1. ExtractMaxNum \in Nat /\ ExtractSizeMax \in Nat \ {0} /\ LeakPercent \in 0 .. 100
  BY LayoutAssumption
<1>2. share \in Nat /\ ExtractSizeMax * share <= len
  BY <1>1, QuotientBound
<1>3. leak \in Nat /\ leak <= len
  <2>1. len * LeakPercent \in Nat /\ len * LeakPercent <= 100 * len
    BY <1>1
  <2>2. QED
    BY <2>1
<1>4. share <= len
  <2> HIDE DEF share
  <2> QED
    BY <1>1, <1>2
<1>5. /\ s.num \in 0 .. len /\ s.len \in 1 .. len
      /\ s.num * s.len <= len
  <2> DEFINE num == IF len < ExtractSizeMax THEN 1 ELSE AtMost(share, ExtractMaxNum)
  <2> DEFINE each == AtMost(len, ExtractSizeMax)
  <2>1. s = IF (100 * num * each) \div len > LeakPercent
            THEN [num |-> AtMost(leak, ExtractMaxNum), len |-> 1]
            ELSE [num |-> num, len |-> each]
    BY DEF Sampling
  <2>2. num \in 0 .. len /\ each \in 1 .. len
    BY <1>1, <1>2, <1>4 DEF AtMost
  <2>3. num * each <= len
    <3>1. CASE len < ExtractSizeMax
      BY <1>1, <3>1 DEF AtMost
    <3>2. CASE ~ (len < ExtractSizeMax)
      <4>1. each = ExtractSizeMax
        BY <1>1, <3>2 DEF AtMost
      <4>2. num \in Nat /\ num <= share
        BY <1>1, <1>2, <3>2 DEF AtMost
      <4> HIDE DEF share, num, each
      <4>3. num * ExtractSizeMax <= ExtractSizeMax * share
        BY <1>1, <1>2, <4>2
      <4>4. num * ExtractSizeMax \in Nat /\ ExtractSizeMax * share \in Nat
        BY <1>1, <1>2, <4>2
      <4>5. QED
        BY <1>2, <4>1, <4>3, <4>4
    <3>3. QED
      BY <3>1, <3>2
  <2>4. AtMost(leak, ExtractMaxNum) \in 0 .. len
    BY <1>1, <1>3 DEF AtMost
  <2> HIDE DEF s, num, each, leak, share
  <2>5. CASE (100 * num * each) \div len > LeakPercent
    BY <2>1, <2>4, <2>5
  <2>6. CASE ~ ((100 * num * each) \div len > LeakPercent)
    BY <2>1, <2>2, <2>3, <2>6
  <2>7. QED
    BY <2>5, <2>6
<1>6. ASSUME NEW j \in 0 .. s.num - 1
      PROVE  /\ SamplePos(len, j) \in Nat
             /\ SamplePos(len, j) + s.len <= SamplePos(len, j + 1)
             /\ SamplePos(len, j + 1) <= len
  <2> DEFINE step == len \div s.num
  <2>1. s.num \in Nat \ {0} /\ s.len \in Nat /\ j \in Nat /\ j + 1 <= s.num
    BY <1>5
  <2>2. step \in Nat /\ s.num * step <= len
    <3> HIDE DEF s
    <3> QED
      BY <2>1, QuotientBound
  <2>3. SamplePos(len, j) = j * step /\ SamplePos(len, j + 1) = (j + 1) * step
    BY DEF SamplePos
  <2>4. s.len <= step
    <3> HIDE DEF s
    <3>1. SUFFICES ASSUME step < s.len
                   PROVE  FALSE
      BY <2>1, <2>2
    <3>2. len < s.num * step + s.num
      BY <2>1, QuotientBound
    <3> HIDE DEF step
    <3>3. s.num * (step + 1) <= s.num * s.len
      BY <2>1, <2>2, <3>1
    <3>4. s.num * (step + 1) = s.num * step + s.num
      BY <2>1, <2>2
    <3>5. s.num * step \in Nat /\ s.num * s.len \in Nat
      BY <2>1, <2>2
    <3>6. s.num * s.len <= len
      BY <1>5 DEF s
    <3>7. QED
      BY <2>1, <3>2, <3>3, <3>4, <3>5, <3>6
  <2> HIDE DEF s, step
  <2>5. j * step \in Nat /\ (j + 1) * step = j * step + step
    BY <2>1, <2>2
  <2>6. (j + 1) * step <= s.num * step
    BY <2>1, <2>2
  <2>7. s.num * step \in Nat
    BY <2>1, <2>2
  <2>8. QED
    BY <2>1, <2>2, <2>3, <2>4, <2>5, <2>6, <2>7
<1>7. QED
  BY <1>5, <1>6

-----------------------------------------------------------------------------
(* Sequences                                                               *)

\* A function on 1..n is a sequence of length n.
LEMMA FunIsSeq ==
  ASSUME NEW n \in Nat, NEW S, NEW w \in [1 .. n -> S]
  PROVE  w \in Seq(S) /\ Len(w) = n
<1>1. w \in Seq(S)
  BY SeqDef
<1>2. DOMAIN w = 1 .. Len(w) /\ Len(w) \in Nat
  BY <1>1, LenProperties
<1>3. 1 .. Len(w) = 1 .. n
  BY <1>2
<1>4. ASSUME NEW k \in Nat
      PROVE  Cardinality(1 .. k) = k
  <2>1. Cardinality(1 .. k) = IF 1 > k THEN 0 ELSE k - 1 + 1
    BY FS_Interval
  <2>2. QED
    BY <2>1
<1>5. QED
  BY <1>1, <1>2, <1>3, <1>4

\* The first n members of a sequence.
LEMMA FirstOf ==
  ASSUME NEW S, NEW s \in Seq(S), NEW n \in 0 .. Len(s)
  PROVE  LET f == SubSeq(s, 1, n)
         IN  /\ f \in Seq(S) /\ Len(f) = n /\ DOMAIN f = 1 .. n
             /\ \A i \in 1 .. n : f[i] = s[i]
             /\ Range(f) = {s[i] : i \in 1 .. n}
<1> DEFINE f == SubSeq(s, 1, n)
<1>1. Len(s) \in Nat /\ s \in [1 .. Len(s) -> S]
  BY LenProperties
<1>2. \A i \in 1 .. n : s[i] \in S
  BY <1>1
<1>3. /\ f \in Seq(S)
      /\ Len(f) = IF 1 <= n THEN n - 1 + 1 ELSE 0
      /\ \A i \in 1 .. n - 1 + 1 : f[i] = s[1 + i - 1]
  BY <1>1, <1>2, SubSeqProperties
<1>4. Len(f) = n /\ \A i \in 1 .. n : f[i] = s[i]
  BY <1>1, <1>3
<1>5. DOMAIN f = 1 .. n
  BY <1>3, <1>4, LenProperties
<1> HIDE DEF f
<1>6. Range(f) = {s[i] : i \in 1 .. n}
  BY <1>4, <1>5 DEF Range
<1>7. QED
  BY <1>3, <1>4, <1>5, <1>6 DEF f

-----------------------------------------------------------------------------
(* Types                                                                   *)

\* The array of sections: its places, used slots, each in one place.
ArrayOK(m) ==
  m.data # NoData =>
    /\ Len(m.data.arr) = m.data.num + m.data.free
    /\ \A i \in 1 .. m.data.num : m.data.arr[i] \in m.used \cup {NoSlot}
    /\ \A i, j \in 1 .. m.data.num :
         m.data.arr[i] = m.data.arr[j] /\ m.data.arr[i] # NoSlot => i = j
WipedOK(m) == \A s \in Slots \ m.used : m.sect[s] = WipedSect
Sound(m) == m \in Memory /\ ArrayOK(m) /\ WipedOK(m)

\* The memory, given by its fields.
LEMMA MemoryIsRecord ==
  ASSUME NEW m \in Memory
  PROVE  /\ m.data \in Datas \cup {NoData} /\ m.sect \in [Slots -> Sections]
         /\ m.used \subseteq Slots /\ m.sizes \subseteq Nat
         /\ m.sums \subseteq Kinds \X Strs
         /\ m.sectSums \subseteq [kind : Kinds, str : Strs, slot : Slots]
<1> USE DEF Memory
<1> QED
  OBVIOUS

LEMMA LinkSizeFacts ==
  ASSUME NEW m \in Memory, m.data # NoData
  PROVE  LET x == LinkSize(m)
         IN  /\ x \in Memory
             /\ x.data = [m.data EXCEPT !.sizeTran = TRUE]
             /\ x.sizes = m.sizes \cup {m.data.size}
             /\ x.sect = m.sect /\ x.used = m.used
             /\ x.sums = m.sums /\ x.sectSums = m.sectSums
<1>1. m.data \in Datas
  BY MemoryIsRecord
<1>2. [m.data EXCEPT !.sizeTran = TRUE] \in Datas /\ m.data.size \in Nat
  BY <1>1 DEF Datas
<1>3. QED
  BY <1>2 DEF LinkSize, Memory

\* The fields that a change of a size or of checksums leaves as they are.
SameArray(d, e) ==
  /\ d.array = e.array /\ d.arr = e.arr /\ d.num = e.num /\ d.free = e.free

LEMMA UnlinkSizeFacts ==
  ASSUME NEW m \in Memory, m.data # NoData
  PROVE  LET x == UnlinkSize(m)
         IN  /\ x \in Memory
             /\ x.data = [m.data EXCEPT !.sizeTran = FALSE]
             /\ x.sizes = IF m.data.sizeTran THEN m.sizes \ {m.data.size} ELSE m.sizes
             /\ x.sect = m.sect /\ x.used = m.used
             /\ x.sums = m.sums /\ x.sectSums = m.sectSums
<1>1. m.data \in Datas
  BY MemoryIsRecord
<1>2. [m.data EXCEPT !.sizeTran = FALSE] \in Datas
  BY <1>1 DEF Datas
<1>3. ~ m.data.sizeTran => [m.data EXCEPT !.sizeTran = FALSE] = m.data
  BY <1>1 DEF Datas
<1>4. QED
  BY <1>2, <1>3 DEF UnlinkSize, Memory

LEMMA PairIsStr ==
  /\ NoStr \in Strs
  /\ \A a, b \in Nat : <<a, b>> \in Strs /\ <<a, b>> # NoStr
  /\ \A s \in Nat \X Nat : s \in Strs /\ s # NoStr
<1>1. \A a, b \in Nat : <<a, b>> # <<>>
  OBVIOUS
<1>2. QED
  BY <1>1 DEF NoStr, Strs

LEMMA LinkSumFacts ==
  ASSUME NEW m \in Memory, m.data # NoData, NEW k \in Kinds
  PROVE  LET x == LinkSum(m, k)
         IN  /\ x \in Memory
             /\ x.data = [m.data EXCEPT !.tran = [m.data.tran EXCEPT ![k] = m.data.str[k]]]
             /\ x.sums = m.sums \cup {<<k, m.data.str[k]>>}
             /\ x.sect = m.sect /\ x.used = m.used
             /\ x.sizes = m.sizes /\ x.sectSums = m.sectSums
<1>1. m.data \in Datas
  BY MemoryIsRecord
<1>2. m.data.str[k] \in Strs
  BY <1>1 DEF Datas
<1>3. [m.data.tran EXCEPT ![k] = m.data.str[k]] \in [Kinds -> Strs]
  BY <1>1, <1>2 DEF Datas
<1>4. [m.data EXCEPT !.tran = [m.data.tran EXCEPT ![k] = m.data.str[k]]] \in Datas
  BY <1>1, <1>3 DEF Datas
<1>5. m.sums \cup {<<k, m.data.str[k]>>} \subseteq Kinds \X Strs
  BY <1>2, MemoryIsRecord
<1>6. QED
  BY <1>4, <1>5 DEF LinkSum, Memory

LEMMA UnlinkSumFacts ==
  ASSUME NEW m \in Memory, m.data # NoData, NEW k \in Kinds
  PROVE  LET x == UnlinkSum(m, k)
         IN  /\ x \in Memory
             /\ x.data = [m.data EXCEPT !.tran = [m.data.tran EXCEPT ![k] = NoStr]]
             /\ x.sums = m.sums \ {<<k, m.data.tran[k]>>}
             /\ x.sect = m.sect /\ x.used = m.used
             /\ x.sizes = m.sizes /\ x.sectSums = m.sectSums
<1>1. m.data \in Datas
  BY MemoryIsRecord
<1>2. [m.data.tran EXCEPT ![k] = NoStr] \in [Kinds -> Strs]
  BY <1>1, PairIsStr DEF Datas
<1>3. [m.data EXCEPT !.tran = [m.data.tran EXCEPT ![k] = NoStr]] \in Datas
  BY <1>1, <1>2 DEF Datas
<1>4. QED
  BY <1>1, <1>3 DEF UnlinkSum, Memory

\* A member of a chain has the right type.
LEMMA MemberType ==
  ASSUME NEW m \in Memory, NEW s \in Slots, NEW k \in Kinds
  PROVE  /\ m.sect[s] \in Sections
         /\ Member(m, s, k) \in [kind : Kinds, str : Strs, slot : Slots]
<1>1. m.sect[s] \in Sections
  BY MemoryIsRecord
<1>2. m.sect[s].tran[k] \in Strs
  BY <1>1 DEF Sections
<1>3. QED
  BY <1>1, <1>2 DEF Member

LEMMA UnlinkSectSumFacts ==
  ASSUME NEW m \in Memory, NEW s \in Slots, NEW k \in Kinds
  PROVE  LET x == UnlinkSectSum(m, s, k)
         IN  /\ x \in Memory
             /\ x.sect = [m.sect EXCEPT ![s] = [m.sect[s] EXCEPT !.tran = [m.sect[s].tran EXCEPT ![k] = NoStr]]]
             /\ x.sectSums = m.sectSums \ {Member(m, s, k)}
             /\ x.data = m.data /\ x.used = m.used
             /\ x.sizes = m.sizes /\ x.sums = m.sums
<1>1. m.sect[s] \in Sections /\ m.sect \in [Slots -> Sections]
  BY MemberType, MemoryIsRecord
<1>2. [m.sect[s].tran EXCEPT ![k] = NoStr] \in [Kinds -> Strs]
  BY <1>1, PairIsStr DEF Sections
<1>3. [m.sect[s] EXCEPT !.tran = [m.sect[s].tran EXCEPT ![k] = NoStr]] \in Sections
  BY <1>1, <1>2 DEF Sections
<1>4. [m.sect EXCEPT ![s] = [m.sect[s] EXCEPT !.tran = [m.sect[s].tran EXCEPT ![k] = NoStr]]]
        \in [Slots -> Sections]
  BY <1>1, <1>3
<1>5. QED
  BY <1>4 DEF UnlinkSectSum, Memory

LEMMA LinkSectSumFacts ==
  ASSUME NEW m \in Memory, NEW s \in Slots, NEW k \in Kinds
  PROVE  LET x == LinkSectSum(m, s, k)
         IN  /\ x \in Memory
             /\ x.sect = [m.sect EXCEPT ![s] =
                            [m.sect[s] EXCEPT !.tran = [m.sect[s].tran EXCEPT ![k] = m.sect[s].str[k]]]]
             /\ x.sectSums = m.sectSums \cup {[kind |-> k, str |-> m.sect[s].str[k], slot |-> s]}
             /\ x.data = m.data /\ x.used = m.used
             /\ x.sizes = m.sizes /\ x.sums = m.sums
<1> DEFINE tran == [m.sect[s].tran EXCEPT ![k] = m.sect[s].str[k]]
           sect == [m.sect EXCEPT ![s] = [m.sect[s] EXCEPT !.tran = tran]]
           l == [m EXCEPT !.sect = sect]
<1>1. m.sect[s] \in Sections /\ m.sect \in [Slots -> Sections]
  BY MemberType, MemoryIsRecord
<1>2. m.sect[s].str[k] \in Strs
  BY <1>1 DEF Sections
<1>3. tran \in [Kinds -> Strs] /\ tran[k] = m.sect[s].str[k]
  BY <1>1, <1>2 DEF Sections
<1> HIDE DEF tran
<1>4. [m.sect[s] EXCEPT !.tran = tran] \in Sections /\ [m.sect[s] EXCEPT !.tran = tran].tran = tran
  BY <1>1, <1>3 DEF Sections
<1>5. sect \in [Slots -> Sections] /\ sect[s].tran = tran
  BY <1>1, <1>4
<1> HIDE DEF sect
<1>6. l \in Memory /\ l.sect = sect
  BY <1>5 DEF Memory
<1>7. Member(l, s, k) = [kind |-> k, str |-> m.sect[s].str[k], slot |-> s]
  BY <1>3, <1>5, <1>6 DEF Member
<1>8. LinkSectSum(m, s, k) = [l EXCEPT !.sectSums = l.sectSums \cup {Member(l, s, k)}]
  BY DEF LinkSectSum, sect, tran
<1>9. Member(l, s, k) \in [kind : Kinds, str : Strs, slot : Slots]
  BY <1>6, MemberType
<1>10. l.sectSums = m.sectSums /\ l.data = m.data /\ l.used = m.used /\ l.sizes = m.sizes /\ l.sums = m.sums
  BY DEF Memory
<1> HIDE DEF l
<1>11. QED
  BY <1>6, <1>7, <1>8, <1>9, <1>10 DEF Memory, sect, tran

\* WipedSect and WipedData are what a wiped slot holds.
LEMMA WipedTypes ==
  /\ WipedSect \in Sections /\ WipedData \in Datas
  /\ \A k \in Kinds : WipedSect.tran[k] = NoStr
<1>1. NoSums \in [Kinds -> Strs] /\ \A k \in Kinds : NoSums[k] = NoStr
  BY PairIsStr DEF NoSums
<1>2. <<>> \in Seq(Extracts) /\ <<>> \in Seq(Slots \cup {NoSlot})
  BY EmptySeq
<1>3. WipedSect \in Sections /\ WipedSect.tran = NoSums
  BY <1>1, <1>2 DEF WipedSect, Sections
<1>4. WipedData \in Datas
  BY <1>1, <1>2 DEF WipedData, Datas
<1>5. QED
  BY <1>1, <1>3, <1>4

\* del_section of a set of sections.
LEMMA DelSectionsFacts ==
  ASSUME NEW m \in Memory, NEW secs, secs \subseteq Slots
  PROVE  LET x == DelSections(m, secs)
         IN  /\ x \in Memory
             /\ x.sect = [s \in Slots |-> IF s \in secs THEN WipedSect ELSE m.sect[s]]
             /\ x.sectSums = m.sectSums \ UNION {{Member(m, s, k) : k \in m.sect[s].typ} : s \in secs}
             /\ x.used = m.used \ secs
             /\ x.data = m.data /\ x.sizes = m.sizes /\ x.sums = m.sums
<1> DEFINE sect == [s \in Slots |-> IF s \in secs THEN WipedSect ELSE m.sect[s]]
           gone == UNION {{Member(m, s, k) : k \in m.sect[s].typ} : s \in secs}
<1>1. m.sect \in [Slots -> Sections] /\ m.used \subseteq Slots
  BY MemoryIsRecord
<1>2. sect \in [Slots -> Sections]
  BY <1>1, WipedTypes
<1>3. DelSections(m, secs) = [m EXCEPT !.sectSums = m.sectSums \ gone, !.sect = sect,
                                       !.used = m.used \ secs]
  BY DEF DelSections
<1> HIDE DEF sect, gone
<1>4. DelSections(m, secs) \in Memory
  BY <1>1, <1>2, <1>3 DEF Memory
<1>5. /\ DelSections(m, secs).sect = sect
      /\ DelSections(m, secs).sectSums = m.sectSums \ gone
      /\ DelSections(m, secs).used = m.used \ secs
      /\ DelSections(m, secs).data = m.data
      /\ DelSections(m, secs).sizes = m.sizes /\ DelSections(m, secs).sums = m.sums
  BY <1>3 DEF Memory
<1>6. QED
  BY <1>4, <1>5 DEF sect, gone

\* The sections of the array.
MineOf(d) == {d.arr[i] : i \in 1 .. d.num}

LEMMA MineIsRange ==
  ASSUME NEW d \in Datas, Len(d.arr) = d.num + d.free
  PROVE  /\ Range(SubSeq(d.arr, 1, d.num)) = MineOf(d)
         /\ DOMAIN SubSeq(d.arr, 1, d.num) = 1 .. d.num
         /\ \A i \in 1 .. d.num : SubSeq(d.arr, 1, d.num)[i] = d.arr[i]
         /\ MineOf(d) \subseteq Slots \cup {NoSlot}
<1>1. d.arr \in Seq(Slots \cup {NoSlot}) /\ d.num \in Nat /\ d.free \in Nat
  BY DEF Datas
<1>2. d.num \in 0 .. Len(d.arr)
  BY <1>1
<1>3. \A i \in 1 .. d.num : d.arr[i] \in Slots \cup {NoSlot}
  BY <1>1, <1>2, LenProperties
<1>4. QED
  BY <1>1, <1>2, <1>3, FirstOf DEF MineOf

\* del_file_data, when no place of the array is empty.
LEMMA DelFileDataFacts ==
  ASSUME NEW m \in Memory, m.data # NoData, ArrayOK(m), NoSlot \notin MineOf(m.data)
  PROVE  LET x == DelFileData(m)  d == m.data
         IN  /\ x \in Memory
             /\ x.data = NoData
             /\ x.sizes = (IF d.sizeTran THEN m.sizes \ {d.size} ELSE m.sizes)
             /\ x.sums = m.sums \ {<<k, d.tran[k]>> : k \in d.typ}
             /\ x.sect = [s \in Slots |-> IF s \in MineOf(d) THEN WipedSect ELSE m.sect[s]]
             /\ x.sectSums = m.sectSums \ UNION {{Member(m, s, k) : k \in m.sect[s].typ} : s \in MineOf(d)}
             /\ x.used = m.used \ MineOf(d)
<1> DEFINE d == m.data
           mine == MineOf(d)
           bare == DelSections(m, mine)
           u == UnlinkSize(bare)
           gone == {<<k, d.tran[k]>> : k \in d.typ}
<1>1. d \in Datas /\ Len(d.arr) = d.num + d.free
  BY MemoryIsRecord DEF ArrayOK
<1>2. Range(SubSeq(d.arr, 1, d.num)) = mine /\ mine \subseteq Slots
  BY <1>1, MineIsRange
<1>3. /\ bare \in Memory /\ bare.data = d
      /\ bare.sect = [s \in Slots |-> IF s \in mine THEN WipedSect ELSE m.sect[s]]
      /\ bare.sectSums = m.sectSums \ UNION {{Member(m, s, k) : k \in m.sect[s].typ} : s \in mine}
      /\ bare.used = m.used \ mine /\ bare.sizes = m.sizes /\ bare.sums = m.sums
  <2> HIDE DEF mine
  <2>1. QED
    BY <1>2, DelSectionsFacts
<1>4. DelFileData(m) = [u EXCEPT !.sums = u.sums \ gone, !.data = NoData]
  BY <1>2 DEF DelFileData
<1> HIDE DEF bare
<1>5. /\ u \in Memory
      /\ u.sizes = IF d.sizeTran THEN m.sizes \ {d.size} ELSE m.sizes
      /\ u.sect = bare.sect /\ u.used = bare.used
      /\ u.sums = bare.sums /\ u.sectSums = bare.sectSums
  BY <1>3, UnlinkSizeFacts
<1> HIDE DEF u, gone, mine
<1>6. DelFileData(m) \in Memory
  BY <1>4, <1>5 DEF Memory
<1>7. /\ DelFileData(m).data = NoData
      /\ DelFileData(m).sizes = u.sizes
      /\ DelFileData(m).sums = u.sums \ gone
      /\ DelFileData(m).sect = u.sect /\ DelFileData(m).sectSums = u.sectSums
      /\ DelFileData(m).used = u.used
  BY <1>4, <1>5 DEF Memory
<1>8. QED
  BY <1>3, <1>5, <1>6, <1>7 DEF mine, gone

-----------------------------------------------------------------------------
(* Fresh slots                                                             *)

\* The free slots can be numbered from the lowest on.
LEMMA RankExists ==
  ASSUME NEW U, U \subseteq Nat, IsFiniteSet(U), NEW i \in 1 .. Cardinality(U)
  PROVE  \E s \in U : Cardinality({t \in U : t < s}) = i - 1
<1> DEFINE below(s) == {t \in U : t < s}
           S == {k \in Nat : k < Cardinality(U) => \E s \in U : Cardinality(below(s)) = k}
<1>1. Cardinality(U) \in Nat
  BY FS_CardinalityType
<1>2. 0 \in S
  <2>1. SUFFICES ASSUME 0 < Cardinality(U)
                 PROVE  \E s \in U : Cardinality(below(s)) = 0
    OBVIOUS
  <2>2. U # {}
    BY <2>1, FS_EmptySet
  <2>3. PICK s \in U : \A k \in U : s <= k
    BY <2>2, LeastElement
  <2>4. below(s) = {}
    <3>1. ASSUME NEW t \in below(s)
          PROVE  FALSE
      <4>1. t \in Nat /\ s \in Nat /\ s <= t /\ t < s
        BY <2>3
      <4>2. QED
        BY <4>1
    <3>2. QED
      BY <3>1
  <2>5. Cardinality(below(s)) = 0
    BY <2>4, FS_EmptySet
  <2>6. QED
    BY <2>5
<1>3. ASSUME NEW k \in Nat, k \in S
      PROVE  k + 1 \in S
  <2>1. SUFFICES ASSUME k + 1 < Cardinality(U)
                 PROVE  \E s \in U : Cardinality(below(s)) = k + 1
    OBVIOUS
  <2>2. PICK s \in U : Cardinality(below(s)) = k
    BY <1>1, <1>3, <2>1
  <2> DEFINE above == {t \in U : t > s}
  <2>3. IsFiniteSet(below(s)) /\ below(s) \subseteq U
    BY FS_Subset
  <2> DEFINE upto == below(s) \cup {s}
  <2>4. IsFiniteSet(upto) /\ Cardinality(upto) = k + 1
    BY <2>2, <2>3, FS_AddElement
  <2>5. above # {}
    <3>1. SUFFICES ASSUME above = {}
                   PROVE  FALSE
      OBVIOUS
    <3>2. U = upto
      <4>1. ASSUME NEW t \in U
            PROVE  t \in upto
        BY <3>1
      <4>2. QED
        BY <4>1
    <3> HIDE DEF upto
    <3>3. QED
      BY <1>1, <2>1, <2>4, <3>2
  <2>6. above \subseteq Nat
    OBVIOUS
  <2>7. PICK u \in above : \A t \in above : u <= t
    BY <2>5, <2>6, LeastElement
  <2>8. below(u) = upto
    <3>1. ASSUME NEW t \in below(u)
          PROVE  t \in upto
      BY <2>7
    <3>2. ASSUME NEW t \in upto
          PROVE  t \in below(u)
      BY <2>7
    <3>3. QED
      BY <3>1, <3>2
  <2>9. u \in U /\ Cardinality(below(u)) = k + 1
    BY <2>4, <2>8
  <2>10. QED
    BY <2>9
<1>4. i - 1 \in S
  <2>1. Nat \subseteq S
    <3> HIDE DEF S
    <3>1. QED
      BY <1>2, <1>3, SetInduction
  <2>2. i - 1 \in Nat
    BY <1>1
  <2>3. QED
    BY <2>1, <2>2
<1>5. i - 1 < Cardinality(U)
  BY <1>1
<1>6. QED
  BY <1>4, <1>5

LEMMA SlotsFinite ==
  /\ Slots \subseteq Nat /\ IsFiniteSet(Slots)
<1>1. SlotNum \in Nat
  BY FileAssumption
<1>2. IsFiniteSet(Slots)
  BY <1>1, FS_Interval DEF Slots
<1>3. QED
  BY <1>1, <1>2 DEF Slots

\* How many of n slots there are.
RoomFor(m, n) == AtMost(n, Cardinality(Slots \ m.used))

\* FreshSlots gives free slots, each of them once.
LEMMA FreshSlotsFacts ==
  ASSUME NEW m, NEW n \in Nat
  PROVE  LET new == FreshSlots(m, n)  k == RoomFor(m, n)
         IN  /\ k \in 0 .. n
             /\ new \in [1 .. k -> Slots \ m.used]
             /\ new \in Seq(Slots) /\ Len(new) = k
             /\ Range(new) = {new[i] : i \in 1 .. k}
             /\ \A i, j \in 1 .. k : new[i] = new[j] => i = j
<1> DEFINE free == Slots \ m.used
           k == RoomFor(m, n)
           rank(s) == Cardinality({t \in free : t < s})
           new == FreshSlots(m, n)
<1>1. IsFiniteSet(free) /\ free \subseteq Nat /\ free \subseteq Slots
  BY SlotsFinite, FS_Subset
<1>2. Cardinality(free) \in Nat
  BY <1>1, FS_CardinalityType
<1>3. k \in 0 .. n /\ k <= Cardinality(free)
  BY <1>2 DEF AtMost, RoomFor
<1>4. new = [i \in 1 .. k |-> CHOOSE s \in free : rank(s) = i - 1]
  BY DEF FreshSlots, RoomFor
<1>5. ASSUME NEW i \in 1 .. k
      PROVE  new[i] \in free /\ rank(new[i]) = i - 1
  <2>1. i \in 1 .. Cardinality(free)
    BY <1>2, <1>3
  <2>2. \E s \in free : rank(s) = i - 1
    <3> HIDE DEF free
    <3>1. QED
      BY <1>1, <2>1, RankExists
  <2>3. new[i] = CHOOSE s \in free : rank(s) = i - 1
    BY <1>4
  <2> HIDE DEF free, new, rank
  <2>4. QED
    BY <2>2, <2>3
<1>6. \A i, j \in 1 .. k : new[i] = new[j] => i = j
  <2> HIDE DEF free, new, rank, k
  <2>1. QED
    BY <1>3, <1>5
<1>7. new \in [1 .. k -> free]
  <2>1. DOMAIN new = 1 .. k /\ new = [i \in 1 .. k |-> new[i]]
    BY <1>4
  <2> HIDE DEF free, new, rank, k
  <2>2. QED
    BY <1>5, <2>1
<1>8. new \in [1 .. k -> Slots]
  BY <1>1, <1>7
<1> HIDE DEF new, k
<1>9. new \in Seq(Slots) /\ Len(new) = k
  BY <1>3, <1>8, FunIsSeq
<1>10. Range(new) = {new[i] : i \in 1 .. k}
  BY <1>8 DEF Range
<1>11. QED
  BY <1>3, <1>6, <1>7, <1>9, <1>10 DEF new, k, free

\* The array of sections with n more places.
GrownBy(d, new, k, n) ==
  [i \in 1 .. (d.num + d.free + n) |->
     IF i <= d.num THEN d.arr[i] ELSE IF i <= d.num + k THEN new[i - d.num] ELSE NoSlot]

LEMMA PutSectionsFacts ==
  ASSUME NEW m, Sound(m), m.data # NoData, NEW n \in Nat
  PROVE  LET x == PutSections(m, n)  d == m.data  new == FreshSlots(m, n)  k == RoomFor(m, n)
         IN  /\ Sound(x) /\ x.data # NoData
             /\ x.used = m.used \cup {new[i] : i \in 1 .. k}
             /\ x.data = [d EXCEPT !.array = TRUE, !.arr = GrownBy(d, new, k, n),
                                   !.num = d.num + k, !.free = d.free + n - k]
             /\ x.sect = m.sect /\ x.sizes = m.sizes
             /\ x.sums = m.sums /\ x.sectSums = m.sectSums
<1> DEFINE d == m.data
           new == FreshSlots(m, n)
           k == RoomFor(m, n)
           room == GrownBy(d, new, k, n)
           e == [d EXCEPT !.array = TRUE, !.arr = room, !.num = d.num + k, !.free = d.free + n - k]
           x == PutSections(m, n)
           len == d.num + d.free + n
<1>1. m \in Memory /\ d \in Datas /\ ArrayOK(m) /\ WipedOK(m)
  BY MemoryIsRecord DEF Sound
<1>2. d.num \in Nat /\ d.free \in Nat /\ d.arr \in Seq(Slots \cup {NoSlot})
  BY <1>1 DEF Datas
<1>3. /\ k \in 0 .. n
      /\ new \in [1 .. k -> Slots \ m.used]
      /\ new \in Seq(Slots) /\ Len(new) = k
      /\ Range(new) = {new[i] : i \in 1 .. k}
      /\ \A i, j \in 1 .. k : new[i] = new[j] => i = j
  BY FreshSlotsFacts
<1>4. x = [m EXCEPT !.used = m.used \cup Range(new), !.data = e]
  BY <1>3 DEF PutSections, GrownBy
<1> HIDE DEF new, k
<1>5. Len(d.arr) = d.num + d.free /\ \A i \in 1 .. d.num : d.arr[i] \in m.used \cup {NoSlot}
  BY <1>1 DEF ArrayOK, Sound
<1>6. \A i \in 1 .. d.num : d.arr[i] \in Slots \cup {NoSlot}
  BY <1>1, <1>5, MemoryIsRecord
<1>7. len \in Nat
  BY <1>2
<1>8. ASSUME NEW i \in 1 .. len
      PROVE  /\ room[i] = IF i <= d.num THEN d.arr[i]
                          ELSE IF i <= d.num + k THEN new[i - d.num] ELSE NoSlot
             /\ room[i] \in Slots \cup {NoSlot}
  <2>1. room[i] = IF i <= d.num THEN d.arr[i]
                  ELSE IF i <= d.num + k THEN new[i - d.num] ELSE NoSlot
    BY DEF GrownBy
  <2>2. CASE i <= d.num
    <3>1. i \in 1 .. d.num
      BY <1>2, <2>2
    <3>2. QED
      BY <1>6, <2>1, <2>2, <3>1
  <2>3. CASE ~(i <= d.num) /\ i <= d.num + k
    <3>1. i - d.num \in 1 .. k
      BY <1>2, <1>3, <2>3
    <3>2. QED
      BY <1>3, <2>1, <2>3, <3>1
  <2>4. CASE ~(i <= d.num) /\ ~(i <= d.num + k)
    BY <2>1, <2>4
  <2>5. QED
    BY <2>1, <2>2, <2>3, <2>4
<1>9. room \in Seq(Slots \cup {NoSlot}) /\ Len(room) = len
  <2>1. room = [i \in 1 .. len |-> room[i]]
    BY DEF GrownBy
  <2> HIDE DEF room, len
  <2>2. room \in [1 .. len -> Slots \cup {NoSlot}]
    BY <1>8, <2>1
  <2>3. QED
    BY <1>7, <2>2, FunIsSeq
<1> HIDE DEF room
<1>10. d.num + k \in Nat /\ d.free + n - k \in Nat /\ len = d.num + k + (d.free + n - k)
  <2>1. k \in Nat /\ k <= n
    BY <1>3
  <2>2. ASSUME NEW a \in Nat, NEW b \in Nat, NEW c \in Nat, c <= n
        PROVE  a + c \in Nat /\ b + n - c \in Nat /\ a + b + n = a + c + (b + n - c)
    BY <2>2
  <2>3. d.num + k \in Nat /\ d.free + n - k \in Nat
    BY <1>2, <2>1, <2>2
  <2>4. d.num + d.free + n = d.num + k + (d.free + n - k)
    BY <1>2, <2>1, <2>2
  <2>5. QED
    BY <2>3, <2>4
<1>11. e \in Datas
  BY <1>1, <1>9, <1>10 DEF Datas
<1>12. e.arr = room /\ e.num = d.num + k /\ e.free = d.free + n - k
  BY <1>1 DEF Datas
<1> HIDE DEF e
<1>13. m.used \cup Range(new) \subseteq Slots
  BY <1>1, <1>3, MemoryIsRecord
<1>14. x \in Memory
  BY <1>1, <1>4, <1>11, <1>13 DEF Memory
<1>15. /\ x.data = e /\ x.used = m.used \cup Range(new) /\ x.sect = m.sect
       /\ x.sizes = m.sizes /\ x.sums = m.sums /\ x.sectSums = m.sectSums
  BY <1>1, <1>4 DEF Memory
<1> HIDE DEF x
<1>16. ArrayOK(x)
  <2>1. Len(room) = e.num + e.free
    BY <1>9, <1>10, <1>12
  <2>2. \A i \in 1 .. e.num : i \in 1 .. len
    BY <1>2, <1>3, <1>12
  <2>3. ASSUME NEW i \in 1 .. e.num
        PROVE  room[i] \in x.used \cup {NoSlot}
    <3>1. CASE i <= d.num
      <4>1. i \in 1 .. d.num
        BY <1>2, <3>1
      <4>2. QED
        BY <1>5, <1>8, <1>15, <2>2, <3>1, <4>1
    <3>2. CASE ~(i <= d.num)
      <4>1. i - d.num \in 1 .. k
        BY <1>2, <1>3, <1>12, <3>2
      <4>2. i <= d.num + k
        BY <1>12
      <4>3. QED
        BY <1>3, <1>8, <1>15, <2>2, <3>2, <4>1, <4>2
    <3>3. QED
      BY <3>1, <3>2
  <2>4. ASSUME NEW i \in 1 .. e.num, NEW j \in 1 .. e.num, room[i] = room[j], room[i] # NoSlot
        PROVE  i = j
    <3>1. ASSUME NEW a \in 1 .. e.num, NEW b \in 1 .. e.num,
                 room[a] = room[b], room[a] # NoSlot, a <= d.num, ~(b <= d.num)
          PROVE  FALSE
      <4>1. a \in 1 .. d.num /\ b - d.num \in 1 .. k /\ b <= d.num + k
        BY <1>2, <1>3, <1>12, <3>1
      <4>2. room[a] \in m.used
        BY <1>5, <1>8, <2>2, <3>1, <4>1
      <4>3. room[b] \notin m.used
        BY <1>3, <1>8, <2>2, <3>1, <4>1
      <4>4. QED
        BY <3>1, <4>2, <4>3
    <3>2. CASE i <= d.num /\ j <= d.num
      <4>1. i \in 1 .. d.num /\ j \in 1 .. d.num
        BY <1>2, <3>2
      <4>2. d.arr[i] = d.arr[j] /\ d.arr[i] # NoSlot
        BY <1>8, <2>2, <2>4, <3>2
      <4>3. QED
        BY <1>1, <4>1, <4>2 DEF ArrayOK, Sound
    <3>3. CASE ~(i <= d.num) /\ ~(j <= d.num)
      <4>1. /\ i - d.num \in 1 .. k /\ j - d.num \in 1 .. k
            /\ i <= d.num + k /\ j <= d.num + k
        <5>1. ASSUME NEW a \in 1 .. e.num, ~(a <= d.num)
              PROVE  a - d.num \in 1 .. k /\ a <= d.num + k
          BY <1>2, <1>3, <1>12, <5>1
        <5>2. QED
          BY <3>3, <5>1
      <4>2. new[i - d.num] = new[j - d.num]
        BY <1>8, <2>2, <2>4, <3>3, <4>1
      <4>3. i - d.num = j - d.num
        BY <1>3, <4>1, <4>2
      <4>4. QED
        BY <1>2, <4>3
    <3>4. QED
      BY <2>4, <3>1, <3>2, <3>3
  <2>5. QED
    BY <1>12, <1>15, <2>1, <2>3, <2>4 DEF ArrayOK
<1>17. WipedOK(x)
  BY <1>1, <1>15 DEF WipedOK
<1>18. x.data # NoData
  BY <1>11, <1>15, FileAssumption
<1>19. QED
  BY <1>3, <1>14, <1>15, <1>16, <1>17, <1>18 DEF Sound, x, e, room, new, k

-----------------------------------------------------------------------------
(* What fingerprint_file puts into a section                               *)

\* Samples that lie one behind the other between two places.
Apart(extr, from, end) ==
  \A j \in DOMAIN extr :
    /\ extr[j].pos >= from /\ extr[j].pos + extr[j].len - 1 <= end
    /\ \A i \in 1 .. (j - 1) : extr[i].pos + extr[i].len <= extr[j].pos

\* The first samples of a piece of a file.
LEMMA SamplesFacts ==
  ASSUME NEW from \in Nat, NEW len \in Nat \ {0}, NEW c \in 0 .. Sampling(len).num
  PROVE  LET e == SubSeq(Samples(from, len), 1, c)
         IN  e \in Seq(Extracts) /\ Apart(e, from, from + len - 1)
<1> DEFINE num == Sampling(len).num
           each == Sampling(len).len
           all == Samples(from, len)
           e == SubSeq(all, 1, c)
<1>1. /\ num \in 0 .. len /\ each \in 1 .. len
      /\ \A j \in 0 .. num - 1 :
           /\ SamplePos(len, j) \in Nat
           /\ SamplePos(len, j) + each <= SamplePos(len, j + 1)
           /\ SamplePos(len, j + 1) <= len
  BY SamplesApart
<1>2. num \in Nat /\ each \in Nat \ {0}
  BY <1>1
<1>3. all = [j \in 1 .. num |-> [pos |-> from + SamplePos(len, j - 1), len |-> each]]
  BY DEF Samples
<1> HIDE DEF num, each
<1>4. ASSUME NEW j \in 1 .. num
      PROVE  /\ all[j] = [pos |-> from + SamplePos(len, j - 1), len |-> each]
             /\ all[j] \in Extracts
  <2>1. all[j] = [pos |-> from + SamplePos(len, j - 1), len |-> each]
    BY <1>3
  <2>2. j - 1 \in 0 .. num - 1
    BY <1>2
  <2>3. SamplePos(len, j - 1) \in Nat
    BY <1>1, <2>2
  <2>4. QED
    BY <1>2, <2>1, <2>3 DEF Extracts
<1>5. all \in [1 .. num -> Extracts]
  <2>1. all = [j \in 1 .. num |-> all[j]]
    BY <1>3
  <2> HIDE DEF all
  <2>2. QED
    BY <1>4, <2>1
<1> HIDE DEF all
<1>6. all \in Seq(Extracts) /\ Len(all) = num
  BY <1>2, <1>5, FunIsSeq
<1>7. c \in 0 .. num
  BY DEF num
<1>8. e \in Seq(Extracts) /\ DOMAIN e = 1 .. c /\ \A j \in 1 .. c : e[j] = all[j]
  BY <1>6, <1>7, FirstOf
<1> HIDE DEF e
<1>9. ASSUME NEW j \in 1 .. c
      PROVE  e[j].pos = from + SamplePos(len, j - 1) /\ e[j].len = each
  <2>1. j \in 1 .. num
    BY <1>2, <1>7
  <2>2. e[j] = [pos |-> from + SamplePos(len, j - 1), len |-> each]
    BY <1>4, <1>8, <2>1
  <2>3. QED
    BY <2>2
<1>10. ASSUME NEW j \in 1 .. c
       PROVE  /\ e[j].pos >= from /\ e[j].pos + e[j].len - 1 <= from + len - 1
  <2>1. j - 1 \in 0 .. num - 1 /\ j - 1 + 1 = j
    BY <1>2, <1>7
  <2>2. /\ SamplePos(len, j - 1) \in Nat
        /\ SamplePos(len, j - 1) + each <= SamplePos(len, j)
        /\ SamplePos(len, j) <= len
    BY <1>1, <2>1
  <2>3. SamplePos(len, j) \in Int
    BY <1>2, <2>1 DEF SamplePos, num
  <2>4. QED
    BY <1>2, <1>9, <2>2, <2>3
<1>11. ASSUME NEW j \in 1 .. c, NEW i \in 1 .. (j - 1)
       PROVE  e[i].pos + e[i].len <= e[j].pos
  <2> DEFINE step == len \div num
  <2>1. num \in Nat \ {0} /\ i - 1 \in 0 .. num - 1 /\ i \in 1 .. c /\ i - 1 + 1 = i
    BY <1>2, <1>7
  <2>2. step \in Nat
    BY <2>1
  <2>3. /\ SamplePos(len, i - 1) = (i - 1) * step /\ SamplePos(len, i) = i * step
        /\ SamplePos(len, j - 1) = (j - 1) * step
    BY DEF SamplePos, num
  <2> HIDE DEF step
  <2>4. SamplePos(len, i - 1) + each <= SamplePos(len, i)
    BY <1>1, <2>1
  <2>5. i * step <= (j - 1) * step
    BY <1>7, <2>1, <2>2
  <2>6. (i - 1) * step \in Nat /\ i * step \in Nat /\ (j - 1) * step \in Nat
    BY <1>7, <2>1, <2>2
  <2>7. QED
    BY <1>2, <1>9, <2>1, <2>3, <2>4, <2>5, <2>6
<1>12. QED
  BY <1>8, <1>10, <1>11 DEF Apart, e, all

LEMMA FlagsType ==
  ASSUME NEW f \in Flags
  PROVE  /\ f.size \in BOOLEAN /\ f.extr \in BOOLEAN /\ f.sextr \in BOOLEAN
         /\ f.sums \subseteq Kinds /\ f.sectSums \subseteq Kinds
<1>1. f \in [size : BOOLEAN, extr : BOOLEAN, sums : SUBSET Kinds,
             sextr : BOOLEAN, sectSums : SUBSET Kinds]
  BY FileAssumption
<1>2. QED
  BY <1>1

\* The sizes of sections.
LEMMA SectSizeFacts ==
  ASSUME NEW size, Splits(size), NEW i \in 0 .. SectNum(size) - 1
  PROVE  /\ SectSize(size, i) \in Nat \ {0} /\ SectSize(size, i) <= NormSize(size)
         /\ SectStart(size, i) \in Nat /\ SectEnd(size, i) \in Nat
         /\ SectEnd(size, i) = SectStart(size, i) + SectSize(size, i) - 1
         /\ NormSize(size) \in Nat \ {0} /\ SectNum(size) \in Nat \ {0}
         /\ SectStart(size, i) = i * NormSize(size)
<1>1. /\ NormSize(size) \in Nat \ {0} /\ SectNum(size) \in Nat \ {0}
      /\ SectSize(size, i) \in 1 .. NormSize(size)
  BY LastIsTheRest, SectionsPartition
<1>2. SectStart(size, i) = i * NormSize(size) /\ i \in Nat
  BY <1>1 DEF SectStart
<1>3. SectStart(size, i) \in Nat
  BY <1>1, <1>2
<1>4. QED
  BY <1>1, <1>2, <1>3 DEF SectEnd

\* How many samples are kept of a file (i = -1) or of a section.
LEMMA KeptFacts ==
  ASSUME NEW size, Splits(size), NEW f \in Flags, NEW kept \in Nat
  PROVE  /\ Kept(size, f, -1, kept) \in 0 .. Sampling(size).num
         /\ \A i \in 0 .. SectNum(size) - 1 :
              Kept(size, f, i, kept) \in 0 .. Sampling(SectSize(size, i)).num
<1>1. size \in Nat \ {0} /\ SectNum(size) \in Nat \ {0}
  BY NumberFits DEF Splits
<1>2. ASSUME NEW len \in Nat \ {0}
      PROVE  Sampling(len).num \in Nat
  BY <1>2, SamplesApart
<1>3. ASSUME NEW i \in 0 .. SectNum(size) - 1
      PROVE  SectSize(size, i) \in Nat \ {0}
  BY SectSizeFacts
<1>4. Planned(size, f, -1) \in Nat /\ Planned(size, f, -1) <= Sampling(size).num
  <2>1. Sampling(size).num \in Nat
    BY <1>1, <1>2
  <2>2. Planned(size, f, -1) = IF f.extr THEN Sampling(size).num ELSE 0
    BY DEF Planned
  <2>3. QED
    BY <2>1, <2>2
<1>5. ASSUME NEW i \in 0 .. SectNum(size) - 1
      PROVE  Planned(size, f, i) \in Nat /\ Planned(size, f, i) <= Sampling(SectSize(size, i)).num
  <2>1. Sampling(SectSize(size, i)).num \in Nat
    BY <1>2, <1>3
  <2>2. Planned(size, f, i) = IF f.sextr THEN Sampling(SectSize(size, i)).num ELSE 0
    BY <1>1 DEF Planned
  <2>3. QED
    BY <2>1, <2>2
<1>6. ASSUME NEW p \in Nat, NEW b \in Int, NEW n \in Nat, p <= n
      PROVE  (IF kept - b < 0 THEN 0 ELSE AtMost(kept - b, p)) \in 0 .. n
  BY <1>6 DEF AtMost
<1>7. Kept(size, f, -1, kept) \in 0 .. Sampling(size).num
  <2>1. PlannedBefore(size, f, -1) = 0
    BY DEF PlannedBefore
  <2>2. Kept(size, f, -1, kept) = IF kept - 0 < 0 THEN 0 ELSE AtMost(kept - 0, Planned(size, f, -1))
    BY <2>1 DEF Kept
  <2>3. Sampling(size).num \in Nat
    BY <1>1, <1>2
  <2>4. QED
    BY <1>4, <1>6, <2>2, <2>3
<1>8. ASSUME NEW i \in 0 .. SectNum(size) - 1
      PROVE  Kept(size, f, i, kept) \in 0 .. Sampling(SectSize(size, i)).num
  <2> DEFINE b == PlannedBefore(size, f, i)
  <2>1. b \in Int
    <3>1. 0 \in 0 .. SectNum(size) - 1
      BY <1>1
    <3>2. Planned(size, f, 0) \in Nat
      BY <1>5, <3>1
    <3>3. i * Planned(size, f, 0) \in Int
      BY <1>1, <3>2
    <3>4. b = Planned(size, f, -1) + i * Planned(size, f, 0)
      BY <1>1 DEF PlannedBefore
    <3>5. QED
      BY <1>4, <3>3, <3>4
  <2>2. Kept(size, f, i, kept) = IF kept - b < 0 THEN 0 ELSE AtMost(kept - b, Planned(size, f, i))
    BY DEF Kept
  <2>3. Sampling(SectSize(size, i)).num \in Nat
    BY <1>2, <1>3
  <2> HIDE DEF b
  <2>4. QED
    BY <1>5, <1>6, <2>1, <2>2, <2>3
<1>9. QED
  BY <1>7, <1>8

LEMMA PlannedInAllType ==
  ASSUME NEW size, Splits(size), NEW f \in Flags
  PROVE  PlannedInAll(size, f) \in Int
<1>1. size \in Nat \ {0} /\ SectNum(size) \in Nat \ {0}
  BY NumberFits DEF Splits
<1>2. ASSUME NEW i \in -1 .. SectNum(size) - 1
      PROVE  Planned(size, f, i) \in Nat
  <2>1. ASSUME NEW len \in Nat \ {0}
        PROVE  Sampling(len).num \in Nat
    BY <2>1, SamplesApart
  <2>2. i # -1 => SectSize(size, i) \in Nat \ {0}
    BY <1>1, SectSizeFacts
  <2>3. QED
    BY <1>1, <2>1, <2>2 DEF Planned
<1> DEFINE last == SectNum(size) - 1
<1>3. last \in Nat /\ last \in -1 .. SectNum(size) - 1
  BY <1>1
<1>4. Planned(size, f, -1) \in Nat /\ Planned(size, f, 0) \in Nat /\ Planned(size, f, last) \in Nat
  BY <1>1, <1>2
<1> HIDE DEF last
<1>5. PlannedBefore(size, f, last) \in Int
  <2>1. last * Planned(size, f, 0) \in Int
    BY <1>3, <1>4
  <2>2. PlannedBefore(size, f, last) = Planned(size, f, -1) + last * Planned(size, f, 0)
    BY <1>3 DEF PlannedBefore
  <2>3. QED
    BY <1>4, <2>1, <2>2
<1>6. PlannedInAll(size, f) = PlannedBefore(size, f, last) + Planned(size, f, last)
  BY DEF PlannedInAll, last
<1>7. QED
  BY <1>4, <1>5, <1>6

\* What is put into an int and read back.
LEMMA ToIntFacts ==
  ASSUME NEW n \in Nat
  PROVE  /\ ToInt(n) \in Int /\ ToInt(n) <= n
         /\ n <= IntMax => ToInt(n) = n
<1> DEFINE w == 2 * (IntMax + 1)
           r == n % w
<1>1. w \in Nat \ {0} /\ IntMax \in Nat /\ IntMax < w
  BY FileAssumption
<1>2. r \in Nat /\ r <= n /\ (n < w => r = n)
  <2> HIDE DEF w
  <2>1. QED
    BY <1>1
<1>3. ToInt(n) = IF r <= IntMax THEN r ELSE r - w
  BY DEF ToInt
<1> HIDE DEF r, w
<1>4. QED
  BY <1>1, <1>2, <1>3

\* A section that has been read and sampled.
LEMMA ReadSectionFacts ==
  ASSUME NEW size, Splits(size), NEW f \in Flags, NEW kept \in Nat,
         NEW i \in 0 .. SectNum(size) - 1
  PROVE  LET x == ReadSection(size, f, i, kept)
         IN  /\ x \in Sections
             /\ x.start = SectStart(size, i) /\ x.end = SectEnd(size, i)
             /\ x.typ = f.sectSums /\ x.tran = x.str
             /\ \A k \in x.typ : x.str[k] = <<i * ReadLen(size, 0), ReadLen(size, i)>> /\ x.str[k] # NoStr
             /\ Apart(x.extr, x.start, x.end)
<1> DEFINE pair == <<i * ReadLen(size, 0), ReadLen(size, i)>>
           sum == Sums(f.sectSums, pair)
           extr == SubSeq(Samples(SectStart(size, i), SectSize(size, i)), 1, Kept(size, f, i, kept))
           x == ReadSection(size, f, i, kept)
<1>1. 0 \in 0 .. SectNum(size) - 1 /\ SectNum(size) \in Nat
  BY NumberFits
<1>2. ASSUME NEW j \in 0 .. SectNum(size) - 1
      PROVE  ReadLen(size, j) \in Nat
  <2>1. SectSize(size, j) \in Nat
    BY SectSizeFacts
  <2>2. ToInt(SectSize(size, j)) \in Int
    BY <2>1, ToIntFacts
  <2>3. QED
    BY <2>2 DEF ReadLen
<1>3. i * ReadLen(size, 0) \in Nat /\ ReadLen(size, i) \in Nat
  BY <1>1, <1>2
<1>4. pair \in Strs /\ pair # NoStr
  BY <1>3, PairIsStr
<1>5. f.sectSums \subseteq Kinds
  BY FlagsType
<1> HIDE DEF pair
<1>6. sum \in [Kinds -> Strs] /\ \A k \in f.sectSums : sum[k] = pair
  BY <1>4, <1>5, PairIsStr DEF Sums
<1>7. extr \in Seq(Extracts) /\ Apart(extr, SectStart(size, i), SectStart(size, i) + SectSize(size, i) - 1)
  <2>1. Kept(size, f, i, kept) \in 0 .. Sampling(SectSize(size, i)).num
    BY KeptFacts
  <2>2. SectSize(size, i) \in Nat \ {0} /\ SectStart(size, i) \in Nat
    BY SectSizeFacts
  <2>3. QED
    BY <2>1, <2>2, SamplesFacts
<1>8. x = [start |-> SectStart(size, i), end |-> SectEnd(size, i),
           typ |-> f.sectSums, str |-> sum, tran |-> sum, extr |-> extr]
  BY DEF ReadSection, pair
<1> HIDE DEF sum, extr
<1>9. SectStart(size, i) \in Nat /\ SectEnd(size, i) \in Nat
      /\ SectEnd(size, i) = SectStart(size, i) + SectSize(size, i) - 1
  BY SectSizeFacts
<1>10. x \in Sections
  BY <1>5, <1>6, <1>7, <1>8, <1>9 DEF Sections
<1>11. QED
  BY <1>4, <1>6, <1>7, <1>8, <1>9, <1>10 DEF pair

\* A section that has been cut short, or has not been reached.
LEMMA CutSectionFacts ==
  ASSUME NEW size, Splits(size), NEW f \in Flags, NEW had \in Nat,
         NEW i \in 0 .. SectNum(size) - 1
  PROVE  LET x == CutSection(size, f, i, had)
         IN  /\ x \in Sections /\ x.tran = x.str
             /\ SectStart(size, i) > had => x = WipedSect
             /\ x.typ = {} \/ (x.typ = f.sectSums /\ SectStart(size, i) <= had)
             /\ \A k \in x.typ : x.str[k] # NoStr
<1> DEFINE at == SectStart(size, i)
           pair == <<at, AtMost(had - at, SectSize(size, i))>>
           sum == Sums(f.sectSums, pair)
           x == CutSection(size, f, i, had)
<1>1. at \in Nat /\ SectSize(size, i) \in Nat /\ SectEnd(size, i) \in Nat
  BY SectSizeFacts
<1>2. CASE at > had
  <2>1. x = WipedSect
    BY <1>2 DEF CutSection
  <2>2. WipedSect.typ = {} /\ WipedSect.tran = WipedSect.str
    BY DEF WipedSect
  <2> HIDE DEF x
  <2>3. QED
    BY <1>1, <1>2, <2>1, <2>2, WipedTypes DEF x
<1>3. CASE ~(at > had)
  <2>1. AtMost(had - at, SectSize(size, i)) \in Nat
    BY <1>1, <1>3 DEF AtMost
  <2>2. pair \in Strs /\ pair # NoStr
    BY <1>1, <2>1, PairIsStr
  <2>3. f.sectSums \subseteq Kinds /\ <<>> \in Seq(Extracts)
    BY FlagsType, EmptySeq
  <2>4. x = [start |-> at, end |-> SectEnd(size, i), typ |-> f.sectSums,
             str |-> sum, tran |-> sum, extr |-> <<>>]
    BY <1>3 DEF CutSection
  <2> HIDE DEF pair
  <2>5. sum \in [Kinds -> Strs] /\ \A k \in f.sectSums : sum[k] = pair
    BY <2>2, <2>3, PairIsStr DEF Sums
  <2> HIDE DEF sum, at
  <2>6. x \in Sections
    BY <1>1, <2>3, <2>4, <2>5 DEF Sections
  <2>7. at <= had
    BY <1>1, <1>3
  <2>8. QED
    BY <1>1, <1>3, <2>2, <2>4, <2>5, <2>6, <2>7 DEF at
<1>4. QED
  BY <1>2, <1>3

-----------------------------------------------------------------------------
(* What fingerprint_file puts into the file data                           *)

\* Only the array counts for being sound.
LEMMA SoundByArray ==
  ASSUME NEW m, Sound(m), NEW x \in Memory,
         x.used = m.used, x.sect = m.sect,
         x.data # NoData => m.data # NoData /\ SameArray(x.data, m.data)
  PROVE  Sound(x)
<1>1. ArrayOK(m) /\ WipedOK(m)
  BY DEF Sound
<1>2. ArrayOK(x)
  BY <1>1 DEF ArrayOK, SameArray
<1>3. WipedOK(x)
  BY <1>1 DEF WipedOK
<1>4. QED
  BY <1>2, <1>3 DEF Sound

\* Wiped file data with n new sections, of which the first c count.
IsFilled(x, m, n, c, sections) ==
  LET d == x.data IN
  /\ Sound(x) /\ d # NoData
  /\ d.num = c /\ ~d.sizeTran /\ d.str = NoSums /\ d.tran = NoSums
  /\ \A i \in 1 .. n : d.arr[i] \in Slots \ m.used /\ x.sect[d.arr[i]] = sections[i - 1]
  /\ x.sizes = m.sizes /\ x.sums = m.sums
  /\ x.sectSums = m.sectSums \cup
       UNION {{[kind |-> k, str |-> sections[i].str[k], slot |-> d.arr[i + 1]] :
                 k \in sections[i].typ} : i \in 0 .. n - 1}

\* File data without anything.
LEMMA WipedFacts ==
  ASSUME NEW m, Sound(m)
  PROVE  LET x == [m EXCEPT !.data = WipedData]
         IN  /\ Sound(x) /\ x.data = WipedData /\ x.data # NoData
             /\ x.sect = m.sect /\ x.used = m.used /\ x.sizes = m.sizes
             /\ x.sums = m.sums /\ x.sectSums = m.sectSums
<1> DEFINE x == [m EXCEPT !.data = WipedData]
<1>1. m \in Memory
  BY DEF Sound
<1>2. /\ x \in Memory /\ x.data = WipedData
      /\ x.sect = m.sect /\ x.used = m.used /\ x.sizes = m.sizes
      /\ x.sums = m.sums /\ x.sectSums = m.sectSums
  BY <1>1, WipedTypes DEF Memory
<1>3. WipedData # NoData
  BY WipedTypes, FileAssumption
<1> HIDE DEF x
<1>4. ArrayOK(x)
  <2>1. WipedData.num = 0 /\ WipedData.free = 0 /\ WipedData.arr = <<>>
    BY DEF WipedData
  <2>2. Len(<<>>) = 0
    OBVIOUS
  <2>3. QED
    BY <1>2, <2>1, <2>2 DEF ArrayOK
<1>5. WipedOK(x)
  BY <1>2 DEF WipedOK, Sound
<1>6. QED
  BY <1>2, <1>3, <1>4, <1>5 DEF Sound, x

LEMMA WithSectionsFacts ==
  ASSUME NEW m, Sound(m), NEW size, Splits(size),
         Cardinality(Slots \ m.used) >= SectNum(size),
         NEW sections \in [0 .. SectNum(size) - 1 -> Sections]
  PROVE  /\ IsFilled(WithSections(m, size, sections), m, SectNum(size), SectNum(size), sections)
         /\ WithSections(m, size, sections).data.free = 0
<1> DEFINE n == SectNum(size)
           w == [m EXCEPT !.data = WipedData]
           p == PutSections(w, n)
           new == FreshSlots(w, n)
           at(i) == p.data.arr[i + 1]
           slots == [i \in 0 .. n - 1 |-> at(i)]
           sect == [s \in Slots |->
                      IF \E i \in DOMAIN slots : slots[i] = s
                      THEN sections[CHOOSE i \in DOMAIN slots : slots[i] = s] ELSE p.sect[s]]
           added == UNION {{[kind |-> k, str |-> sections[i].str[k], slot |-> at(i)] :
                              k \in sections[i].typ} : i \in DOMAIN slots}
           e == [p.data EXCEPT !.norm = NormSize(size), !.last = LastSize(size)]
           x == WithSections(m, size, sections)
<1>1. n \in Nat \ {0} /\ NormSize(size) \in Nat /\ LastSize(size) \in Nat
  BY NumberFits, LastIsTheRest
<1>2. x = [p EXCEPT !.sect = sect, !.sectSums = p.sectSums \cup added, !.data = e]
  BY DEF WithSections
<1>3. /\ Sound(w) /\ w.data = WipedData /\ w.data # NoData
      /\ w.sect = m.sect /\ w.used = m.used /\ w.sizes = m.sizes
      /\ w.sums = m.sums /\ w.sectSums = m.sectSums
  BY WipedFacts
<1> HIDE DEF n, w
<1>4. RoomFor(w, n) = n
  <2>1. IsFiniteSet(Slots \ m.used)
    BY SlotsFinite, FS_Subset
  <2>2. Cardinality(Slots \ m.used) \in Nat
    BY <2>1, FS_CardinalityType
  <2>3. QED
    BY <1>1, <1>3, <2>2 DEF RoomFor, AtMost, n
<1>5. /\ new \in [1 .. n -> Slots \ m.used]
      /\ \A i, j \in 1 .. n : new[i] = new[j] => i = j
  <2>1. n \in Nat
    BY <1>1
  <2>2. QED
    BY <1>3, <1>4, <2>1, FreshSlotsFacts
<1>6. /\ Sound(p) /\ p.data # NoData
      /\ p.used = m.used \cup {new[i] : i \in 1 .. n}
      /\ p.data = [WipedData EXCEPT !.array = TRUE, !.arr = GrownBy(WipedData, new, n, n),
                                    !.num = WipedData.num + n, !.free = WipedData.free + n - n]
      /\ p.sect = m.sect /\ p.sizes = m.sizes
      /\ p.sums = m.sums /\ p.sectSums = m.sectSums
  <2>1. n \in Nat
    BY <1>1
  <2>2. /\ Sound(p) /\ p.data # NoData
        /\ p.used = w.used \cup {new[i] : i \in 1 .. RoomFor(w, n)}
        /\ p.data = [w.data EXCEPT !.array = TRUE, !.arr = GrownBy(w.data, new, RoomFor(w, n), n),
                                   !.num = w.data.num + RoomFor(w, n),
                                   !.free = w.data.free + n - RoomFor(w, n)]
        /\ p.sect = w.sect /\ p.sizes = w.sizes
        /\ p.sums = w.sums /\ p.sectSums = w.sectSums
    BY <1>3, <2>1, PutSectionsFacts
  <2> HIDE DEF p, new
  <2>3. QED
    BY <1>3, <1>4, <2>2
<1> HIDE DEF new, p
<1>7. /\ p.data.arr = GrownBy(WipedData, new, n, n) /\ p.data.num = n /\ p.data.free = 0
      /\ ~p.data.sizeTran /\ p.data.str = NoSums /\ p.data.tran = NoSums
  BY <1>1, <1>6 DEF WipedData
<1>8. ASSUME NEW i \in 1 .. n
      PROVE  p.data.arr[i] = new[i] /\ p.data.arr[i] \in Slots \ m.used
  <2>1. WipedData.num = 0 /\ WipedData.free = 0
    BY DEF WipedData
  <2>2. i \in 1 .. (0 + 0 + n) /\ ~(i <= 0) /\ i <= 0 + n /\ i - 0 = i
    BY <1>1
  <2>3. GrownBy(WipedData, new, n, n)[i] = new[i]
    BY <2>1, <2>2 DEF GrownBy
  <2>4. QED
    BY <1>5, <1>7, <2>3
<1>9. /\ DOMAIN slots = 0 .. n - 1
      /\ \A i \in 0 .. n - 1 : slots[i] = at(i) /\ at(i) \in Slots \ m.used
      /\ \A i, j \in 0 .. n - 1 : at(i) = at(j) => i = j
  <2>1. ASSUME NEW i \in 0 .. n - 1
        PROVE  i + 1 \in 1 .. n
    BY <1>1
  <2>2. ASSUME NEW i \in 0 .. n - 1, NEW j \in 0 .. n - 1, at(i) = at(j)
        PROVE  i = j
    <3>1. i + 1 = j + 1
      BY <1>5, <1>8, <2>1, <2>2
    <3>2. QED
      BY <1>1, <3>1
  <2>3. QED
    BY <1>8, <2>1, <2>2
<1> DEFINE pick(s) == CHOOSE i \in 0 .. n - 1 : slots[i] = s
<1>10. sect = [s \in Slots |-> IF \E i \in 0 .. n - 1 : slots[i] = s
                               THEN sections[pick(s)] ELSE p.sect[s]]
  BY <1>9
<1>11. added = UNION {{[kind |-> k, str |-> sections[i].str[k], slot |-> at(i)] :
                         k \in sections[i].typ} : i \in 0 .. n - 1}
  BY <1>9
<1> HIDE DEF sect, added, slots
<1>12. ASSUME NEW s \in Slots, \E i \in 0 .. n - 1 : slots[i] = s
       PROVE  pick(s) \in 0 .. n - 1 /\ slots[pick(s)] = s
  BY <1>12
<1>13. \A i \in 0 .. n - 1 : sections[i] \in Sections
  BY DEF n
<1>14. p \in Memory /\ p.sect \in [Slots -> Sections]
  BY <1>6, MemoryIsRecord DEF Sound
<1>15. sect \in [Slots -> Sections]
  <2> HIDE DEF pick
  <2>1. ASSUME NEW s \in Slots
        PROVE  (IF \E i \in 0 .. n - 1 : slots[i] = s THEN sections[pick(s)] ELSE p.sect[s])
                 \in Sections
    BY <1>12, <1>13, <1>14
  <2>2. QED
    BY <1>10, <2>1
<1>16. ASSUME NEW i \in 0 .. n - 1
       PROVE  sect[at(i)] = sections[i]
  <2>1. slots[i] = at(i) /\ at(i) \in Slots
    BY <1>9
  <2>2. pick(at(i)) = i
    <3>1. pick(at(i)) \in 0 .. n - 1 /\ slots[pick(at(i))] = at(i)
      BY <1>12, <2>1
    <3> HIDE DEF pick
    <3>2. at(pick(at(i))) = at(i)
      BY <1>9, <3>1
    <3>3. QED
      BY <1>9, <3>1, <3>2
  <2> HIDE DEF pick
  <2>3. QED
    BY <1>10, <2>1, <2>2
<1>17. added \subseteq [kind : Kinds, str : Strs, slot : Slots]
  <2>1. ASSUME NEW i \in 0 .. n - 1, NEW k \in sections[i].typ
        PROVE  [kind |-> k, str |-> sections[i].str[k], slot |-> at(i)]
                 \in [kind : Kinds, str : Strs, slot : Slots]
    <3>1. k \in Kinds /\ sections[i].str[k] \in Strs
      BY <1>13, <2>1 DEF Sections
    <3>2. at(i) \in Slots
      BY <1>9
    <3>3. QED
      BY <3>1, <3>2
  <2> HIDE DEF at
  <2>2. QED
    BY <1>11, <2>1
<1>18. p.data \in Datas
  BY <1>6, <1>14, MemoryIsRecord
<1>19. e \in Datas /\ SameArray(e, p.data)
       /\ e.sizeTran = p.data.sizeTran /\ e.str = p.data.str /\ e.tran = p.data.tran
  BY <1>1, <1>18 DEF Datas, SameArray
<1> HIDE DEF e
<1>20. p.sectSums \cup added \subseteq [kind : Kinds, str : Strs, slot : Slots]
  BY <1>14, <1>17, MemoryIsRecord
<1>21. x \in Memory
  BY <1>2, <1>14, <1>15, <1>19, <1>20 DEF Memory
<1>22. /\ x.data = e /\ x.sect = sect /\ x.sectSums = p.sectSums \cup added
       /\ x.used = p.used /\ x.sizes = p.sizes /\ x.sums = p.sums
  BY <1>2, <1>14 DEF Memory
<1> HIDE DEF x
<1>23. x.data # NoData /\ SameArray(x.data, p.data)
  BY <1>19, <1>22, FileAssumption
<1>24. ArrayOK(x)
  BY <1>6, <1>22, <1>23 DEF Sound, ArrayOK, SameArray
<1>25. WipedOK(x)
  <2>1. ASSUME NEW s \in Slots \ p.used
        PROVE  sect[s] = WipedSect
    <3>1. ~ \E i \in 0 .. n - 1 : slots[i] = s
      <4>1. SUFFICES ASSUME NEW i \in 0 .. n - 1, slots[i] = s
                     PROVE  FALSE
        OBVIOUS
      <4>2. i + 1 \in 1 .. n
        BY <1>1
      <4>3. s = new[i + 1]
        BY <1>8, <1>9, <4>1, <4>2
      <4>4. QED
        BY <1>6, <2>1, <4>2, <4>3
    <3>2. sect[s] = p.sect[s]
      BY <1>10, <3>1
    <3>3. QED
      BY <1>6, <2>1, <3>2 DEF Sound, WipedOK
  <2>2. QED
    BY <1>22, <2>1 DEF WipedOK
<1>26. ASSUME NEW i \in 1 .. n
       PROVE  x.data.arr[i] \in Slots \ m.used /\ x.sect[x.data.arr[i]] = sections[i - 1]
  <2>1. i - 1 \in 0 .. n - 1 /\ i - 1 + 1 = i
    BY <1>1
  <2>2. sect[p.data.arr[i]] = sections[i - 1]
    BY <1>16, <2>1
  <2>3. QED
    BY <1>8, <1>22, <1>23, <2>2 DEF SameArray
<1>27. x.sectSums = m.sectSums \cup
         UNION {{[kind |-> k, str |-> sections[i].str[k], slot |-> x.data.arr[i + 1]] :
                   k \in sections[i].typ} : i \in 0 .. n - 1}
  BY <1>6, <1>11, <1>22, <1>23 DEF SameArray
<1>28. /\ x.data.num = n /\ x.data.free = 0 /\ ~x.data.sizeTran
       /\ x.data.str = NoSums /\ x.data.tran = NoSums
       /\ x.sizes = m.sizes /\ x.sums = m.sums
  BY <1>6, <1>7, <1>19, <1>22 DEF SameArray
<1>29. Sound(x)
  BY <1>21, <1>24, <1>25 DEF Sound
<1>30. IsFilled(x, m, n, n, sections)
  BY <1>23, <1>26, <1>27, <1>28, <1>29 DEF IsFilled
<1>31. QED
  BY <1>28, <1>30 DEF x, n

\* After an early end in section i.
LEMMA CutDataFacts ==
  ASSUME NEW m, Sound(m), NEW size, Splits(size),
         Cardinality(Slots \ m.used) >= SectNum(size),
         NEW f \in Flags, NEW had \in Nat, NEW i \in 0 .. SectNum(size) - 1
  PROVE  LET n == SectNum(size)
             sections == [j \in 0 .. n - 1 |-> CutSection(size, f, j, had)]
         IN  IsFilled(CutData(m, size, f, had, i), m, n,
                      IF n = 1 THEN 1 ELSE n - (i + 1), sections)
<1> DEFINE n == SectNum(size)
           sections == [j \in 0 .. n - 1 |-> CutSection(size, f, j, had)]
           w == WithSections(m, size, sections)
           x == CutData(m, size, f, had, i)
           e == [w.data EXCEPT !.num = n - (i + 1), !.free = i + 1]
<1>1. n \in Nat \ {0}
  BY NumberFits
<1>2. sections \in [0 .. n - 1 -> Sections]
  <2>1. \A j \in 0 .. n - 1 : CutSection(size, f, j, had) \in Sections
    BY CutSectionFacts
  <2>2. QED
    BY <2>1
<1>3. x = IF n = 1 THEN w ELSE [w EXCEPT !.data = e]
  BY DEF CutData
<1> HIDE DEF sections
<1>4. IsFilled(w, m, n, n, sections) /\ w.data.free = 0
  BY <1>2, WithSectionsFacts
<1> HIDE DEF w
<1>5. CASE n = 1
  BY <1>3, <1>4, <1>5 DEF sections
<1>6. CASE n # 1
  <2>1. /\ w \in Memory /\ w.data \in Datas /\ ArrayOK(w) /\ WipedOK(w)
        /\ w.data # NoData /\ w.data.num = n
    BY <1>4, MemoryIsRecord DEF IsFilled, Sound
  <2>2. /\ n - (i + 1) \in Nat /\ i + 1 \in Nat /\ n - (i + 1) <= n
        /\ n - (i + 1) + (i + 1) = n + 0
    BY <1>1 DEF n
  <2>3. /\ e \in Datas /\ e.arr = w.data.arr /\ e.num = n - (i + 1) /\ e.free = i + 1
        /\ e.sizeTran = w.data.sizeTran /\ e.str = w.data.str /\ e.tran = w.data.tran
    BY <2>1, <2>2 DEF Datas
  <2> HIDE DEF e
  <2>4. x = [w EXCEPT !.data = e]
    BY <1>3, <1>6
  <2> HIDE DEF x, n
  <2>5. /\ x \in Memory /\ x.data = e /\ x.sect = w.sect /\ x.used = w.used
        /\ x.sizes = w.sizes /\ x.sums = w.sums /\ x.sectSums = w.sectSums
    BY <2>1, <2>3, <2>4 DEF Memory
  <2>6. e # NoData
    BY <2>3, FileAssumption
  <2>7. ArrayOK(x)
    <3>1. Len(e.arr) = e.num + e.free
      BY <1>4, <2>1, <2>2, <2>3 DEF ArrayOK
    <3>2. \A j \in 1 .. e.num : j \in 1 .. n
      BY <1>1, <2>2, <2>3
    <3>3. QED
      BY <2>1, <2>3, <2>5, <3>1, <3>2 DEF ArrayOK
  <2>8. Sound(x)
    BY <2>1, <2>5, <2>7 DEF Sound, WipedOK
  <2>9. IsFilled(x, m, n, n - (i + 1), sections)
    BY <1>4, <2>3, <2>5, <2>6, <2>8 DEF IsFilled
  <2>10. QED
    BY <1>6, <2>9 DEF x, sections, n
<1>7. QED
  BY <1>5, <1>6

-----------------------------------------------------------------------------
(* Where the indexes lead                                                  *)

\* No node leads to anything.
AllEmpty(m) == m.sizes = {} /\ m.sums = {} /\ m.sectSums = {}

\* The nodes of the size and of the checksums of the file.
StrNodes(d) == {<<k, d.str[k]>> : k \in {x \in Kinds : d.str[x] # NoStr}}
FileTracked(m) ==
  /\ m.sizes = IF m.data.sizeTran THEN {m.data.size} ELSE {}
  /\ m.data.tran = m.data.str
  /\ m.sums = StrNodes(m.data)

\* The members of the chains of sections.
MemberExact(m, n) ==
  /\ n.slot \in MineOf(m.data)
  /\ m.sect[n.slot].str[n.kind] = n.str /\ m.sect[n.slot].tran[n.kind] = n.str
  /\ n.str # NoStr
SectTracked(m) ==
  /\ NoSlot \notin MineOf(m.data)
  /\ \A n \in m.sectSums : MemberExact(m, n)
  /\ \A s \in MineOf(m.data) : \A k \in m.sect[s].typ :
       [kind |-> k, str |-> m.sect[s].str[k], slot |-> s] \in m.sectSums

Tracked(m) == IF m.data = NoData THEN AllEmpty(m) ELSE FileTracked(m) /\ SectTracked(m)

\* Sections in the index are among those that count.
LEMMA FilledTracked ==
  ASSUME NEW m, AllEmpty(m), NEW n \in Nat, NEW c \in 0 .. n, NEW sections,
         \A i \in 0 .. n - 1 :
           /\ sections[i].tran = sections[i].str
           /\ \A k \in sections[i].typ : sections[i].str[k] # NoStr
           /\ sections[i].typ # {} => i < c,
         NEW x, IsFilled(x, m, n, c, sections)
  PROVE  FileTracked(x) /\ SectTracked(x)
<1> DEFINE d == x.data
           node(i, k) == [kind |-> k, str |-> sections[i].str[k], slot |-> d.arr[i + 1]]
<1>1. /\ d.num = c /\ ~d.sizeTran /\ d.str = NoSums /\ d.tran = NoSums
      /\ \A i \in 1 .. n : d.arr[i] \in Slots \ m.used /\ x.sect[d.arr[i]] = sections[i - 1]
      /\ x.sizes = {} /\ x.sums = {}
      /\ x.sectSums = UNION {{node(i, k) : k \in sections[i].typ} : i \in 0 .. n - 1}
  BY DEF IsFilled, AllEmpty
<1> HIDE DEF d
<1>2. FileTracked(x)
  <2>1. StrNodes(d) = {}
    BY <1>1 DEF StrNodes, NoSums
  <2>2. QED
    BY <1>1, <2>1 DEF FileTracked, d
<1>3. NoSlot \notin MineOf(d)
  <2>1. SUFFICES ASSUME NEW i \in 1 .. d.num, d.arr[i] = NoSlot
                 PROVE  FALSE
    BY DEF MineOf
  <2>2. i \in 1 .. n
    BY <1>1
  <2>3. QED
    BY <1>1, <2>1, <2>2, FileAssumption
<1>4. ASSUME NEW a \in x.sectSums
      PROVE  MemberExact(x, a)
  <2>1. PICK i \in 0 .. n - 1 : \E k \in sections[i].typ : a = node(i, k)
    BY <1>1
  <2>2. PICK k \in sections[i].typ : a = node(i, k)
    BY <2>1
  <2>3. i + 1 \in 1 .. n /\ i + 1 - 1 = i /\ i + 1 \in 1 .. c
    BY <2>2
  <2>4. x.sect[d.arr[i + 1]] = sections[i] /\ d.arr[i + 1] \in MineOf(d)
    BY <1>1, <2>3 DEF MineOf
  <2>5. a.kind = k /\ a.str = sections[i].str[k] /\ a.slot = d.arr[i + 1]
    BY <2>2
  <2>6. QED
    BY <2>4, <2>5 DEF MemberExact, d
<1>5. ASSUME NEW s \in MineOf(d), NEW k \in x.sect[s].typ
      PROVE  [kind |-> k, str |-> x.sect[s].str[k], slot |-> s] \in x.sectSums
  <2>1. PICK i \in 1 .. d.num : s = d.arr[i]
    BY DEF MineOf
  <2>2. i \in 1 .. n /\ i - 1 \in 0 .. n - 1 /\ i - 1 + 1 = i
    BY <1>1
  <2>3. x.sect[s] = sections[i - 1]
    BY <1>1, <2>1, <2>2
  <2>4. k \in sections[i - 1].typ
    BY <1>5, <2>3
  <2>5. [kind |-> k, str |-> x.sect[s].str[k], slot |-> s] = node(i - 1, k)
    BY <2>1, <2>2, <2>3
  <2>6. node(i - 1, k) \in {node(i - 1, b) : b \in sections[i - 1].typ}
    BY <2>4
  <2> HIDE DEF node
  <2>7. QED
    BY <1>1, <2>2, <2>5, <2>6
<1>6. QED
  BY <1>2, <1>3, <1>4, <1>5 DEF SectTracked, d

\* The size and the checksums of the file.
LEMMA WithFileFacts ==
  ASSUME NEW m, Sound(m), m.data # NoData, NEW f \in Flags, NEW size \in Nat,
         NEW str \in Strs, NEW extr \in Seq(Extracts)
  PROVE  LET x == WithFile(m, f, size, str, extr)
         IN  /\ Sound(x) /\ x.data # NoData
             /\ SameArray(x.data, m.data)
             /\ x.data.typ = f.sums /\ x.data.extr = extr
             /\ x.data.str = Sums(f.sums, str) /\ x.data.tran = Sums(f.sums, str)
             /\ x.sums = m.sums \cup {<<k, str>> : k \in f.sums}
             /\ x.sect = m.sect /\ x.sectSums = m.sectSums
             /\ IF f.size
                THEN x.data.sizeTran /\ x.data.size = size /\ x.sizes = m.sizes \cup {size}
                ELSE x.data.sizeTran = m.data.sizeTran /\ x.data.size = m.data.size
                     /\ x.sizes = m.sizes
<1> DEFINE sums == Sums(f.sums, str)
           e == [m.data EXCEPT !.typ = f.sums, !.str = sums, !.tran = sums, !.extr = extr]
           nodes == m.sums \cup {<<k, str>> : k \in f.sums}
           d == [m EXCEPT !.data = e, !.sums = nodes]
           g == [e EXCEPT !.size = size]
           h == [d EXCEPT !.data.size = size]
           x == WithFile(m, f, size, str, extr)
<1>1. m \in Memory /\ m.data \in Datas /\ f.sums \subseteq Kinds
  BY MemoryIsRecord, FlagsType DEF Sound
<1>2. sums \in [Kinds -> Strs]
  BY PairIsStr DEF Sums
<1>3. nodes \subseteq Kinds \X Strs
  BY <1>1, MemoryIsRecord
<1>4. x = IF f.size THEN LinkSize(h) ELSE d
  BY DEF WithFile
<1> HIDE DEF sums, nodes
<1>5. /\ e \in Datas /\ SameArray(e, m.data)
      /\ e.typ = f.sums /\ e.extr = extr /\ e.str = sums /\ e.tran = sums
      /\ e.size = m.data.size /\ e.sizeTran = m.data.sizeTran
  BY <1>1, <1>2 DEF Datas, SameArray
<1> HIDE DEF e
<1>6. /\ d \in Memory /\ d.data = e /\ d.sums = nodes /\ d.sect = m.sect
      /\ d.used = m.used /\ d.sizes = m.sizes /\ d.sectSums = m.sectSums
  BY <1>1, <1>3, <1>5 DEF Memory
<1> HIDE DEF d
<1>7. /\ g \in Datas /\ SameArray(g, m.data) /\ g.size = size
      /\ g.typ = f.sums /\ g.extr = extr /\ g.str = sums /\ g.tran = sums
  BY <1>5 DEF Datas, SameArray
<1>13. h = [d EXCEPT !.data = g]
  BY <1>6
<1> HIDE DEF g, h
<1>8. /\ h \in Memory /\ h.data = g /\ h.sums = nodes /\ h.sect = m.sect
      /\ h.used = m.used /\ h.sizes = m.sizes /\ h.sectSums = m.sectSums
  BY <1>6, <1>7, <1>13 DEF Memory
<1>9. e # NoData /\ g # NoData
  BY <1>5, <1>7, FileAssumption
<1>10. CASE f.size
  <2> DEFINE y == LinkSize(h)
  <2>1. /\ y \in Memory /\ y.data = [g EXCEPT !.sizeTran = TRUE]
        /\ y.sizes = m.sizes \cup {size}
        /\ y.sect = m.sect /\ y.used = m.used
        /\ y.sums = nodes /\ y.sectSums = m.sectSums
    BY <1>7, <1>8, <1>9, LinkSizeFacts
  <2>2. x = y
    BY <1>4, <1>10
  <2> HIDE DEF x, y
  <2>3. /\ y.data \in Datas /\ SameArray(y.data, m.data) /\ y.data.size = size
        /\ y.data.typ = f.sums /\ y.data.extr = extr /\ y.data.str = sums /\ y.data.tran = sums
        /\ y.data.sizeTran
    BY <1>7, <2>1 DEF Datas, SameArray
  <2>4. y.data # NoData
    BY <2>3, FileAssumption
  <2>5. Sound(y)
    BY <2>1, <2>3, SoundByArray
  <2>6. QED
    BY <1>10, <2>1, <2>2, <2>3, <2>4, <2>5 DEF x, sums, nodes
<1>11. CASE ~f.size
  <2>1. x = d
    BY <1>4, <1>11
  <2> HIDE DEF x
  <2>2. Sound(d)
    BY <1>5, <1>6, SoundByArray
  <2>3. QED
    BY <1>5, <1>6, <1>9, <1>11, <2>1, <2>2 DEF x, sums, nodes
<1>12. QED
  BY <1>10, <1>11

LEMMA WithFileTracked ==
  ASSUME NEW m, Sound(m), m.data # NoData, FileTracked(m), SectTracked(m),
         m.data.str = NoSums, ~m.data.sizeTran, m.data.sizeTran \in BOOLEAN,
         NEW f \in Flags, NEW size \in Nat,
         NEW str \in Nat \X Nat, NEW extr \in Seq(Extracts)
  PROVE  Tracked(WithFile(m, f, size, str, extr))
<1> DEFINE x == WithFile(m, f, size, str, extr)
           d == x.data
<1>1. str \in Strs /\ str # NoStr
  BY PairIsStr
<1>2. /\ Sound(x) /\ d # NoData
      /\ SameArray(d, m.data)
      /\ d.typ = f.sums
      /\ d.str = Sums(f.sums, str) /\ d.tran = Sums(f.sums, str)
      /\ x.sums = m.sums \cup {<<k, str>> : k \in f.sums}
      /\ x.sect = m.sect /\ x.sectSums = m.sectSums
      /\ IF f.size
         THEN d.sizeTran /\ d.size = size /\ x.sizes = m.sizes \cup {size}
         ELSE d.sizeTran = m.data.sizeTran /\ d.size = m.data.size
              /\ x.sizes = m.sizes
  BY <1>1, WithFileFacts
<1> HIDE DEF x
<1>3. m.sizes = {} /\ m.sums = {}
  <2>1. StrNodes(m.data) = {}
    BY DEF StrNodes, NoSums
  <2>2. QED
    BY <2>1 DEF FileTracked
<1>4. f.sums \subseteq Kinds
  BY FlagsType
<1>5. x.sums = StrNodes(d)
  <2>1. \A k \in Kinds : d.str[k] = IF k \in f.sums THEN str ELSE NoStr
    BY <1>2 DEF Sums
  <2>2. {k \in Kinds : d.str[k] # NoStr} = f.sums
    BY <1>1, <1>4, <2>1
  <2>3. StrNodes(d) = {<<k, d.str[k]>> : k \in f.sums}
    BY <2>2 DEF StrNodes
  <2>4. \A k \in f.sums : d.str[k] = str
    BY <1>4, <2>1
  <2>5. StrNodes(d) = {<<k, str>> : k \in f.sums}
    BY <2>3, <2>4
  <2>6. QED
    BY <1>2, <1>3, <2>5
<1>6. x.sizes = IF d.sizeTran THEN {d.size} ELSE {}
  BY <1>2, <1>3
<1>7. FileTracked(x)
  BY <1>2, <1>5, <1>6 DEF FileTracked
<1>8. MineOf(d) = MineOf(m.data)
  BY <1>2 DEF SameArray, MineOf
<1>9. SectTracked(x)
  BY <1>2, <1>8 DEF SectTracked, MemberExact
<1>10. QED
  BY <1>2, <1>7, <1>9 DEF Tracked, x

-----------------------------------------------------------------------------
(* A file that is read as it was                                           *)

\* What FingerprintExact says of the memory m after a file of this size.
ExactData(m, size) ==
  LET secs == SectionsOf(m)
  IN  /\ \A b \in 0..(size - 1) :
           Cardinality({i \in DOMAIN secs : secs[i].start <= b /\ b <= secs[i].end}) = 1
      /\ \A i \in DOMAIN secs :
           /\ \A k \in secs[i].typ :
                secs[i].str[k] = <<secs[i].start, secs[i].end - secs[i].start + 1>>
           /\ Apart(secs[i].extr, secs[i].start, secs[i].end)
      /\ \A k \in m.data.typ : m.data.str[k] = <<0, size>>
      /\ Apart(m.data.extr, 0, size - 1)

LEMMA FingerprintBy ==
  FingerprintExact <=> (made.how = "fp" /\ ~Overflows(made.size) => ExactData(db, made.size))
BY DEF FingerprintExact, ExactData, Apart

LEMMA FingerprintNext ==
  FingerprintExact' <=>
    (made'.how = "fp" /\ ~Overflows(made'.size) => ExactData(db', made'.size))
BY DEF FingerprintExact, ExactData, Apart, SectionsOf

\* Every byte lies in one section.
LEMMA OneSection ==
  ASSUME NEW size, Splits(size), NEW b \in 0 .. size - 1
  PROVE  LET n == SectNum(size)  q == NormSize(size)  j == b \div q
         IN  /\ j \in 0 .. n - 1
             /\ \A t \in 0 .. n - 1 : SectStart(size, t) <= b /\ b <= SectEnd(size, t) <=> t = j
<1> DEFINE n == SectNum(size)
           q == NormSize(size)
           j == b \div q
<1>1. /\ q \in Nat \ {0} /\ n \in Nat \ {0} /\ size \in Nat
      /\ LastSize(size) \in 1 .. q
      /\ (n - 1) * q + LastSize(size) = size
  BY LastIsTheRest, NumberFits DEF Splits
<1>2. \A t \in 0 .. n - 1 : SectStart(size, t) = t * q /\ SectEnd(size, t) = t * q + SectSize(size, t) - 1
  BY DEF SectStart, SectEnd
<1>3. \A t \in 0 .. n - 1 : SectSize(size, t) = IF t < n - 1 THEN q ELSE LastSize(size)
  BY DEF SectSize
<1>4. j \in Nat /\ q * j <= b /\ b < q * j + q
  <2> HIDE DEF q
  <2>1. b \in Nat
    BY <1>1
  <2>2. QED
    BY <1>1, <2>1, QuotientBound
<1> HIDE DEF n, q, j
<1>5. j * q = q * j /\ j * q \in Nat
  BY <1>1, <1>4
<1>6. j <= n - 1
  <2>1. SUFFICES ASSUME j >= n
                 PROVE  FALSE
    BY <1>1, <1>4
  <2>2. n * q <= j * q
    BY <1>1, <1>4, <2>1
  <2>3. n * q = (n - 1) * q + q /\ n * q \in Nat /\ (n - 1) * q \in Nat
    BY <1>1
  <2>4. QED
    BY <1>1, <1>4, <1>5, <2>2, <2>3
<1>7. j \in 0 .. n - 1
  BY <1>1, <1>4, <1>6
<1>8. SectStart(size, j) <= b /\ b <= SectEnd(size, j)
  <2>1. CASE j < n - 1
    BY <1>1, <1>2, <1>3, <1>4, <1>5, <1>7, <2>1
  <2>2. CASE j = n - 1
    <3>1. j * q + LastSize(size) = size
      BY <1>1, <2>2
    <3>2. SectEnd(size, j) = j * q + LastSize(size) - 1 /\ SectStart(size, j) = j * q
      BY <1>1, <1>2, <1>3, <1>7, <2>2
    <3>3. QED
      BY <1>1, <1>4, <1>5, <3>1, <3>2
  <2>3. QED
    BY <1>1, <1>4, <1>6, <2>1, <2>2
<1>9. ASSUME NEW t \in 0 .. n - 1, SectStart(size, t) <= b, b <= SectEnd(size, t)
      PROVE  t = j
  <2>1. t \in Nat /\ t * q \in Nat /\ b \in Nat
    BY <1>1
  <2>2. SectSize(size, t) \in Nat /\ SectSize(size, t) <= q
    BY <1>1, <1>3
  <2>3. t * q <= b /\ b < t * q + q
    BY <1>1, <1>2, <1>9, <2>1, <2>2
  <2> DEFINE r == b - t * q
  <2>4. r \in Nat /\ r < q /\ b = t * q + r
    BY <1>1, <2>1, <2>3
  <2> HIDE DEF r
  <2>5. (t * q + r) \div q = t
    BY <1>1, <2>1, <2>4, DivisionIsUnique
  <2>6. QED
    BY <2>4, <2>5 DEF j
<1>10. QED
  BY <1>7, <1>8, <1>9 DEF n, q, j

\* When sections fit an int, as many bytes are read as the layout says.
LEMMA ReadLenFacts ==
  ASSUME NEW size, Splits(size), ~Overflows(size)
  PROVE  /\ \A i \in 0 .. SectNum(size) - 1 : ReadLen(size, i) = SectSize(size, i)
         /\ \A i \in 0 .. SectNum(size) - 1 : i * ReadLen(size, 0) = SectStart(size, i)
         /\ SectNum(size) * ReadLen(size, 0) - ReadLen(size, 0) + ReadLen(size, SectNum(size) - 1) = size
<1> DEFINE n == SectNum(size)
           q == NormSize(size)
<1>1. /\ q \in Nat \ {0} /\ n \in Nat \ {0} /\ size \in Nat
      /\ LastSize(size) \in 1 .. q
      /\ (n - 1) * q + LastSize(size) = size
  BY LastIsTheRest, NumberFits DEF Splits
<1>2. q <= IntMax /\ IntMax \in Nat
  BY <1>1, FileAssumption DEF Overflows
<1>3. ASSUME NEW i \in 0 .. n - 1
      PROVE  ReadLen(size, i) = SectSize(size, i)
  <2>1. SectSize(size, i) \in Nat \ {0} /\ SectSize(size, i) <= q
    BY SectSizeFacts
  <2> HIDE DEF q
  <2>2. SectSize(size, i) <= IntMax
    BY <1>1, <1>2, <2>1
  <2>3. ToInt(SectSize(size, i)) = SectSize(size, i)
    BY <2>1, <2>2, ToIntFacts
  <2>4. QED
    BY <2>1, <2>3 DEF ReadLen
<1>4. 0 \in 0 .. n - 1 /\ n - 1 \in 0 .. n - 1
  BY <1>1
<1>5. ReadLen(size, 0) = SectSize(size, 0)
  BY <1>3, <1>4
<1>6. ReadLen(size, n - 1) = LastSize(size)
  BY <1>1, <1>3, <1>4 DEF SectSize
<1>7. SectSize(size, 0) = IF n = 1 THEN LastSize(size) ELSE q
  BY <1>1 DEF SectSize
<1>8. ASSUME NEW i \in 0 .. n - 1
      PROVE  i * ReadLen(size, 0) = SectStart(size, i)
  <2>1. SectStart(size, i) = i * q
    BY DEF SectStart
  <2> HIDE DEF n, q
  <2>2. CASE n = 1
    <3>1. i = 0
      BY <2>2
    <3>2. 0 * LastSize(size) = 0 /\ 0 * q = 0
      BY <1>1
    <3>3. QED
      BY <1>5, <1>7, <2>1, <2>2, <3>1, <3>2
  <2>3. CASE n # 1
    BY <1>5, <1>7, <2>1, <2>3
  <2>4. QED
    BY <2>2, <2>3
<1>9. n * ReadLen(size, 0) - ReadLen(size, 0) + ReadLen(size, n - 1) = size
  <2> HIDE DEF n, q
  <2>1. CASE n = 1
    <3>1. LastSize(size) \in Nat /\ size = LastSize(size)
      BY <1>1, <2>1
    <3>2. 1 * LastSize(size) - LastSize(size) + LastSize(size) = LastSize(size)
      BY <3>1
    <3>3. QED
      BY <1>5, <1>6, <1>7, <2>1, <3>1, <3>2
  <2>2. CASE n # 1
    <3>1. n * q - q = (n - 1) * q
      BY <1>1
    <3>2. QED
      BY <1>1, <1>5, <1>6, <1>7, <2>2, <3>1
  <2>3. QED
    BY <2>1, <2>2
<1>10. QED
  BY <1>3, <1>8, <1>9

LEMMA WholeExact ==
  ASSUME NEW size, Splits(size), ~Overflows(size), NEW f \in Flags, NEW kept \in Nat,
         NEW x, x.data.num = SectNum(size),
         \A i \in 1 .. SectNum(size) : x.sect[x.data.arr[i]] = ReadSection(size, f, i - 1, kept),
         x.data.typ = f.sums,
         x.data.str = Sums(f.sums, <<0, SectNum(size) * ReadLen(size, 0) - ReadLen(size, 0)
                                          + ReadLen(size, SectNum(size) - 1)>>),
         x.data.extr = SubSeq(Samples(0, size), 1, Kept(size, f, -1, kept))
  PROVE  ExactData(x, size)
<1> DEFINE n == SectNum(size)
           secs == SectionsOf(x)
           sec(i) == ReadSection(size, f, i, kept)
<1>1. n \in Nat \ {0} /\ size \in Nat \ {0}
  BY NumberFits DEF Splits
<1>2. DOMAIN secs = 1 .. n /\ \A i \in 1 .. n : secs[i] = sec(i - 1)
  BY DEF SectionsOf
<1> HIDE DEF secs
<1>3. ASSUME NEW i \in 0 .. n - 1
      PROVE  /\ sec(i).start = SectStart(size, i) /\ sec(i).end = SectEnd(size, i)
             /\ \A k \in sec(i).typ : sec(i).str[k] = <<sec(i).start, sec(i).end - sec(i).start + 1>>
             /\ Apart(sec(i).extr, sec(i).start, sec(i).end)
  <2>1. /\ sec(i).start = SectStart(size, i) /\ sec(i).end = SectEnd(size, i)
        /\ \A k \in sec(i).typ : sec(i).str[k] = <<i * ReadLen(size, 0), ReadLen(size, i)>>
        /\ Apart(sec(i).extr, sec(i).start, sec(i).end)
    BY ReadSectionFacts
  <2>2. i * ReadLen(size, 0) = SectStart(size, i) /\ ReadLen(size, i) = SectSize(size, i)
    BY ReadLenFacts
  <2>3. /\ SectEnd(size, i) = SectStart(size, i) + SectSize(size, i) - 1
        /\ SectStart(size, i) \in Nat /\ SectSize(size, i) \in Nat
    BY SectSizeFacts
  <2> HIDE DEF sec
  <2>4. SectSize(size, i) = SectEnd(size, i) - SectStart(size, i) + 1
    BY <2>3
  <2>5. QED
    BY <2>1, <2>2, <2>4
<1> HIDE DEF sec
<1>4. ASSUME NEW b \in 0 .. size - 1
      PROVE  Cardinality({i \in DOMAIN secs : secs[i].start <= b /\ b <= secs[i].end}) = 1
  <2> DEFINE j == b \div NormSize(size)
  <2>1. /\ j \in 0 .. n - 1
        /\ \A t \in 0 .. n - 1 : SectStart(size, t) <= b /\ b <= SectEnd(size, t) <=> t = j
    BY OneSection
  <2> HIDE DEF j, n
  <2>2. ASSUME NEW i \in 1 .. n
        PROVE  secs[i].start <= b /\ b <= secs[i].end <=> i = j + 1
    <3>1. i - 1 \in 0 .. n - 1 /\ (i - 1 = j <=> i = j + 1)
      BY <1>1, <2>1
    <3>2. QED
      BY <1>2, <1>3, <2>1, <3>1
  <2>3. j + 1 \in 1 .. n
    BY <1>1, <2>1
  <2>4. {i \in DOMAIN secs : secs[i].start <= b /\ b <= secs[i].end} = {j + 1}
    BY <1>2, <2>2, <2>3
  <2>5. QED
    BY <2>4, FS_Singleton
<1>5. ASSUME NEW i \in DOMAIN secs
      PROVE  /\ \A k \in secs[i].typ :
                  secs[i].str[k] = <<secs[i].start, secs[i].end - secs[i].start + 1>>
             /\ Apart(secs[i].extr, secs[i].start, secs[i].end)
  <2>1. i - 1 \in 0 .. n - 1
    BY <1>1, <1>2
  <2>2. QED
    BY <1>2, <1>3, <2>1
<1>6. ASSUME NEW k \in x.data.typ
      PROVE  x.data.str[k] = <<0, size>>
  <2>1. n * ReadLen(size, 0) - ReadLen(size, 0) + ReadLen(size, n - 1) = size
    BY ReadLenFacts
  <2>2. k \in f.sums /\ k \in Kinds
    BY <1>6, FlagsType
  <2>3. QED
    BY <2>1, <2>2 DEF Sums
<1>7. Apart(x.data.extr, 0, size - 1)
  <2>1. Kept(size, f, -1, kept) \in 0 .. Sampling(size).num
    BY KeptFacts
  <2>2. Apart(x.data.extr, 0, 0 + size - 1)
    BY <1>1, <2>1, SamplesFacts
  <2>3. 0 + size - 1 = size - 1
    BY <1>1
  <2>4. QED
    BY <2>2, <2>3
<1>8. QED
  BY <1>4, <1>5, <1>6, <1>7 DEF ExactData, secs

-----------------------------------------------------------------------------
(* The loop of detach                                                      *)

\* The recursion of Collapsing has the solution it asks for.
LEMMA CollapsingAt ==
  ASSUME NEW arr, NEW num \in Nat
  PROVE  LET at == Collapsing(arr, num)
         IN  /\ at[0] = [arr |-> arr, fill |-> 1]
             /\ \A i \in 1 .. num : at[i] = CollapseStep(arr, at[i - 1], i)
<1> DEFINE start == [arr |-> arr, fill |-> 1]
           Solves(f, n) ==
             f = [i \in 0 .. n |-> IF i = 0 THEN start ELSE CollapseStep(arr, f[i - 1], i)]
           S == {n \in Nat : \E f : Solves(f, n)}
<1>1. 0 \in S
  <2> DEFINE f == [i \in 0 .. 0 |-> start]
  <2>1. Solves(f, 0)
    OBVIOUS
  <2>2. QED
    BY <2>1
<1>2. ASSUME NEW n \in Nat, n \in S
      PROVE  n + 1 \in S
  <2>1. PICK f : Solves(f, n)
    BY <1>2
  <2> HIDE DEF start
  <2> DEFINE g == [i \in 0 .. n + 1 |-> IF i = n + 1 THEN CollapseStep(arr, f[n], i) ELSE f[i]]
  <2>2. ASSUME NEW i \in 0 .. n + 1
        PROVE  g[i] = IF i = 0 THEN start ELSE CollapseStep(arr, g[i - 1], i)
    <3>1. CASE i = n + 1
      <4>1. g[i] = CollapseStep(arr, f[n], i) /\ g[i - 1] = f[n]
        BY <3>1
      <4>2. QED
        BY <3>1, <4>1
    <3>2. CASE i \in 0 .. n
      <4>1. f[i] = IF i = 0 THEN start ELSE CollapseStep(arr, f[i - 1], i)
        BY <2>1, <3>2
      <4>2. g[i] = f[i] /\ (i # 0 => g[i - 1] = f[i - 1])
        BY <3>2
      <4>3. QED
        BY <4>1, <4>2
    <3>3. QED
      BY <3>1, <3>2
  <2>3. Solves(g, n + 1)
    BY <2>2
  <2>4. \E h : Solves(h, n + 1)
    <3> HIDE DEF Solves, g
    <3>1. QED
      BY <2>3
  <2>5. QED
    BY <2>4
<1>3. num \in S
  <2>1. Nat \subseteq S
    <3> HIDE DEF S
    <3>1. QED
      BY <1>1, <1>2, SetInduction
  <2>2. QED
    BY <2>1
<1>4. \E f : Solves(f, num)
  BY <1>3
<1>5. Collapsing(arr, num) = CHOOSE f : Solves(f, num)
  BY DEF Collapsing
<1>6. Solves(Collapsing(arr, num), num)
  <2> HIDE DEF Solves
  <2>1. QED
    BY <1>4, <1>5
<1> DEFINE at == Collapsing(arr, num)
<1>7. \A i \in 0 .. num : at[i] = IF i = 0 THEN start ELSE CollapseStep(arr, at[i - 1], i)
  <2> HIDE DEF start
  <2>1. QED
    BY <1>6
<1> HIDE DEF at, start
<1>8. at[0] = start
  <2>1. 0 \in 0 .. num
    OBVIOUS
  <2>2. QED
    BY <1>7, <2>1
<1>9. \A i \in 1 .. num : at[i] = CollapseStep(arr, at[i - 1], i)
  <2>1. \A i \in 1 .. num : i \in 0 .. num /\ i # 0
    OBVIOUS
  <2>2. QED
    BY <1>7, <2>1
<1>10. QED
  BY <1>8, <1>9 DEF at, start

\* What a step does, in terms of the array and the place to fill.
Stepped(x, c, holes, i, len, S) ==
  /\ x = [arr |-> x.arr, fill |-> x.fill]
  /\ x.arr \in [1 .. len -> S] /\ x.fill \in 1 .. i + 1
  /\ holes[i] = NoSlot =>
       /\ x.arr = c.arr
       /\ x.fill = IF i > 1 /\ holes[i - 1] = NoSlot THEN c.fill ELSE i
  /\ holes[i] # NoSlot =>
       /\ x.fill = c.fill + 1
       /\ \A j \in 1 .. len :
            x.arr[j] = IF j = c.fill THEN c.arr[i] ELSE IF j = i THEN NoSlot ELSE c.arr[j]

LEMMA CollapseStepFacts ==
  ASSUME NEW len \in Nat, NEW S, NoSlot \in S, NEW holes, NEW i \in 1 .. len,
         NEW c, c.arr \in [1 .. len -> S], c.fill \in 1 .. i, c = [arr |-> c.arr, fill |-> c.fill]
  PROVE  Stepped(CollapseStep(holes, c, i), c, holes, i, len, S)
<1> DEFINE x == CollapseStep(holes, c, i)
           a == c.arr
           p == c.fill
<1>1. c = [arr |-> a, fill |-> p]
  OBVIOUS
<1>2. x = IF holes[i] = NoSlot
          THEN [c EXCEPT !.fill = IF i > 1 /\ holes[i - 1] = NoSlot THEN p ELSE i]
          ELSE IF p = i THEN [c EXCEPT !.fill = i + 1]
          ELSE [arr |-> Moved(a, i, p), fill |-> p + 1]
  BY DEF CollapseStep
<1>3. DOMAIN a = 1 .. len /\ a \in [1 .. len -> S] /\ p \in 1 .. i
  OBVIOUS
<1> HIDE DEF a, p
<1>4. p \in 1 .. len
  BY <1>3
<1>5. CASE holes[i] = NoSlot
  <2>1. x = [arr |-> a, fill |-> IF i > 1 /\ holes[i - 1] = NoSlot THEN p ELSE i]
    BY <1>1, <1>2, <1>5
  <2> HIDE DEF x
  <2>2. QED
    BY <1>3, <1>5, <2>1 DEF a, p, x, Stepped
<1>6. CASE holes[i] # NoSlot /\ p = i
  <2>1. x = [arr |-> a, fill |-> p + 1]
    BY <1>1, <1>2, <1>6
  <2> HIDE DEF x
  <2>2. x.arr = a /\ x.fill = p + 1
    BY <2>1
  <2>3. QED
    BY <1>3, <1>6, <2>1, <2>2 DEF a, p, x, Stepped
<1>7. CASE holes[i] # NoSlot /\ p # i
  <2>1. x = [arr |-> Moved(a, i, p), fill |-> p + 1]
    BY <1>2, <1>7
  <2>2. Moved(a, i, p) = [j \in 1 .. len |-> IF j = p THEN a[i] ELSE IF j = i THEN NoSlot ELSE a[j]]
    BY <1>3 DEF Moved
  <2> HIDE DEF x
  <2>3. x.arr = [j \in 1 .. len |-> IF j = p THEN a[i] ELSE IF j = i THEN NoSlot ELSE a[j]]
    BY <2>1, <2>2
  <2>4. x.arr \in [1 .. len -> S]
    BY <1>3, <2>3
  <2>5. x.fill = p + 1 /\ x = [arr |-> x.arr, fill |-> x.fill]
    BY <2>1
  <2>6. QED
    BY <1>3, <1>7, <2>3, <2>4, <2>5 DEF a, p, x, Stepped
<1>8. QED
  BY <1>5, <1>6, <1>7

\* Whatever is chosen: no section comes in or is doubled.
Orderly(a, holes, num) ==
  /\ \A j \in 1 .. num : a[j] # NoSlot => \E t \in 1 .. num : a[j] = holes[t]
  /\ \A j, l \in 1 .. num : a[j] = a[l] /\ a[j] # NoSlot => j = l

LEMMA CollapseKeeps ==
  ASSUME NEW len \in Nat, NEW num \in 0 .. len, NEW S, NoSlot \in S,
         NEW holes \in [1 .. len -> S], Orderly(holes, holes, num)
  PROVE  Collapse(holes, num) \in [1 .. len -> S] /\ Orderly(Collapse(holes, num), holes, num)
<1> DEFINE at == Collapsing(holes, num)
           K(i) == /\ at[i] = [arr |-> at[i].arr, fill |-> at[i].fill]
                   /\ at[i].arr \in [1 .. len -> S] /\ at[i].fill \in 1 .. i + 1
                   /\ Orderly(at[i].arr, holes, num)
           T == {i \in Nat : i <= num => K(i)}
<1>1. /\ at[0] = [arr |-> holes, fill |-> 1]
      /\ \A i \in 1 .. num : at[i] = CollapseStep(holes, at[i - 1], i)
  BY CollapsingAt
<1> HIDE DEF at
<1>2. 0 \in T
  <2>1. at[0].arr = holes /\ at[0].fill = 1
    BY <1>1
  <2>2. QED
    BY <1>1, <2>1
<1>3. ASSUME NEW n \in Nat, n \in T
      PROVE  n + 1 \in T
  <2>1. SUFFICES ASSUME n + 1 <= num
                 PROVE  K(n + 1)
    OBVIOUS
  <2> DEFINE i == n + 1
             c == at[n]
             x == at[i]
  <2>2. i \in 1 .. num /\ i \in 1 .. len /\ i - 1 = n
    BY <2>1
  <2>3. /\ c = [arr |-> c.arr, fill |-> c.fill]
        /\ c.arr \in [1 .. len -> S] /\ c.fill \in 1 .. i
        /\ Orderly(c.arr, holes, num)
    BY <1>3, <2>1
  <2>4. x = CollapseStep(holes, c, i)
    BY <1>1, <2>2
  <2> HIDE DEF i, c, x
  <2>5. /\ x = [arr |-> x.arr, fill |-> x.fill]
        /\ x.arr \in [1 .. len -> S] /\ x.fill \in 1 .. i + 1
        /\ holes[i] = NoSlot => x.arr = c.arr
        /\ holes[i] # NoSlot =>
             \A j \in 1 .. len :
               x.arr[j] = IF j = c.fill THEN c.arr[i] ELSE IF j = i THEN NoSlot ELSE c.arr[j]
    <3>1. Stepped(x, c, holes, i, len, S)
      BY <2>2, <2>3, <2>4, CollapseStepFacts
    <3>2. QED
      BY <3>1 DEF Stepped
  <2>6. Orderly(x.arr, holes, num)
    <3>1. CASE holes[i] = NoSlot
      BY <2>3, <2>5, <3>1
    <3>2. CASE holes[i] # NoSlot
      <4> DEFINE from(j) == IF j = c.fill THEN i ELSE j
      <4>1. ASSUME NEW j \in 1 .. num, x.arr[j] # NoSlot
            PROVE  from(j) \in 1 .. num /\ x.arr[j] = c.arr[from(j)] /\ (j # c.fill => j # i)
        <5>1. j \in 1 .. len
          OBVIOUS
        <5>2. x.arr[j] = IF j = c.fill THEN c.arr[i] ELSE IF j = i THEN NoSlot ELSE c.arr[j]
          BY <2>5, <3>2, <5>1
        <5>3. QED
          BY <2>2, <4>1, <5>2
      <4>2. ASSUME NEW j \in 1 .. num, x.arr[j] # NoSlot
            PROVE  \E t \in 1 .. num : x.arr[j] = holes[t]
        BY <2>3, <4>1, <4>2 DEF Orderly
      <4>3. ASSUME NEW j \in 1 .. num, NEW l \in 1 .. num, x.arr[j] = x.arr[l], x.arr[j] # NoSlot
            PROVE  j = l
        <5>1. from(j) = from(l)
          <6> HIDE DEF from
          <6>1. /\ from(j) \in 1 .. num /\ x.arr[j] = c.arr[from(j)]
                /\ from(l) \in 1 .. num /\ x.arr[l] = c.arr[from(l)]
            BY <4>1, <4>3
          <6>2. /\ c.arr[from(j)] = c.arr[from(l)] /\ c.arr[from(j)] # NoSlot
            BY <4>3, <6>1
          <6>3. \A y, z \in 1 .. num : c.arr[y] = c.arr[z] /\ c.arr[y] # NoSlot => y = z
            BY <2>3 DEF Orderly
          <6>4. QED
            BY <6>1, <6>2, <6>3
        <5>2. QED
          BY <4>1, <4>3, <5>1
      <4>4. QED
        BY <4>2, <4>3 DEF Orderly
    <3>3. QED
      BY <3>1, <3>2
  <2>7. QED
    BY <2>5, <2>6 DEF i, x
<1>4. num \in T
  <2>1. Nat \subseteq T
    <3> HIDE DEF T
    <3>1. QED
      BY <1>2, <1>3, SetInduction
  <2>2. QED
    BY <2>1
<1>5. K(num)
  BY <1>4
<1>6. QED
  BY <1>5 DEF Collapse, at

\* How many of the first i places are kept.
LeftOf(chosen, i) == i - Cardinality({j \in chosen : j <= i})

LEMMA LeftOfFacts ==
  ASSUME NEW num \in Nat, NEW chosen, chosen \subseteq 1 .. num
  PROVE  /\ LeftOf(chosen, 0) = 0
         /\ \A i \in Nat : LeftOf(chosen, i) \in 0 .. i
         /\ \A i \in Nat : LeftOf(chosen, i + 1) =
              IF i + 1 \in chosen THEN LeftOf(chosen, i) ELSE LeftOf(chosen, i) + 1
         /\ LeftOf(chosen, num) = num - Cardinality(chosen)
         /\ Cardinality(chosen) \in 0 .. num
<1> DEFINE upto(i) == {j \in chosen : j <= i}
<1>1. \A j \in chosen : j \in Nat /\ j >= 1 /\ j <= num
  OBVIOUS
<1>2. ASSUME NEW k \in Nat, NEW U, U \subseteq 1 .. k
      PROVE  IsFiniteSet(U) /\ Cardinality(U) \in 0 .. k
  <2>1. Cardinality(1 .. k) = k /\ IsFiniteSet(1 .. k)
    <3>1. Cardinality(1 .. k) = IF 1 > k THEN 0 ELSE k - 1 + 1
      BY FS_Interval
    <3>2. QED
      BY <3>1, FS_Interval
  <2>2. IsFiniteSet(U) /\ Cardinality(U) <= k
    BY <1>2, <2>1, FS_Subset
  <2>3. QED
    BY <2>2, FS_CardinalityType
<1>3. ASSUME NEW i \in Nat
      PROVE  upto(i) \subseteq 1 .. i /\ IsFiniteSet(upto(i)) /\ Cardinality(upto(i)) \in 0 .. i
  <2>1. ASSUME NEW j \in upto(i)
        PROVE  j \in 1 .. i
    BY <1>1
  <2>2. upto(i) \subseteq 1 .. i
    BY <2>1
  <2> HIDE DEF upto
  <2>3. QED
    BY <1>2, <2>2
<1>4. LeftOf(chosen, 0) = 0
  <2>1. Cardinality(upto(0)) \in 0 .. 0
    BY <1>3
  <2>2. QED
    BY <2>1 DEF LeftOf
<1>5. ASSUME NEW i \in Nat
      PROVE  LeftOf(chosen, i) \in 0 .. i
  BY <1>3 DEF LeftOf
<1>6. ASSUME NEW i \in Nat
      PROVE  LeftOf(chosen, i + 1) =
               IF i + 1 \in chosen THEN LeftOf(chosen, i) ELSE LeftOf(chosen, i) + 1
  <2>1. IsFiniteSet(upto(i)) /\ Cardinality(upto(i)) \in Nat /\ i + 1 \notin upto(i)
    BY <1>3
  <2>2. CASE i + 1 \in chosen
    <3>1. upto(i + 1) = upto(i) \cup {i + 1}
      <4>1. ASSUME NEW j \in chosen
            PROVE  j <= i + 1 <=> j <= i \/ j = i + 1
        OBVIOUS
      <4>2. QED
        BY <2>2, <4>1
    <3>2. Cardinality(upto(i + 1)) = Cardinality(upto(i)) + 1
      <4>1. Cardinality(upto(i) \cup {i + 1}) = Cardinality(upto(i)) + 1
        <5> HIDE DEF upto
        <5>1. QED
          BY <2>1, FS_AddElement
      <4>2. QED
        BY <3>1, <4>1
    <3> HIDE DEF upto
    <3>3. QED
      BY <2>1, <2>2, <3>2 DEF LeftOf, upto
  <2>3. CASE i + 1 \notin chosen
    <3>1. upto(i + 1) = upto(i)
      <4>1. ASSUME NEW j \in chosen
            PROVE  j <= i + 1 <=> j <= i
        BY <2>3
      <4>2. QED
        BY <4>1
    <3>2. QED
      BY <2>1, <2>3, <3>1 DEF LeftOf
  <2>4. QED
    BY <2>2, <2>3
<1>7. upto(num) = chosen
  BY <1>1
<1>8. QED
  BY <1>2, <1>4, <1>5, <1>6, <1>7 DEF LeftOf

\* The places that are kept, in their order, when no later gap has a section
\* behind it.
Compacted(a, holes, num, chosen) ==
  /\ \A k \in (1 .. num) \ chosen :
       /\ LeftOf(chosen, k) \in 1 .. LeftOf(chosen, num)
       /\ a[LeftOf(chosen, k)] = holes[k]
  /\ \A p \in 1 .. LeftOf(chosen, num) :
       \E k \in (1 .. num) \ chosen : p = LeftOf(chosen, k)

LEMMA CollapseMoves ==
  ASSUME NEW len \in Nat, NEW num \in 0 .. len, NEW S, NoSlot \in S,
         NEW holes \in [1 .. len -> S], NEW chosen, chosen \subseteq 1 .. num,
         \A i \in 1 .. num : holes[i] = NoSlot <=> i \in chosen,
         ~LaterGap(chosen, num)
  PROVE  Compacted(Collapse(holes, num), holes, num, chosen)
<1>11. num \in Nat
  OBVIOUS
<1> DEFINE at == Collapsing(holes, num)
           r(i) == LeftOf(chosen, i)
           rest == (1 .. num) \ chosen
           Placed(i) == \A k \in rest : k <= i => r(k) \in 1 .. r(i) /\ at[i].arr[r(k)] = holes[k]
           K(i) == /\ at[i] = [arr |-> at[i].arr, fill |-> at[i].fill]
                   /\ at[i].arr \in [1 .. len -> S] /\ at[i].fill \in 1 .. i + 1
                   /\ \A j \in 1 .. num : j > i => at[i].arr[j] = holes[j]
                   /\ Placed(i)
                   /\ (\E k \in rest : k > i) => at[i].fill = r(i) + 1
                   /\ \A p \in 1 .. r(i) : \E k \in rest : k <= i /\ r(k) = p
           T == {i \in Nat : i <= num => K(i)}
<1>1. /\ at[0] = [arr |-> holes, fill |-> 1]
      /\ \A i \in 1 .. num : at[i] = CollapseStep(holes, at[i - 1], i)
  BY CollapsingAt
<1>2. /\ r(0) = 0
      /\ \A i \in Nat : r(i) \in 0 .. i
      /\ \A i \in Nat : r(i + 1) = IF i + 1 \in chosen THEN r(i) ELSE r(i) + 1
  BY <1>11, LeftOfFacts
<1> HIDE DEF at, r
<1>3. 0 \in T
  <2>1. at[0].arr = holes /\ at[0].fill = 1
    BY <1>1
  <2>2. /\ at[0] = [arr |-> at[0].arr, fill |-> at[0].fill]
        /\ at[0].arr \in [1 .. len -> S] /\ at[0].fill \in 1 .. 0 + 1
    BY <1>1, <2>1
  <2>3. \A k \in rest : ~(k <= 0)
    OBVIOUS
  <2>4. Placed(0)
    BY <2>3
  <2>7. /\ \A p \in 1 .. r(0) : \E k \in rest : k <= 0 /\ r(k) = p
        /\ (\E k \in rest : k > 0) => at[0].fill = r(0) + 1
    <3>1. r(0) = 0
      BY <1>2
    <3>2. at[0].fill = r(0) + 1
      BY <2>1, <3>1
    <3>3. \A p \in 1 .. r(0) : FALSE
      BY <3>1
    <3>4. QED
      BY <3>2, <3>3
  <2>8. \A j \in 1 .. num : j > 0 => at[0].arr[j] = holes[j]
    BY <2>1
  <2> HIDE DEF Placed
  <2>5. K(0)
    BY <2>2, <2>4, <2>7, <2>8
  <2> HIDE DEF K
  <2>6. QED
    BY <2>5
<1>4. ASSUME NEW n \in Nat, n \in T
      PROVE  n + 1 \in T
  <2>1. SUFFICES ASSUME n + 1 <= num
                 PROVE  K(n + 1)
    OBVIOUS
  <2> DEFINE i == n + 1
             c == at[n]
             x == at[i]
  <2>2. i \in 1 .. num /\ i \in 1 .. len /\ i - 1 = n /\ i \in Nat
    BY <2>1
  <2>3. K(n)
    BY <1>4, <2>1
  <2>4. /\ c = [arr |-> c.arr, fill |-> c.fill]
        /\ c.arr \in [1 .. len -> S] /\ c.fill \in 1 .. i
        /\ \A j \in 1 .. num : j > n => c.arr[j] = holes[j]
        /\ \A k \in rest : k <= n => r(k) \in 1 .. r(n) /\ c.arr[r(k)] = holes[k]
        /\ (\E k \in rest : k > n) => c.fill = r(n) + 1
        /\ \A p \in 1 .. r(n) : \E k \in rest : k <= n /\ r(k) = p
    BY <2>3
  <2>5. x = CollapseStep(holes, c, i)
    BY <1>1, <2>2
  <2>6. r(n) \in 0 .. n /\ r(i) = (IF i \in chosen THEN r(n) ELSE r(n) + 1)
    BY <1>2
  <2>14. n = i - 1 /\ n \in Nat /\ i \in Nat
    OBVIOUS
  <2> HIDE DEF i, c, x, T, K
  <2>7. /\ x = [arr |-> x.arr, fill |-> x.fill]
        /\ x.arr \in [1 .. len -> S] /\ x.fill \in 1 .. i + 1
        /\ holes[i] = NoSlot =>
             /\ x.arr = c.arr
             /\ x.fill = IF i > 1 /\ holes[i - 1] = NoSlot THEN c.fill ELSE i
        /\ holes[i] # NoSlot =>
             /\ x.fill = c.fill + 1
             /\ \A j \in 1 .. len :
                  x.arr[j] = IF j = c.fill THEN c.arr[i] ELSE IF j = i THEN NoSlot ELSE c.arr[j]
    <3>1. /\ c = [arr |-> c.arr, fill |-> c.fill]
          /\ c.arr \in [1 .. len -> S] /\ c.fill \in 1 .. i
      BY <2>4
    <3>2. Stepped(x, c, holes, i, len, S)
      BY <2>2, <2>5, <3>1, CollapseStepFacts
    <3>3. QED
      BY <3>2 DEF Stepped
  <2>8. CASE i \in chosen
    <3>1. holes[i] = NoSlot /\ r(i) = r(n) /\ i \notin rest
      BY <2>2, <2>6, <2>8
    <3>2. x.arr = c.arr
      BY <2>7, <3>1
    <3>3. ASSUME NEW k \in rest
          PROVE  k <= i <=> k <= n
      BY <2>14, <3>1
    <3>4. \A j \in 1 .. num : j > i => x.arr[j] = holes[j]
      BY <2>4, <2>14, <3>2
    <3>5. \A k \in rest : k <= i => r(k) \in 1 .. r(i) /\ x.arr[r(k)] = holes[k]
      BY <2>4, <3>1, <3>2, <3>3
    <3>6. \A p \in 1 .. r(i) : \E k \in rest : k <= i /\ r(k) = p
      BY <2>4, <3>1, <3>3
    <3>7. ASSUME NEW k \in rest, k > i
          PROVE  x.fill = r(i) + 1
      <4>1. c.fill = r(n) + 1
        BY <2>4, <2>14, <3>7
      <4>2. CASE i > 1 /\ holes[i - 1] = NoSlot
        BY <2>7, <3>1, <4>1, <4>2
      <4>3. CASE i > 1 /\ holes[i - 1] # NoSlot
        <5>1. i - 1 \notin chosen /\ i - 1 \in 1 .. num
          BY <2>2, <4>3
        <5>2. ASSUME NEW j \in chosen
              PROVE  ~(j <= n)
          <6>1. SUFFICES ASSUME j <= n
                         PROVE  FALSE
            OBVIOUS
          <6>2. j < i /\ i < k /\ {j, i} \subseteq chosen /\ k \notin chosen
                /\ j \in 1 .. num /\ i \in 1 .. num /\ k \in 1 .. num
            BY <2>2, <2>8, <2>14, <3>7, <6>1
          <6>3. QED
            BY <5>1, <6>2 DEF LaterGap
        <5>3. {j \in chosen : j <= n} = {}
          BY <5>2
        <5>4. Cardinality({j \in chosen : j <= n}) = 0
          BY <5>3, FS_EmptySet
        <5>5. r(n) = n
          BY <2>14, <5>4 DEF r, LeftOf
        <5>6. x.fill = i
          BY <2>7, <3>1, <4>3
        <5>7. QED
          BY <2>14, <3>1, <5>5, <5>6
      <4>4. CASE ~(i > 1)
        <5>1. i = 1 /\ n = 0
          BY <2>2, <4>4
        <5>2. x.fill = i
          BY <2>7, <3>1, <4>4
        <5>3. QED
          BY <1>2, <3>1, <5>1, <5>2
      <4>5. QED
        BY <4>2, <4>3, <4>4
    <3>8. QED
      BY <2>7, <3>4, <3>5, <3>6, <3>7 DEF K, x, i
  <2>9. CASE i \notin chosen
    <3>1. holes[i] # NoSlot /\ r(i) = r(n) + 1 /\ i \in rest /\ i > n
      BY <2>2, <2>6, <2>9, <2>14
    <3>2. c.fill = r(i)
      BY <2>4, <3>1
    <3>3. r(i) \in 1 .. i
      BY <2>6, <2>14, <3>1
    <3>4. \A j \in 1 .. len :
             x.arr[j] = IF j = r(i) THEN c.arr[i] ELSE IF j = i THEN NoSlot ELSE c.arr[j]
      BY <2>7, <3>1, <3>2
    <3>5. c.arr[i] = holes[i]
      BY <2>2, <2>4, <3>1
    <3>6. ASSUME NEW j \in 1 .. num, j > i
          PROVE  x.arr[j] = holes[j]
      <4>1. j \in 1 .. len /\ j # r(i) /\ j # i /\ j > n
        BY <2>14, <3>3, <3>6
      <4>2. QED
        BY <2>4, <3>4, <4>1
    <3>7. ASSUME NEW k \in rest, k <= i
          PROVE  r(k) \in 1 .. r(i) /\ x.arr[r(k)] = holes[k]
      <4>1. CASE k = i
        <5>1. r(i) \in 1 .. len
          BY <2>2, <3>3
        <5>2. QED
          BY <3>3, <3>4, <3>5, <4>1, <5>1
      <4>2. CASE k # i
        <5>1. k <= n
          BY <2>14, <3>7, <4>2
        <5>2. r(k) \in 1 .. r(n) /\ c.arr[r(k)] = holes[k]
          BY <2>4, <5>1
        <5>3. r(k) # r(i) /\ r(k) # i /\ r(k) \in 1 .. len /\ r(k) \in 1 .. r(i)
          BY <2>2, <2>6, <2>14, <3>1, <3>3, <5>2
        <5>4. QED
          BY <3>4, <5>2, <5>3
      <4>3. QED
        BY <4>1, <4>2
    <3>8. ASSUME NEW p \in 1 .. r(i)
          PROVE  \E k \in rest : k <= i /\ r(k) = p
      <4>1. CASE p = r(i)
        BY <2>14, <3>1, <4>1
      <4>2. CASE p # r(i)
        <5>1. p \in 1 .. r(n)
          BY <2>6, <3>1, <4>2
        <5>2. PICK k \in rest : k <= n /\ r(k) = p
          BY <2>4, <5>1
        <5>3. k <= i
          BY <2>14, <5>2
        <5>4. QED
          BY <5>2, <5>3
      <4>3. QED
        BY <4>1, <4>2
    <3>9. x.fill = r(i) + 1
      BY <2>7, <3>1, <3>2
    <3>10. QED
      BY <2>7, <3>6, <3>7, <3>8, <3>9 DEF K, x, i
  <2>10. QED
    BY <2>8, <2>9 DEF i
<1>5. num \in T
  <2>1. Nat \subseteq T
    <3> HIDE DEF T
    <3>1. QED
      BY <1>3, <1>4, SetInduction
  <2>2. QED
    BY <2>1
<1>6. K(num)
  BY <1>5
<1>7. ASSUME NEW k \in rest
      PROVE  r(k) \in 1 .. r(num) /\ at[num].arr[r(k)] = holes[k]
  BY <1>6
<1>8. ASSUME NEW p \in 1 .. r(num)
      PROVE  \E k \in rest : p = r(k)
  BY <1>6
<1>9. QED
  BY <1>7, <1>8 DEF Collapse, at, r, Compacted

-----------------------------------------------------------------------------
(* What detach leaves                                                      *)

HolesOf(d, chosen) == [i \in DOMAIN d.arr |-> IF i \in chosen THEN NoSlot ELSE d.arr[i]]
OutOf(d, chosen) == {d.arr[i] : i \in chosen}
GoneFrom(m, secs) == UNION {{Member(m, s, k) : k \in m.sect[s].typ} : s \in secs}

IsDetached(x, m, chosen) ==
  LET d == m.data IN
  /\ Sound(x) /\ x.data # NoData
  /\ x.data.arr = Collapse(HolesOf(d, chosen), d.num)
  /\ x.data.num = d.num - Cardinality(chosen)
  /\ x.data.size = d.size /\ x.data.sizeTran = d.sizeTran
  /\ x.data.str = d.str /\ x.data.tran = d.tran
  /\ x.sizes = m.sizes /\ x.sums = m.sums
  /\ x.sectSums = m.sectSums \ GoneFrom(m, OutOf(d, chosen))
  /\ x.used = m.used \ OutOf(d, chosen)
  /\ x.sect = [s \in Slots |-> IF s \in OutOf(d, chosen) THEN WipedSect ELSE m.sect[s]]

LEMMA DetachedFacts ==
  ASSUME NEW m, Sound(m), m.data # NoData,
         NEW chosen, chosen \subseteq 1 .. m.data.num,
         \A i \in chosen : m.data.arr[i] # NoSlot
  PROVE  /\ IsDetached(Detached(m, chosen), m, chosen)
         /\ m.data.num \in Nat /\ Cardinality(chosen) \in 0 .. m.data.num
<1> DEFINE d == m.data
           out == OutOf(d, chosen)
           holes == HolesOf(d, chosen)
           bare == DelSections(m, out)
           len == d.num + d.free
           arr == Collapse(holes, d.num)
           c == Cardinality(chosen)
           e == [d EXCEPT !.arr = arr, !.num = d.num - c, !.free = d.free + c]
           x == Detached(m, chosen)
           S == Slots \cup {NoSlot}
<1>1. m \in Memory /\ d \in Datas /\ ArrayOK(m) /\ WipedOK(m) /\ m.used \subseteq Slots
  BY MemoryIsRecord DEF Sound
<1>2. d.num \in Nat /\ d.free \in Nat /\ d.arr \in Seq(S) /\ Len(d.arr) = len
  BY <1>1 DEF Datas, ArrayOK
<1>3. d.arr \in [1 .. len -> S] /\ DOMAIN d.arr = 1 .. len
  BY <1>2, LenProperties
<1>4. len \in Nat /\ d.num \in 0 .. len
  BY <1>2
<1>5. \A i \in 1 .. d.num : d.arr[i] \in m.used \cup {NoSlot}
  BY <1>1 DEF ArrayOK
<1>6. \A i, j \in 1 .. d.num : d.arr[i] = d.arr[j] /\ d.arr[i] # NoSlot => i = j
  BY <1>1 DEF ArrayOK
<1> HIDE DEF d
<1>7. chosen \subseteq 1 .. d.num /\ \A i \in chosen : d.arr[i] # NoSlot
  BY DEF d
<1>8. out \subseteq m.used
  BY <1>5, <1>7 DEF OutOf
<1>9. /\ holes \in [1 .. len -> S]
      /\ \A i \in 1 .. len : holes[i] = IF i \in chosen THEN NoSlot ELSE d.arr[i]
  <2>1. holes = [i \in 1 .. len |-> IF i \in chosen THEN NoSlot ELSE d.arr[i]]
    BY <1>3 DEF HolesOf
  <2> HIDE DEF holes, len
  <2>2. QED
    BY <1>3, <2>1
<1> HIDE DEF holes, len
<1>10. \A i \in 1 .. d.num : i \in 1 .. len
  BY <1>4
<1>11. Orderly(holes, holes, d.num)
  <2>1. ASSUME NEW i \in 1 .. d.num, NEW j \in 1 .. d.num, holes[i] = holes[j], holes[i] # NoSlot
        PROVE  i = j
    BY <1>6, <1>9, <1>10, <2>1
  <2>2. QED
    BY <2>1 DEF Orderly
<1>12. arr \in [1 .. len -> S] /\ Orderly(arr, holes, d.num)
  BY <1>4, <1>9, <1>11, CollapseKeeps
<1> HIDE DEF arr, S
<1>13. c \in 0 .. d.num
  BY <1>2, <1>7, LeftOfFacts
<1> HIDE DEF c
<1>14. /\ d.num - c \in Nat /\ d.free + c \in Nat /\ len = d.num - c + (d.free + c)
       /\ \A p \in 1 .. d.num - c : p \in 1 .. d.num
  BY <1>2, <1>13 DEF len
<1>15. arr \in Seq(S) /\ Len(arr) = len
  BY <1>4, <1>12, FunIsSeq
<1>16. /\ bare \in Memory
       /\ bare.sect = [s \in Slots |-> IF s \in out THEN WipedSect ELSE m.sect[s]]
       /\ bare.sectSums = m.sectSums \ GoneFrom(m, out)
       /\ bare.used = m.used \ out
       /\ bare.data = d /\ bare.sizes = m.sizes /\ bare.sums = m.sums
  <2>1. out \subseteq Slots
    BY <1>1, <1>8
  <2> HIDE DEF out
  <2>2. QED
    BY <1>1, <2>1, DelSectionsFacts DEF GoneFrom, d
<1>17. /\ e \in Datas /\ e.arr = arr /\ e.num = d.num - c /\ e.free = d.free + c
       /\ e.size = d.size /\ e.sizeTran = d.sizeTran /\ e.str = d.str /\ e.tran = d.tran
  BY <1>1, <1>14, <1>15 DEF Datas, S
<1>18. x = [bare EXCEPT !.data.arr = arr, !.data.num = d.num - c, !.data.free = d.free + c]
  BY DEF Detached, d, c, arr, holes, OutOf, HolesOf
<1> HIDE DEF bare
<1>19. x = [bare EXCEPT !.data = e]
  BY <1>1, <1>16, <1>18 DEF Memory
<1> HIDE DEF e, x
<1>20. /\ x \in Memory /\ x.data = e /\ x.sect = bare.sect /\ x.used = bare.used
       /\ x.sizes = bare.sizes /\ x.sums = bare.sums /\ x.sectSums = bare.sectSums
  BY <1>16, <1>17, <1>19 DEF Memory
<1>21. e # NoData
  BY <1>17, FileAssumption
<1>22. ASSUME NEW p \in 1 .. d.num - c, arr[p] # NoSlot
       PROVE  arr[p] \in m.used \ out
  <2>1. PICK t \in 1 .. d.num : arr[p] = holes[t]
    BY <1>12, <1>14, <1>22 DEF Orderly
  <2>2. t \notin chosen /\ arr[p] = d.arr[t]
    BY <1>9, <1>10, <1>22, <2>1
  <2>3. arr[p] \in m.used
    BY <1>5, <1>22, <2>2
  <2>4. ASSUME NEW i \in chosen, d.arr[i] = arr[p]
        PROVE  FALSE
    BY <1>6, <1>7, <1>22, <2>2, <2>4
  <2>5. QED
    BY <2>3, <2>4 DEF OutOf
<1>23. \A p, q \in 1 .. d.num - c : arr[p] = arr[q] /\ arr[p] # NoSlot => p = q
  BY <1>12, <1>14 DEF Orderly
<1>24. ArrayOK(x)
  <2> HIDE DEF out
  <2>1. \A p \in 1 .. e.num : e.arr[p] \in x.used \cup {NoSlot}
    BY <1>16, <1>17, <1>20, <1>22
  <2>2. Len(e.arr) = e.num + e.free
    BY <1>14, <1>15, <1>17
  <2>3. QED
    BY <1>17, <1>20, <1>23, <2>1, <2>2 DEF ArrayOK
<1>25. WipedOK(x)
  <2> HIDE DEF out
  <2>1. ASSUME NEW s \in Slots, s \notin x.used
        PROVE  x.sect[s] = WipedSect
    BY <1>1, <1>16, <1>20, <2>1 DEF WipedOK
  <2>2. QED
    BY <2>1 DEF WipedOK
<1>26. Sound(x)
  BY <1>20, <1>24, <1>25 DEF Sound
<1>27. IsDetached(x, m, chosen)
  BY <1>16, <1>17, <1>20, <1>21, <1>26 DEF IsDetached, d, c, arr, holes
<1>28. QED
  BY <1>2, <1>13, <1>27 DEF x, d, c

\* The others are moved forward to the start of the array.
ClosedUp(x, m, chosen) ==
  LET d == m.data
      rest == (1 .. d.num) \ chosen
      left == d.num - Cardinality(chosen)
  IN  /\ \A k \in rest : LeftOf(chosen, k) \in 1 .. left
                         /\ x.data.arr[LeftOf(chosen, k)] = d.arr[k]
      /\ \A p \in 1 .. left : \E k \in rest : p = LeftOf(chosen, k)
      /\ MineOf(x.data) = MineOf(d) \ OutOf(d, chosen)

LEMMA DetachedPlaces ==
  ASSUME NEW m, Sound(m), m.data # NoData, NoSlot \notin MineOf(m.data),
         NEW chosen, chosen \subseteq 1 .. m.data.num, ~LaterGap(chosen, m.data.num),
         NEW x, IsDetached(x, m, chosen)
  PROVE  ClosedUp(x, m, chosen)
<1> DEFINE d == m.data
           rest == (1 .. d.num) \ chosen
           left == d.num - Cardinality(chosen)
           holes == HolesOf(d, chosen)
           len == d.num + d.free
           S == Slots \cup {NoSlot}
           arr == Collapse(holes, d.num)
<1>1. m \in Memory /\ d \in Datas /\ ArrayOK(m)
  BY MemoryIsRecord DEF Sound
<1>2. d.num \in Nat /\ d.free \in Nat /\ d.arr \in Seq(S) /\ Len(d.arr) = len
  BY <1>1 DEF Datas, ArrayOK
<1>3. d.arr \in [1 .. len -> S] /\ DOMAIN d.arr = 1 .. len
  BY <1>2, LenProperties
<1>4. \A i, j \in 1 .. d.num : d.arr[i] = d.arr[j] /\ d.arr[i] # NoSlot => i = j
  BY <1>1 DEF ArrayOK
<1>5. x.data.arr = arr /\ x.data.num = left
  BY DEF IsDetached
<1>6. \A i \in 1 .. d.num : d.arr[i] # NoSlot
  BY DEF MineOf
<1> HIDE DEF d
<1>7. chosen \subseteq 1 .. d.num /\ ~LaterGap(chosen, d.num)
  BY DEF d
<1>8. len \in Nat /\ d.num \in 0 .. len /\ \A i \in 1 .. d.num : i \in 1 .. len
  BY <1>2
<1>9. /\ holes \in [1 .. len -> S]
      /\ \A i \in 1 .. len : holes[i] = IF i \in chosen THEN NoSlot ELSE d.arr[i]
  <2>1. holes = [i \in 1 .. len |-> IF i \in chosen THEN NoSlot ELSE d.arr[i]]
    BY <1>3 DEF HolesOf
  <2> HIDE DEF holes, len
  <2>2. QED
    BY <1>3, <2>1
<1> HIDE DEF holes, len
<1>10. \A i \in 1 .. d.num : holes[i] = NoSlot <=> i \in chosen
  BY <1>6, <1>8, <1>9
<1>11. LeftOf(chosen, d.num) = left
  BY <1>2, <1>7, LeftOfFacts
<1> HIDE DEF left
<1>12. /\ \A k \in rest : LeftOf(chosen, k) \in 1 .. left /\ arr[LeftOf(chosen, k)] = holes[k]
       /\ \A p \in 1 .. left : \E k \in rest : p = LeftOf(chosen, k)
  <2>1. NoSlot \in S
    OBVIOUS
  <2> HIDE DEF S
  <2>2. Compacted(arr, holes, d.num, chosen)
    BY <1>7, <1>8, <1>9, <1>10, <2>1, CollapseMoves
  <2> HIDE DEF arr
  <2>3. QED
    BY <1>11, <2>2 DEF Compacted
<1> HIDE DEF arr
<1>13. \A k \in rest : holes[k] = d.arr[k]
  BY <1>8, <1>9
<1>14. /\ \A k \in rest : LeftOf(chosen, k) \in 1 .. left /\ x.data.arr[LeftOf(chosen, k)] = d.arr[k]
       /\ \A p \in 1 .. left : \E k \in rest : p = LeftOf(chosen, k)
  BY <1>5, <1>12, <1>13
<1>15. MineOf(x.data) = MineOf(d) \ OutOf(d, chosen)
  <2>1. ASSUME NEW s \in MineOf(x.data)
        PROVE  s \in MineOf(d) \ OutOf(d, chosen)
    <3>1. PICK p \in 1 .. left : s = x.data.arr[p]
      BY <1>5, <2>1 DEF MineOf
    <3>2. PICK k \in rest : p = LeftOf(chosen, k)
      BY <1>14, <3>1
    <3>3. s = d.arr[k]
      BY <1>14, <3>1, <3>2
    <3>4. s \in MineOf(d)
      BY <3>3 DEF MineOf
    <3>5. ASSUME NEW i \in chosen, d.arr[i] = s
          PROVE  FALSE
      BY <1>4, <1>6, <1>7, <3>3, <3>5
    <3>6. QED
      BY <3>4, <3>5 DEF OutOf
  <2>2. ASSUME NEW s \in MineOf(d) \ OutOf(d, chosen)
        PROVE  s \in MineOf(x.data)
    <3>1. PICK k \in 1 .. d.num : s = d.arr[k]
      BY DEF MineOf
    <3>2. k \in rest
      BY <3>1 DEF OutOf
    <3>3. QED
      BY <1>5, <1>14, <3>1, <3>2 DEF MineOf
  <2>3. QED
    BY <2>1, <2>2
<1>16. QED
  BY <1>14, <1>15 DEF ClosedUp, left, d

\* Every section that is taken away has a type for each of its strings.
LEMMA GoneMembers ==
  ASSUME NEW m \in Memory, SectTracked(m), NEW secs, secs \subseteq MineOf(m.data),
         \A s \in secs : ~Untyped(m.sect[s])
  PROVE  \A n \in m.sectSums : n \in GoneFrom(m, secs) <=> n.slot \in secs
<1>1. ASSUME NEW n \in m.sectSums, n.slot \in secs
      PROVE  n \in GoneFrom(m, secs)
  <2>1. n = [kind |-> n.kind, str |-> n.str, slot |-> n.slot] /\ n.kind \in Kinds
    <3>1. n \in [kind : Kinds, str : Strs, slot : Slots]
      BY MemoryIsRecord
    <3>2. QED
      BY <3>1
  <2>2. n.str = m.sect[n.slot].tran[n.kind] /\ n.str # NoStr
    BY DEF SectTracked, MemberExact
  <2>3. n = Member(m, n.slot, n.kind)
    BY <2>1, <2>2 DEF Member
  <2>4. n.kind \in m.sect[n.slot].typ
    BY <1>1, <2>1, <2>2 DEF Untyped
  <2>5. QED
    BY <1>1, <2>3, <2>4 DEF GoneFrom
<1>2. ASSUME NEW n \in GoneFrom(m, secs)
      PROVE  n.slot \in secs
  <2>1. PICK s \in secs : \E k \in m.sect[s].typ : n = Member(m, s, k)
    BY DEF GoneFrom
  <2>2. QED
    BY <2>1 DEF Member
<1>3. QED
  BY <1>1, <1>2

LEMMA DetachedTracked ==
  ASSUME NEW m, Sound(m), m.data # NoData, Tracked(m),
         NEW chosen, chosen \subseteq 1 .. m.data.num, ~LaterGap(chosen, m.data.num),
         \A i \in chosen : ~Untyped(m.sect[m.data.arr[i]]),
         NEW x, IsDetached(x, m, chosen)
  PROVE  Tracked(x)
<1> DEFINE d == m.data
           out == OutOf(d, chosen)
<1>1. FileTracked(m) /\ SectTracked(m) /\ m \in Memory
  BY DEF Tracked, Sound
<1>2. MineOf(x.data) = MineOf(d) \ out
  <2>1. ClosedUp(x, m, chosen)
    BY <1>1, DetachedPlaces DEF SectTracked
  <2>2. QED
    BY <2>1 DEF ClosedUp
<1>3. out \subseteq MineOf(d) /\ \A s \in out : ~Untyped(m.sect[s])
  BY DEF OutOf, MineOf
<1>4. \A n \in m.sectSums : n \in GoneFrom(m, out) <=> n.slot \in out
  <2> HIDE DEF out
  <2>1. QED
    BY <1>1, <1>3, GoneMembers
<1>5. /\ x.data # NoData
      /\ x.data.size = d.size /\ x.data.sizeTran = d.sizeTran
      /\ x.data.str = d.str /\ x.data.tran = d.tran
      /\ x.sizes = m.sizes /\ x.sums = m.sums
      /\ x.sectSums = m.sectSums \ GoneFrom(m, out)
      /\ x.sect = [s \in Slots |-> IF s \in out THEN WipedSect ELSE m.sect[s]]
  BY DEF IsDetached
<1> HIDE DEF out
<1>6. FileTracked(x)
  BY <1>1, <1>5 DEF FileTracked, StrNodes
<1>7. \A n \in x.sectSums : n \in m.sectSums /\ n.slot \notin out /\ n.slot \in Slots
  BY <1>1, <1>4, <1>5, MemoryIsRecord
<1>8. ASSUME NEW n \in x.sectSums
      PROVE  MemberExact(x, n)
  <2>1. MemberExact(m, n) /\ x.sect[n.slot] = m.sect[n.slot]
    BY <1>1, <1>5, <1>7 DEF SectTracked
  <2>2. QED
    BY <1>2, <1>7, <2>1 DEF MemberExact
<1>9. ASSUME NEW s \in MineOf(x.data), NEW k \in x.sect[s].typ
      PROVE  [kind |-> k, str |-> x.sect[s].str[k], slot |-> s] \in x.sectSums
  <2> DEFINE n == [kind |-> k, str |-> m.sect[s].str[k], slot |-> s]
  <2>1. s \in MineOf(d) /\ s \notin out
    BY <1>2
  <2>2. s \in Slots
    <3>1. d \in Datas /\ Len(d.arr) = d.num + d.free
      BY <1>1, MemoryIsRecord DEF ArrayOK, Sound
    <3>2. s # NoSlot
      BY <1>1, <2>1 DEF SectTracked
    <3>3. QED
      BY <2>1, <3>1, <3>2, MineIsRange
  <2>3. x.sect[s] = m.sect[s]
    BY <1>5, <2>1, <2>2
  <2>4. n \in m.sectSums
    BY <1>1, <1>9, <2>1, <2>3 DEF SectTracked
  <2>5. n.slot = s
    OBVIOUS
  <2> HIDE DEF n
  <2>6. n \notin GoneFrom(m, out)
    BY <1>4, <2>1, <2>4, <2>5
  <2>7. n \in x.sectSums
    BY <1>5, <2>4, <2>6
  <2>8. QED
    BY <2>3, <2>7 DEF n
<1>10. NoSlot \notin MineOf(x.data)
  BY <1>1, <1>2 DEF SectTracked
<1>11. QED
  BY <1>5, <1>6, <1>8, <1>9, <1>10 DEF Tracked, SectTracked

-----------------------------------------------------------------------------
(* The inductive invariant                                                 *)

IInv ==
  /\ Sound(db)
  /\ outcome \in {"ok", "fail", "crash", "undefined"} /\ stale \in BOOLEAN
  /\ FingerprintExact
  /\ ~stale => Tracked(db)

LEMMA VerifyType ==
  ASSUME NEW m
  PROVE  VerifyResult(m) \in {"ok", "fail", "crash", "undefined"}
BY DEF VerifyResult

\* Where the program goes wrong the memory is left as it is.
LEMMA UndefinedKeeps ==
  ASSUME IInv, NEW result \in {"crash", "undefined"}, Undefined(result)
  PROVE  IInv'
<1>1. db' = db /\ made' = made /\ outcome' = result /\ stale' = stale
  BY DEF Undefined, Ends
<1>2. FingerprintExact'
  BY <1>1, FingerprintBy, FingerprintNext DEF IInv
<1>3. QED
  BY <1>1, <1>2 DEF IInv

\* Commands other than fp on a whole file.
LEMMA EndsKeeps ==
  ASSUME NEW m, Sound(m), NEW how, how.how # "fp",
         NEW result \in {"ok", "fail", "crash", "undefined"},
         Ends(m, how, result), stale' \in BOOLEAN, ~stale' => Tracked(m)
  PROVE  IInv'
<1>1. db' = m /\ made' = how /\ outcome' = result
  BY DEF Ends
<1>2. FingerprintExact'
  BY <1>1 DEF FingerprintExact
<1>3. QED
  BY <1>1, <1>2 DEF IInv

-----------------------------------------------------------------------------
(* fp                                                                      *)

\* Sections, then the size and the checksums of the file.
LEMMA FilledWithFile ==
  ASSUME NEW m, Sound(m), m.data = NoData, NEW n \in Nat, NEW c \in 0 .. n, NEW sections,
         \A i \in 0 .. n - 1 :
           /\ sections[i].tran = sections[i].str
           /\ \A k \in sections[i].typ : sections[i].str[k] # NoStr,
         NEW w, IsFilled(w, m, n, c, sections),
         NEW f \in Flags, NEW size \in Nat, NEW str \in Nat \X Nat, NEW extr \in Seq(Extracts)
  PROVE  /\ Sound(WithFile(w, f, size, str, extr))
         /\ Tracked(m) /\ (\A i \in 0 .. n - 1 : sections[i].typ # {} => i < c)
              => Tracked(WithFile(w, f, size, str, extr))
<1>1. Sound(w) /\ w.data # NoData /\ ~w.data.sizeTran /\ w.data.str = NoSums
  BY DEF IsFilled
<1>2. str \in Strs
  BY PairIsStr
<1>3. Sound(WithFile(w, f, size, str, extr))
  BY <1>1, <1>2, WithFileFacts
<1>4. ASSUME Tracked(m), \A i \in 0 .. n - 1 : sections[i].typ # {} => i < c
      PROVE  Tracked(WithFile(w, f, size, str, extr))
  <2>1. AllEmpty(m)
    BY <1>4 DEF Tracked
  <2>2. FileTracked(w) /\ SectTracked(w)
    BY <1>4, <2>1, FilledTracked
  <2>3. w.data.sizeTran \in BOOLEAN
    <3>1. w.data \in Datas
      BY <1>1, MemoryIsRecord DEF Sound
    <3>2. QED
      BY <3>1 DEF Datas
  <2>4. QED
    BY <1>1, <2>2, <2>3, WithFileTracked
<1>5. QED
  BY <1>3, <1>4

LEMMA MaySplit ==
  ASSUME NEW size \in Sizes, MayFingerprint(size)
  PROVE  Splits(size) /\ db.data = NoData
BY FileAssumption DEF MayFingerprint, Splits

LEMMA FpWholeKeeps == IInv /\ FpWhole => IInv'
<1>1. SUFFICES ASSUME IInv, FpWhole PROVE IInv'
  OBVIOUS
<1>2. PICK size \in Sizes, f \in Flags :
        /\ MayFingerprint(size)
        /\ Cardinality(Slots \ db.used) >= SectNum(size)
        /\ \/ Undefined("undefined") \/ Undefined("crash")
           \/ \E kept \in 0..PlannedInAll(size, f) :
                LET sections == [i \in 0..(SectNum(size) - 1) |-> ReadSection(size, f, i, kept)]
                    read == SectNum(size) * ReadLen(size, 0) - ReadLen(size, 0) + ReadLen(size, SectNum(size) - 1)
                    extr == SubSeq(Samples(0, size), 1, Kept(size, f, -1, kept))
                    m == WithFile(WithSections(db, size, sections), f, size, <<0, read>>, extr)
                IN  Ends(m, [how |-> "fp", size |-> size], VerifyResult(m)) /\ UNCHANGED stale
  BY <1>1 DEF FpWhole
<1>3. CASE Undefined("undefined") \/ Undefined("crash")
  BY <1>1, <1>3, UndefinedKeeps
<1>4. ASSUME NEW kept \in 0..PlannedInAll(size, f),
             LET sections == [i \in 0..(SectNum(size) - 1) |-> ReadSection(size, f, i, kept)]
                 read == SectNum(size) * ReadLen(size, 0) - ReadLen(size, 0) + ReadLen(size, SectNum(size) - 1)
                 extr == SubSeq(Samples(0, size), 1, Kept(size, f, -1, kept))
                 m == WithFile(WithSections(db, size, sections), f, size, <<0, read>>, extr)
             IN  Ends(m, [how |-> "fp", size |-> size], VerifyResult(m)) /\ UNCHANGED stale
      PROVE  IInv'
  <2> DEFINE n == SectNum(size)
             sections == [i \in 0 .. (n - 1) |-> ReadSection(size, f, i, kept)]
             read == n * ReadLen(size, 0) - ReadLen(size, 0) + ReadLen(size, n - 1)
             extr == SubSeq(Samples(0, size), 1, Kept(size, f, -1, kept))
             str == <<0, read>>
             w == WithSections(db, size, sections)
             m == WithFile(w, f, size, str, extr)
  <2>1. Splits(size) /\ db.data = NoData /\ Sound(db)
    BY <1>1, <1>2, MaySplit DEF IInv
  <2>2. kept \in Nat
    BY <2>1, PlannedInAllType
  <2>3. n \in Nat \ {0} /\ size \in Nat \ {0}
    BY <2>1, NumberFits DEF Splits
  <2>4. /\ db' = m /\ made' = [how |-> "fp", size |-> size]
        /\ outcome' = VerifyResult(m) /\ stale' = stale
    BY <1>4 DEF Ends
  <2>5. \A i \in 0 .. n - 1 :
          /\ sections[i] = ReadSection(size, f, i, kept)
          /\ sections[i] \in Sections
          /\ sections[i].tran = sections[i].str
          /\ \A k \in sections[i].typ : sections[i].str[k] # NoStr
    <3>1. ASSUME NEW i \in 0 .. n - 1
          PROVE  /\ sections[i] = ReadSection(size, f, i, kept)
                 /\ sections[i] \in Sections
                 /\ sections[i].tran = sections[i].str
                 /\ \A k \in sections[i].typ : sections[i].str[k] # NoStr
      <4>1. sections[i] = ReadSection(size, f, i, kept)
        OBVIOUS
      <4> HIDE DEF sections
      <4>2. QED
        BY <2>1, <2>2, <4>1, ReadSectionFacts
    <3>2. QED
      BY <3>1
  <2>6. sections \in [0 .. n - 1 -> Sections]
    BY <2>5
  <2>7. extr \in Seq(Extracts)
    <3>1. Kept(size, f, -1, kept) \in 0 .. Sampling(size).num
      BY <2>1, <2>2, KeptFacts
    <3>2. QED
      BY <2>3, <3>1, SamplesFacts
  <2>8. read \in Nat
    <3>1. ASSUME NEW i \in 0 .. n - 1
          PROVE  ReadLen(size, i) \in Nat
      <4>1. SectSize(size, i) \in Nat
        BY <2>1, SectSizeFacts
      <4>2. ToInt(SectSize(size, i)) \in Int
        BY <4>1, ToIntFacts
      <4>3. QED
        BY <4>2 DEF ReadLen
    <3>2. ReadLen(size, 0) \in Nat /\ ReadLen(size, n - 1) \in Nat
      BY <2>3, <3>1
    <3> HIDE DEF n
    <3>3. n * ReadLen(size, 0) - ReadLen(size, 0) = (n - 1) * ReadLen(size, 0)
          /\ (n - 1) * ReadLen(size, 0) \in Nat
      BY <2>3, <3>2
    <3>4. QED
      BY <3>2, <3>3
  <2> HIDE DEF sections
  <2>9. IsFilled(w, db, n, n, sections)
    BY <1>2, <2>1, <2>6, WithSectionsFacts
  <2>10. str \in Nat \X Nat
    BY <2>8
  <2> HIDE DEF w, read, extr, n
  <2>11. Sound(w) /\ w.data # NoData /\ w.data.num = n
         /\ \A i \in 1 .. n : w.sect[w.data.arr[i]] = sections[i - 1]
    BY <2>9 DEF IsFilled
  <2>12. Sound(m) /\ (Tracked(db) => Tracked(m))
    <3>1. n \in Nat /\ n \in 0 .. n /\ \A i \in 0 .. n - 1 : i < n
      BY <2>3
    <3> HIDE DEF str
    <3>2. \A i \in 0 .. n - 1 :
            /\ sections[i].tran = sections[i].str
            /\ \A k \in sections[i].typ : sections[i].str[k] # NoStr
      BY <2>5
    <3>3. /\ Sound(m)
          /\ Tracked(db) /\ (\A i \in 0 .. n - 1 : sections[i].typ # {} => i < n) => Tracked(m)
      BY <2>1, <2>3, <2>7, <2>9, <2>10, <3>1, <3>2, FilledWithFile
    <3> HIDE DEF m
    <3>4. QED
      BY <3>1, <3>3
  <2>13. /\ SameArray(m.data, w.data) /\ m.sect = w.sect
         /\ m.data.typ = f.sums /\ m.data.extr = extr /\ m.data.str = Sums(f.sums, str)
    <3>1. str \in Strs
      BY <2>10, PairIsStr
    <3>2. QED
      BY <2>3, <2>7, <2>11, <3>1, WithFileFacts
  <2> HIDE DEF m
  <2>14. ASSUME ~Overflows(size)
         PROVE  ExactData(m, size)
    <3>1. \A i \in 1 .. n : m.sect[m.data.arr[i]] = ReadSection(size, f, i - 1, kept)
      <4>1. ASSUME NEW i \in 1 .. n
            PROVE  i - 1 \in 0 .. n - 1
        BY <2>3
      <4>2. QED
        BY <2>5, <2>11, <2>13, <4>1 DEF SameArray
    <3>2. m.data.num = n
      BY <2>11, <2>13 DEF SameArray
    <3>3. QED
      BY <2>1, <2>2, <2>13, <2>14, <3>1, <3>2, WholeExact DEF n, read, extr, str
  <2>15. FingerprintExact'
    <3>1. made'.size = size /\ db' = m
      BY <2>4
    <3>2. ~Overflows(made'.size) => ExactData(db', made'.size)
      BY <2>14, <3>1
    <3>3. QED
      BY <3>2, FingerprintNext
  <2>16. QED
    BY <1>1, <2>4, <2>12, <2>15, VerifyType DEF IInv
<1>5. QED
  BY <1>2, <1>3, <1>4

\* A file that ends early in section i, after had bytes.
LEMMA CutKeeps ==
  ASSUME IInv, db.data = NoData, NEW size, Splits(size), NEW f \in Flags,
         Cardinality(Slots \ db.used) >= SectNum(size),
         NEW had \in Nat, NEW i \in 0 .. SectNum(size) - 1,
         \A j \in 0 .. SectNum(size) - 1 : SectStart(size, j) <= had => j <= i,
         NEW len \in Nat, NEW str \in Nat \X Nat, NEW how, how.how = "cut",
         EndsCut(WithFile(CutData(db, size, f, had, i), f, len, str, <<>>), f, size, i, str, how)
  PROVE  IInv'
<1> DEFINE n == SectNum(size)
           c == IF n = 1 THEN 1 ELSE n - (i + 1)
           sections == [j \in 0 .. n - 1 |-> CutSection(size, f, j, had)]
           w == CutData(db, size, f, had, i)
           m == WithFile(w, f, len, str, <<>>)
<1>1. CASE Undefined("crash")
  BY <1>1, UndefinedKeeps
<1>2. CASE /\ Ends(m, how, VerifyResult(m))
           /\ stale' = (stale \/ (f.sectSums # {} /\ CutLoses(size, i)))
  <2>1. Sound(db) /\ stale \in BOOLEAN /\ (~stale => Tracked(db))
    BY DEF IInv
  <2>2. n \in Nat \ {0} /\ i \in 0 .. n - 1
    BY NumberFits
  <2>3. c \in 0 .. n
    BY <2>2
  <2>4. ASSUME NEW j \in 0 .. n - 1
        PROVE  /\ sections[j].tran = sections[j].str
               /\ \A k \in sections[j].typ : sections[j].str[k] # NoStr
               /\ sections[j].typ = {} \/ (sections[j].typ = f.sectSums /\ j <= i)
    <3>1. sections[j] = CutSection(size, f, j, had)
      OBVIOUS
    <3> HIDE DEF sections
    <3>2. QED
      BY <3>1, CutSectionFacts
  <2>5. IsFilled(w, db, n, c, sections)
    BY <2>1, CutDataFacts
  <2>6. <<>> \in Seq(Extracts)
    BY EmptySeq
  <2>7. CutLoses(size, i) <=> n > 1 /\ 2 * (i + 1) > n
    BY DEF CutLoses
  <2> HIDE DEF sections, w, n
  <2>8. /\ Sound(m)
        /\ Tracked(db) /\ (\A j \in 0 .. n - 1 : sections[j].typ # {} => j < c) => Tracked(m)
    <3>1. \A j \in 0 .. n - 1 :
            /\ sections[j].tran = sections[j].str
            /\ \A k \in sections[j].typ : sections[j].str[k] # NoStr
      BY <2>4
    <3>2. n \in Nat
      BY <2>2
    <3> HIDE DEF c
    <3>3. QED
      BY <2>1, <2>3, <2>5, <2>6, <3>1, <3>2, FilledWithFile
  <2>9. ASSUME ~stale'
        PROVE  Tracked(m)
    <3>1. Tracked(db) /\ (f.sectSums = {} \/ ~CutLoses(size, i))
      BY <1>2, <2>1, <2>9
    <3>2. ASSUME NEW j \in 0 .. n - 1, sections[j].typ # {}
          PROVE  j < c
      <4>1. j <= i /\ ~CutLoses(size, i)
        BY <2>4, <3>1, <3>2
      <4>2. QED
        BY <2>2, <2>7, <4>1
    <3>3. QED
      BY <2>8, <3>1, <3>2
  <2> HIDE DEF m
  <2>10. stale' \in BOOLEAN
    BY <1>2, <2>1
  <2>11. how.how # "fp"
    OBVIOUS
  <2>12. QED
    BY <1>2, <2>8, <2>9, <2>10, <2>11, VerifyType, EndsKeeps
<1>3. QED
  BY <1>1, <1>2 DEF EndsCut

LEMMA FpCutKeeps == IInv /\ FpCut => IInv'
<1>1. SUFFICES ASSUME IInv, FpCut PROVE IInv'
  OBVIOUS
<1>0. PICK size \in Sizes, f \in Flags :
        /\ MayFingerprint(size)
        /\ Cardinality(Slots \ db.used) >= SectNum(size)
        /\ \E had \in 0..(size - 1) :
             LET i == had \div NormSize(size)
             IN  EndsCut(WithFile(CutData(db, size, f, had, i), f, had, <<0, had>>, <<>>),
                         f, size, i, <<0, had>>, [how |-> "cut", size |-> had])
  BY <1>1 DEF FpCut
<1>2. PICK had \in 0..(size - 1) :
        EndsCut(WithFile(CutData(db, size, f, had, had \div NormSize(size)), f, had, <<0, had>>, <<>>),
                f, size, had \div NormSize(size), <<0, had>>, [how |-> "cut", size |-> had])
  BY <1>0
<1> DEFINE q == NormSize(size)
           i == had \div q
           how == [how |-> "cut", size |-> had]
<1>3. Splits(size) /\ db.data = NoData /\ size \in Nat
  BY <1>0, MaySplit DEF Splits
<1>4. had \in Nat /\ <<0, had>> \in Nat \X Nat
  BY <1>3
<1>5. i \in 0 .. SectNum(size) - 1
  BY <1>3, OneSection
<1>6. \A j \in 0 .. SectNum(size) - 1 : SectStart(size, j) <= had => j <= i
  <2>1. SUFFICES ASSUME NEW j \in 0 .. SectNum(size) - 1, SectStart(size, j) <= had, ~(j <= i)
                 PROVE  FALSE
    OBVIOUS
  <2>2. q \in Nat \ {0} /\ SectNum(size) \in Nat /\ SectStart(size, j) = j * q
    BY <1>3, SectSizeFacts
  <2>3. i \in Nat /\ had < q * i + q
    <3> HIDE DEF q
    <3>1. QED
      BY <1>4, <2>2, QuotientBound
  <2> HIDE DEF q, i
  <2>4. j \in Nat /\ j >= i + 1
    BY <2>1, <2>2, <2>3
  <2>5. (i + 1) * q <= j * q
    BY <2>2, <2>3, <2>4
  <2>6. (i + 1) * q = q * i + q /\ (i + 1) * q \in Nat /\ j * q \in Nat
    BY <2>2, <2>3, <2>4
  <2>7. QED
    BY <1>4, <2>1, <2>2, <2>3, <2>5, <2>6
<1>7. how.how = "cut"
  OBVIOUS
<1> HIDE DEF i, how
<1>8. EndsCut(WithFile(CutData(db, size, f, had, i), f, had, <<0, had>>, <<>>),
              f, size, i, <<0, had>>, how)
  BY <1>2 DEF i, how
<1>9. QED
  BY <1>1, <1>0, <1>3, <1>4, <1>5, <1>6, <1>7, <1>8, CutKeeps

LEMMA FpOverflowKeeps == IInv /\ FpOverflow => IInv'
<1>1. SUFFICES ASSUME IInv, FpOverflow PROVE IInv'
  OBVIOUS
<1>2. PICK size \in Sizes, f \in Flags :
        /\ MayFingerprint(size)
        /\ Cardinality(Slots \ db.used) >= SectNum(size)
        /\ LET wrong == NormSize(size) - ToInt(NormSize(size))
           IN  EndsCut(WithFile(CutData(db, size, f, 0, 0), f, wrong, <<0, 0>>, <<>>),
                       f, size, 0, <<0, 0>>, [how |-> "cut", size |-> wrong])
  BY <1>1 DEF FpOverflow
<1> DEFINE q == NormSize(size)
           wrong == q - ToInt(q)
           how == [how |-> "cut", size |-> wrong]
<1>3. Splits(size) /\ db.data = NoData
  BY <1>2, MaySplit
<1>4. q \in Nat \ {0} /\ SectNum(size) \in Nat \ {0}
  BY <1>3, LastIsTheRest, NumberFits
<1>5. wrong \in Nat
  <2> HIDE DEF q
  <2>1. ToInt(q) \in Int /\ ToInt(q) <= q
    BY <1>4, ToIntFacts
  <2>2. QED
    BY <1>4, <2>1
<1>6. 0 \in 0 .. SectNum(size) - 1 /\ 0 \in Nat /\ <<0, 0>> \in Nat \X Nat
  BY <1>4
<1>7. \A j \in 0 .. SectNum(size) - 1 : SectStart(size, j) <= 0 => j <= 0
  <2>1. SUFFICES ASSUME NEW j \in 0 .. SectNum(size) - 1, SectStart(size, j) <= 0, ~(j <= 0)
                 PROVE  FALSE
    OBVIOUS
  <2>2. SectStart(size, j) = j * q
    BY DEF SectStart
  <2> HIDE DEF q
  <2>3. j \in Nat \ {0} /\ j * q > 0
    BY <1>4, <2>1
  <2>4. j * q \in Int
    BY <1>4, <2>3
  <2>5. QED
    BY <2>1, <2>2, <2>3, <2>4
<1>8. how.how = "cut"
  OBVIOUS
<1>9. EndsCut(WithFile(CutData(db, size, f, 0, 0), f, wrong, <<0, 0>>, <<>>),
              f, size, 0, <<0, 0>>, how)
  BY <1>2
<1> HIDE DEF wrong, how
<1>10. QED
  BY <1>1, <1>2, <1>3, <1>5, <1>6, <1>7, <1>8, <1>9, CutKeeps

\* Wiped file data: no string is set, no section counts.
LEMMA WipedTracked ==
  ASSUME NEW m, AllEmpty(m)
  PROVE  LET x == [m EXCEPT !.data = WipedData]
         IN  Sound(m) => FileTracked(x) /\ SectTracked(x) /\ Tracked(x)
<1> DEFINE x == [m EXCEPT !.data = WipedData]
<1>1. SUFFICES ASSUME Sound(m)
               PROVE  FileTracked(x) /\ SectTracked(x) /\ Tracked(x)
  OBVIOUS
<1>2. /\ x.data = WipedData /\ x.data # NoData /\ x.sizes = {} /\ x.sums = {} /\ x.sectSums = {}
  BY <1>1, WipedFacts DEF AllEmpty
<1> HIDE DEF x
<1>3. StrNodes(WipedData) = {}
  BY DEF StrNodes, WipedData, NoSums
<1>4. MineOf(WipedData) = {}
  BY DEF MineOf, WipedData
<1>5. FileTracked(x)
  <2>1. WipedData.sizeTran = FALSE /\ WipedData.tran = WipedData.str
    BY DEF WipedData
  <2>2. QED
    BY <1>2, <1>3, <2>1 DEF FileTracked
<1>6. SectTracked(x)
  BY <1>2, <1>4 DEF SectTracked
<1>7. QED
  BY <1>2, <1>5, <1>6 DEF Tracked, x

LEMMA FpBareKeeps == IInv /\ FpBare => IInv'
<1>1. SUFFICES ASSUME IInv, FpBare PROVE IInv'
  OBVIOUS
<1>2. PICK size \in Sizes, f \in Flags :
        /\ MayFingerprint(size)
        /\ \/ Undefined("crash")
           \/ \E read \in 0..size :
                LET extr == SubSeq(Samples(0, size), 1, Planned(size, f, -1))
                    m == WithFile([db EXCEPT !.data = WipedData], f, size, <<0, read>>, extr)
                IN  Ends(m, [how |-> "bare", size |-> size], VerifyResult(m)) /\ UNCHANGED stale
  BY <1>1 DEF FpBare
<1>3. CASE Undefined("crash")
  BY <1>1, <1>3, UndefinedKeeps
<1>4. ASSUME NEW read \in 0..size,
             LET extr == SubSeq(Samples(0, size), 1, Planned(size, f, -1))
                 m == WithFile([db EXCEPT !.data = WipedData], f, size, <<0, read>>, extr)
             IN  Ends(m, [how |-> "bare", size |-> size], VerifyResult(m)) /\ UNCHANGED stale
      PROVE  IInv'
  <2> DEFINE w == [db EXCEPT !.data = WipedData]
             str == <<0, read>>
             extr == SubSeq(Samples(0, size), 1, Planned(size, f, -1))
             m == WithFile(w, f, size, str, extr)
             how == [how |-> "bare", size |-> size]
  <2>1. Splits(size) /\ db.data = NoData /\ size \in Nat \ {0}
    BY <1>2, MaySplit DEF Splits
  <2>2. str \in Nat \X Nat /\ str \in Strs
    <3>1. read \in Nat
      BY <2>1
    <3>2. QED
      BY <3>1, PairIsStr
  <2>3. extr \in Seq(Extracts)
    <3>1. Sampling(size).num \in Nat
      BY <2>1, SamplesApart
    <3>2. Planned(size, f, -1) \in 0 .. Sampling(size).num
      BY <3>1 DEF Planned
    <3>3. QED
      BY <2>1, <3>2, SamplesFacts
  <2>4. Sound(db) /\ stale \in BOOLEAN /\ (~stale => AllEmpty(db))
    BY <1>1, <2>1 DEF IInv, Tracked
  <2>5. Sound(w) /\ w.data # NoData /\ w.data = WipedData
    BY <2>4, WipedFacts
  <2>6. w.data.str = NoSums /\ ~w.data.sizeTran /\ w.data.sizeTran \in BOOLEAN
    <3>1. WipedData.str = NoSums /\ WipedData.sizeTran = FALSE
      BY DEF WipedData
    <3> HIDE DEF w
    <3>2. QED
      BY <2>5, <3>1
  <2>7. ~stale => FileTracked(w) /\ SectTracked(w)
    BY <2>4, WipedTracked
  <2>8. Ends(m, how, VerifyResult(m)) /\ stale' = stale /\ how.how # "fp"
    BY <1>4
  <2> HIDE DEF w, str, extr, how
  <2>9. size \in Nat
    BY <2>1
  <2>10. Sound(m)
    BY <2>2, <2>3, <2>5, <2>9, WithFileFacts
  <2>11. ~stale => Tracked(m)
    BY <2>2, <2>3, <2>5, <2>6, <2>7, <2>9, WithFileTracked
  <2> HIDE DEF m
  <2>12. QED
    BY <2>4, <2>8, <2>10, <2>11, VerifyType, EndsKeeps
<1>5. QED
  BY <1>2, <1>3, <1>4

\* New sections are wiped: no type is set.
LEMMA PutTracked ==
  ASSUME NEW m, Sound(m), m.data # NoData, FileTracked(m), SectTracked(m), NEW n \in Nat
  PROVE  Tracked(PutSections(m, n))
<1> DEFINE x == PutSections(m, n)
           d == m.data
           new == FreshSlots(m, n)
           k == RoomFor(m, n)
           e == [d EXCEPT !.array = TRUE, !.arr = GrownBy(d, new, k, n),
                          !.num = d.num + k, !.free = d.free + n - k]
<1>1. /\ Sound(x) /\ x.data # NoData
      /\ x.data = e
      /\ x.sect = m.sect /\ x.sizes = m.sizes
      /\ x.sums = m.sums /\ x.sectSums = m.sectSums
  BY PutSectionsFacts
<1>2. k \in 0 .. n /\ new \in [1 .. k -> Slots \ m.used]
  BY FreshSlotsFacts
<1>3. d \in Datas
  BY MemoryIsRecord DEF Sound
<1> HIDE DEF x, new, k
<1>4. /\ e.arr = GrownBy(d, new, k, n) /\ e.num = d.num + k
      /\ e.size = d.size /\ e.sizeTran = d.sizeTran /\ e.str = d.str /\ e.tran = d.tran
      /\ d.num \in Nat /\ d.free \in Nat
  BY <1>3 DEF Datas
<1> HIDE DEF e
<1>5. MineOf(e) = MineOf(d) \cup {new[i] : i \in 1 .. k}
  <2>1. ASSUME NEW i \in 1 .. e.num
        PROVE  e.arr[i] = IF i <= d.num THEN d.arr[i] ELSE new[i - d.num]
    <3>1. i \in 1 .. (d.num + d.free + n) /\ i <= d.num + k
      BY <1>2, <1>4
    <3>2. QED
      BY <1>4, <3>1 DEF GrownBy
  <2>2. ASSUME NEW i \in 1 .. e.num
        PROVE  e.arr[i] \in MineOf(d) \cup {new[j] : j \in 1 .. k}
    <3>1. CASE i <= d.num
      <4>1. i \in 1 .. d.num
        BY <1>4, <3>1
      <4>2. QED
        BY <2>1, <3>1, <4>1 DEF MineOf
    <3>2. CASE ~(i <= d.num)
      <4>1. i - d.num \in 1 .. k
        BY <1>2, <1>4, <3>2
      <4>2. QED
        BY <2>1, <3>2, <4>1
    <3>3. QED
      BY <3>1, <3>2
  <2>3. ASSUME NEW i \in 1 .. d.num
        PROVE  d.arr[i] \in MineOf(e)
    <3>1. i \in 1 .. e.num /\ i <= d.num
      BY <1>2, <1>4
    <3>2. QED
      BY <2>1, <3>1 DEF MineOf
  <2>4. ASSUME NEW j \in 1 .. k
        PROVE  new[j] \in MineOf(e)
    <3> DEFINE i == j + d.num
    <3>1. i \in 1 .. e.num /\ ~(i <= d.num) /\ i - d.num = j
      BY <1>2, <1>4
    <3> HIDE DEF i
    <3>2. e.arr[i] = new[j]
      BY <2>1, <3>1
    <3>3. QED
      BY <3>1, <3>2 DEF MineOf
  <2>5. MineOf(e) \subseteq MineOf(d) \cup {new[i] : i \in 1 .. k}
    BY <2>2 DEF MineOf
  <2>6. MineOf(d) \subseteq MineOf(e)
    BY <2>3 DEF MineOf
  <2>7. QED
    BY <2>4, <2>5, <2>6
<1>6. FileTracked(x)
  BY <1>1, <1>4 DEF FileTracked, StrNodes
<1>7. \A i \in 1 .. k : new[i] \in Slots \ m.used
  BY <1>2
<1>8. NoSlot \notin MineOf(e)
  BY <1>5, <1>7, FileAssumption DEF SectTracked
<1>9. \A a \in x.sectSums : MemberExact(x, a)
  BY <1>1, <1>5 DEF SectTracked, MemberExact
<1>10. ASSUME NEW s \in MineOf(e), NEW b \in x.sect[s].typ
       PROVE  [kind |-> b, str |-> x.sect[s].str[b], slot |-> s] \in x.sectSums
  <2>1. CASE s \in MineOf(d)
    BY <1>1, <1>10, <2>1 DEF SectTracked
  <2>2. CASE s \notin MineOf(d)
    <3>1. s \in Slots \ m.used
      BY <1>5, <1>7, <2>2
    <3>2. x.sect[s] = WipedSect
      BY <1>1, <3>1 DEF Sound, WipedOK
    <3>3. WipedSect.typ = {}
      BY DEF WipedSect
    <3>4. QED
      BY <1>10, <3>2, <3>3
  <2>3. QED
    BY <2>1, <2>2
<1>11. SectTracked(x)
  BY <1>1, <1>8, <1>9, <1>10 DEF SectTracked
<1>12. QED
  BY <1>1, <1>6, <1>11 DEF Tracked, x

LEMMA FpNoRoomKeeps == IInv /\ FpNoRoom => IInv'
<1>1. SUFFICES ASSUME IInv, FpNoRoom PROVE IInv'
  OBVIOUS
<1>2. PICK size \in Sizes :
        /\ MayFingerprint(size)
        /\ LET m == PutSections([db EXCEPT !.data = WipedData], SectNum(size))
           IN  Ends(m, [how |-> "user", size |-> 0], VerifyResult(m)) /\ UNCHANGED stale
  BY <1>1 DEF FpNoRoom
<1> DEFINE w == [db EXCEPT !.data = WipedData]
           n == SectNum(size)
           m == PutSections(w, n)
           how == [how |-> "user", size |-> 0]
<1>3. Splits(size) /\ db.data = NoData
  BY <1>2, MaySplit
<1>4. n \in Nat
  BY <1>3, NumberFits
<1>5. Sound(db) /\ stale \in BOOLEAN /\ (~stale => AllEmpty(db))
  BY <1>1, <1>3 DEF IInv, Tracked
<1>6. Sound(w) /\ w.data # NoData
  BY <1>5, WipedFacts
<1>7. ~stale => FileTracked(w) /\ SectTracked(w)
  BY <1>5, WipedTracked
<1>8. Ends(m, how, VerifyResult(m)) /\ stale' = stale /\ how.how # "fp"
  BY <1>2
<1> HIDE DEF w, n, how
<1>9. Sound(m)
  BY <1>4, <1>6, PutSectionsFacts
<1>10. ~stale => Tracked(m)
  BY <1>4, <1>6, <1>7, PutTracked
<1> HIDE DEF m
<1>11. QED
  BY <1>5, <1>8, <1>9, <1>10, VerifyType, EndsKeeps

-----------------------------------------------------------------------------
(* attach and detach                                                       *)

LEMMA AttachFileKeeps == IInv /\ AttachFile => IInv'
<1>1. SUFFICES ASSUME IInv, AttachFile PROVE IInv'
  OBVIOUS
<1> DEFINE m == [db EXCEPT !.data = WipedData]
<1>2. db.data = NoData /\ Ends(m, ByUser, "ok") /\ stale' = stale
  BY <1>1 DEF AttachFile
<1>3. Sound(db) /\ stale \in BOOLEAN /\ (~stale => AllEmpty(db))
  BY <1>1, <1>2 DEF IInv, Tracked
<1>4. Sound(m)
  BY <1>3, WipedFacts
<1>5. ~stale => Tracked(m)
  BY <1>3, WipedTracked
<1>6. ByUser.how # "fp"
  BY DEF ByUser
<1> HIDE DEF m
<1>7. QED
  BY <1>2, <1>3, <1>4, <1>5, <1>6, EndsKeeps

LEMMA AttachSectKeeps == IInv /\ AttachSect => IInv'
<1>1. SUFFICES ASSUME IInv, AttachSect PROVE IInv'
  OBVIOUS
<1>2. PICK n \in 0 .. 2 : Ends(PutSections(db, n), ByUser, "ok")
  BY <1>1 DEF AttachSect
<1>3. db.data # NoData /\ stale' = stale /\ n \in Nat
  BY <1>1 DEF AttachSect
<1>4. Sound(db) /\ stale \in BOOLEAN /\ (~stale => FileTracked(db) /\ SectTracked(db))
  BY <1>1, <1>3 DEF IInv, Tracked
<1>5. Sound(PutSections(db, n))
  BY <1>3, <1>4, PutSectionsFacts
<1>6. ~stale => Tracked(PutSections(db, n))
  BY <1>3, <1>4, PutTracked
<1>7. ByUser.how # "fp"
  BY DEF ByUser
<1>8. QED
  BY <1>2, <1>3, <1>4, <1>5, <1>6, <1>7, EndsKeeps

\* Nothing is left in the indexes when every string has its type.
LEMMA GoneTracked ==
  ASSUME NEW m, Sound(m), m.data # NoData, Tracked(m), ~Untyped(m.data),
         \A s \in MineOf(m.data) : ~Untyped(m.sect[s])
  PROVE  Tracked(DelFileData(m))
<1> DEFINE x == DelFileData(m)
           d == m.data
           gone == {<<k, d.tran[k]>> : k \in d.typ}
<1>1. FileTracked(m) /\ SectTracked(m) /\ m \in Memory /\ ArrayOK(m)
  BY DEF Tracked, Sound
<1>2. /\ x.data = NoData
      /\ x.sizes = (IF d.sizeTran THEN m.sizes \ {d.size} ELSE m.sizes)
      /\ x.sums = m.sums \ gone
      /\ x.sectSums = m.sectSums \ GoneFrom(m, MineOf(d))
  BY <1>1, DelFileDataFacts DEF SectTracked, GoneFrom
<1>3. x.sizes = {}
  BY <1>1, <1>2 DEF FileTracked
<1>4. m.sums \subseteq gone
  <2>1. SUFFICES ASSUME NEW k \in Kinds, d.str[k] # NoStr
                 PROVE  <<k, d.str[k]>> \in gone
    BY <1>1 DEF FileTracked, StrNodes
  <2>2. d.tran[k] = d.str[k]
    BY <1>1 DEF FileTracked
  <2>3. k \in d.typ
    BY <2>1, <2>2 DEF Untyped
  <2>4. QED
    BY <2>2, <2>3
<1>5. \A n \in m.sectSums : n \in GoneFrom(m, MineOf(d))
  <2>1. \A n \in m.sectSums : n.slot \in MineOf(d)
    BY <1>1 DEF SectTracked, MemberExact
  <2>2. \A n \in m.sectSums : n \in GoneFrom(m, MineOf(d)) <=> n.slot \in MineOf(d)
    BY <1>1, GoneMembers
  <2>3. QED
    BY <2>1, <2>2
<1>6. QED
  BY <1>2, <1>3, <1>4, <1>5 DEF Tracked, AllEmpty

LEMMA DetachFileKeeps == IInv /\ DetachFile => IInv'
<1>1. SUFFICES ASSUME IInv, DetachFile PROVE IInv'
  OBVIOUS
<1> DEFINE d == db.data
           secs == SubSeq(d.arr, 1, d.num)
           m == DelFileData(db)
<1>2. Sound(db) /\ stale \in BOOLEAN /\ (~stale => Tracked(db)) /\ d # NoData
  BY <1>1 DEF IInv, DetachFile
<1>3. db \in Memory /\ ArrayOK(db) /\ WipedOK(db) /\ d \in Datas /\ Len(d.arr) = d.num + d.free
  BY <1>2, MemoryIsRecord DEF Sound, ArrayOK
<1>4. /\ Range(secs) = MineOf(d) /\ DOMAIN secs = 1 .. d.num
      /\ \A i \in 1 .. d.num : secs[i] = d.arr[i]
      /\ MineOf(d) \subseteq Slots \cup {NoSlot}
  BY <1>3, MineIsRange
<1>5. CASE NoSlot \in Range(secs)
  BY <1>1, <1>5, UndefinedKeeps DEF DetachFile
<1>6. CASE NoSlot \notin Range(secs)
  <2>1. /\ Ends(m, Nowhere, "ok")
        /\ stale' = (stale \/ Untyped(d) \/ \E i \in DOMAIN secs : Untyped(db.sect[secs[i]]))
    BY <1>1, <1>6 DEF DetachFile
  <2>2. NoSlot \notin MineOf(d)
    BY <1>4, <1>6
  <2>3. /\ m \in Memory /\ m.data = NoData
        /\ m.sect = [s \in Slots |-> IF s \in MineOf(d) THEN WipedSect ELSE db.sect[s]]
        /\ m.used = db.used \ MineOf(d)
    BY <1>2, <1>3, <2>2, DelFileDataFacts
  <2>4. Sound(m)
    <3>1. ArrayOK(m)
      BY <2>3 DEF ArrayOK
    <3>2. ASSUME NEW s \in Slots, s \notin m.used
          PROVE  m.sect[s] = WipedSect
      BY <1>3, <2>3, <3>2 DEF WipedOK
    <3>3. QED
      BY <2>3, <3>1, <3>2 DEF Sound, WipedOK
  <2>5. ASSUME ~stale'
        PROVE  Tracked(m)
    <3>1. Tracked(db) /\ ~Untyped(d) /\ \A i \in 1 .. d.num : ~Untyped(db.sect[d.arr[i]])
      BY <1>2, <1>4, <2>1, <2>5
    <3>2. \A s \in MineOf(d) : ~Untyped(db.sect[s])
      BY <3>1 DEF MineOf
    <3>3. QED
      BY <1>2, <3>1, <3>2, GoneTracked
  <2>6. stale' \in BOOLEAN
    BY <1>2, <2>1
  <2>7. Nowhere.how # "fp"
    BY DEF Nowhere
  <2> HIDE DEF m
  <2>8. QED
    BY <2>1, <2>4, <2>5, <2>6, <2>7, EndsKeeps
<1>7. QED
  BY <1>5, <1>6

LEMMA DetachSectKeeps == IInv /\ DetachSect => IInv'
<1>1. SUFFICES ASSUME IInv, DetachSect PROVE IInv'
  OBVIOUS
<1>2. PICK chosen \in SUBSET (1..db.data.num) :
        IF \E i \in chosen : db.data.arr[i] = NoSlot THEN Undefined("crash")
        ELSE /\ Ends(Detached(db, chosen), ByUser, "ok")
             /\ stale' = (stale \/ LaterGap(chosen, db.data.num)
                                \/ \E i \in chosen : Untyped(db.sect[db.data.arr[i]]))
  BY <1>1 DEF DetachSect
<1>3. Sound(db) /\ stale \in BOOLEAN /\ (~stale => Tracked(db)) /\ db.data # NoData
  BY <1>1 DEF IInv, DetachSect
<1>4. CASE \E i \in chosen : db.data.arr[i] = NoSlot
  BY <1>1, <1>2, <1>4, UndefinedKeeps
<1>5. CASE \A i \in chosen : db.data.arr[i] # NoSlot
  <2> DEFINE m == Detached(db, chosen)
  <2>1. /\ Ends(m, ByUser, "ok")
        /\ stale' = (stale \/ LaterGap(chosen, db.data.num)
                           \/ \E i \in chosen : Untyped(db.sect[db.data.arr[i]]))
    BY <1>2, <1>5
  <2>2. IsDetached(m, db, chosen)
    BY <1>2, <1>3, <1>5, DetachedFacts
  <2>3. Sound(m)
    BY <2>2 DEF IsDetached
  <2>4. ASSUME ~stale'
        PROVE  Tracked(m)
    <3>1. /\ Tracked(db) /\ ~LaterGap(chosen, db.data.num)
          /\ \A i \in chosen : ~Untyped(db.sect[db.data.arr[i]])
      BY <1>3, <2>1, <2>4
    <3> HIDE DEF m
    <3>2. QED
      BY <1>2, <1>3, <2>2, <3>1, DetachedTracked
  <2>5. stale' \in BOOLEAN
    BY <1>3, <2>1
  <2>6. ByUser.how # "fp"
    BY DEF ByUser
  <2> HIDE DEF m
  <2>7. QED
    BY <2>1, <2>3, <2>4, <2>5, <2>6, EndsKeeps
<1>6. QED
  BY <1>4, <1>5

-----------------------------------------------------------------------------
(* edit                                                                    *)

LEMMA EditSizeKeeps == IInv /\ EditSize => IInv'
<1>1. SUFFICES ASSUME IInv, EditSize PROVE IInv'
  OBVIOUS
<1>2. PICK size \in EditSizes :
        Ends(LinkSize([UnlinkSize(db) EXCEPT !.data.size = size]), ByUser,
             VerifyResult(LinkSize([UnlinkSize(db) EXCEPT !.data.size = size])))
  BY <1>1 DEF EditSize
<1> DEFINE d == db.data
           u == UnlinkSize(db)
           g == [u.data EXCEPT !.size = size]
           v == [u EXCEPT !.data = g]
           m == LinkSize(v)
<1>3. Sound(db) /\ stale \in BOOLEAN /\ (~stale => Tracked(db)) /\ d # NoData /\ stale' = stale
  BY <1>1 DEF IInv, EditSize
<1>4. db \in Memory /\ d \in Datas /\ size \in Nat
  BY <1>3, MemoryIsRecord, FileAssumption DEF Sound
<1>5. /\ u \in Memory /\ u.data = [d EXCEPT !.sizeTran = FALSE]
      /\ u.sizes = (IF d.sizeTran THEN db.sizes \ {d.size} ELSE db.sizes)
      /\ u.sect = db.sect /\ u.used = db.used
      /\ u.sums = db.sums /\ u.sectSums = db.sectSums
  BY <1>3, <1>4, UnlinkSizeFacts
<1>6. Ends(m, ByUser, VerifyResult(m))
  <2>1. [UnlinkSize(db) EXCEPT !.data.size = size] = v
    OBVIOUS
  <2>2. QED
    BY <1>2, <2>1
<1> HIDE DEF u
<1>7. /\ g \in Datas /\ SameArray(g, d) /\ g.size = size
      /\ g.str = d.str /\ g.tran = d.tran
  BY <1>4, <1>5 DEF Datas, SameArray
<1> HIDE DEF g
<1>8. /\ v \in Memory /\ v.data = g /\ v.sizes = u.sizes /\ v.sect = db.sect
      /\ v.used = db.used /\ v.sums = db.sums /\ v.sectSums = db.sectSums
  BY <1>5, <1>7 DEF Memory
<1> HIDE DEF v
<1>9. g # NoData
  BY <1>7, FileAssumption
<1>10. /\ m \in Memory /\ m.data = [g EXCEPT !.sizeTran = TRUE]
       /\ m.sizes = u.sizes \cup {size}
       /\ m.sect = db.sect /\ m.used = db.used
       /\ m.sums = db.sums /\ m.sectSums = db.sectSums
  BY <1>7, <1>8, <1>9, LinkSizeFacts
<1> HIDE DEF m
<1>11. /\ m.data \in Datas /\ SameArray(m.data, d) /\ m.data.size = size
       /\ m.data.str = d.str /\ m.data.tran = d.tran /\ m.data.sizeTran = TRUE
  BY <1>7, <1>10 DEF Datas, SameArray
<1>12. m.data # NoData
  BY <1>11, FileAssumption
<1>13. Sound(m)
  BY <1>3, <1>10, <1>11, SoundByArray
<1>14. ASSUME ~stale
       PROVE  Tracked(m)
  <2>1. FileTracked(db) /\ SectTracked(db)
    BY <1>3, <1>14 DEF Tracked
  <2>2. u.sizes = {}
    BY <1>5, <2>1 DEF FileTracked
  <2>3. m.sizes = {size}
    BY <1>10, <2>2
  <2>4. FileTracked(m)
    BY <1>10, <1>11, <2>1, <2>3 DEF FileTracked, StrNodes
  <2>5. MineOf(m.data) = MineOf(d)
    BY <1>11 DEF MineOf, SameArray
  <2>6. SectTracked(m)
    BY <1>10, <2>1, <2>5 DEF SectTracked, MemberExact
  <2>7. QED
    BY <1>12, <2>4, <2>6 DEF Tracked
<1>15. ByUser.how # "fp"
  BY DEF ByUser
<1>16. QED
  BY <1>3, <1>6, <1>13, <1>14, <1>15, VerifyType, EndsKeeps

\* A checksum of the file is given another string.
SumGiven(m, k, str) ==
  /\ Sound(m) /\ m.data # NoData /\ SameArray(m.data, db.data)
  /\ m.data.size = db.data.size /\ m.data.sizeTran = db.data.sizeTran
  /\ m.data.str = [db.data.str EXCEPT ![k] = str]
  /\ m.data.tran = [db.data.tran EXCEPT ![k] = str]
  /\ m.sizes = db.sizes
  /\ m.sums = (db.sums \ {<<k, db.data.tran[k]>>}) \cup {<<k, str>>}
  /\ m.sect = db.sect /\ m.sectSums = db.sectSums

LEMMA SumGivenFacts ==
  ASSUME Sound(db), db.data # NoData, NEW k \in Kinds, NEW str \in Strs
  PROVE  SumGiven(LinkSum([UnlinkSum(db, k) EXCEPT !.data.str[k] = str], k), k, str)
<1> DEFINE d == db.data
           u == UnlinkSum(db, k)
           new == [u.data.str EXCEPT ![k] = str]
           g == [u.data EXCEPT !.str = new]
           v == [u EXCEPT !.data = g]
           m == LinkSum(v, k)
           off == [d.tran EXCEPT ![k] = NoStr]
           on == [off EXCEPT ![k] = str]
<1>1. db \in Memory /\ d \in Datas
  BY MemoryIsRecord DEF Sound
<1>2. /\ u \in Memory /\ u.data = [d EXCEPT !.tran = off]
      /\ u.sums = db.sums \ {<<k, d.tran[k]>>}
      /\ u.sizes = db.sizes /\ u.sect = db.sect /\ u.used = db.used
      /\ u.sectSums = db.sectSums
  BY <1>1, UnlinkSumFacts
<1>3. [UnlinkSum(db, k) EXCEPT !.data.str[k] = str] = v
  OBVIOUS
<1>4. off \in [Kinds -> Strs] /\ d.tran \in [Kinds -> Strs] /\ d.str \in [Kinds -> Strs]
  BY <1>1, PairIsStr DEF Datas
<1>5. on = [d.tran EXCEPT ![k] = str]
  BY <1>4
<1> HIDE DEF u, off
<1>6. u.data.str = d.str /\ u.data \in Datas /\ u.data.tran = off
      /\ SameArray(u.data, d) /\ u.data.size = d.size /\ u.data.sizeTran = d.sizeTran
  BY <1>1, <1>2, <1>4 DEF Datas, SameArray
<1>7. new = [d.str EXCEPT ![k] = str] /\ new \in [Kinds -> Strs] /\ new[k] = str
  BY <1>4, <1>6
<1> HIDE DEF new
<1>8. /\ g \in Datas /\ g.str = new /\ g.tran = off
      /\ SameArray(g, d) /\ g.size = d.size /\ g.sizeTran = d.sizeTran
  BY <1>6, <1>7 DEF Datas, SameArray
<1> HIDE DEF g
<1>9. /\ v \in Memory /\ v.data = g /\ v.sums = u.sums /\ v.sizes = db.sizes
      /\ v.sect = db.sect /\ v.used = db.used /\ v.sectSums = db.sectSums
  BY <1>2, <1>8 DEF Memory
<1> HIDE DEF v
<1>10. g # NoData
  BY <1>8, FileAssumption
<1>11. /\ m \in Memory /\ m.data = [g EXCEPT !.tran = on]
       /\ m.sums = u.sums \cup {<<k, str>>}
       /\ m.sect = db.sect /\ m.used = db.used
       /\ m.sizes = db.sizes /\ m.sectSums = db.sectSums
  BY <1>7, <1>8, <1>9, <1>10, LinkSumFacts
<1>12. on \in [Kinds -> Strs]
  BY <1>4
<1> HIDE DEF m, on
<1>13. /\ m.data \in Datas /\ m.data.str = new /\ m.data.tran = on
       /\ SameArray(m.data, d) /\ m.data.size = d.size /\ m.data.sizeTran = d.sizeTran
  BY <1>8, <1>11, <1>12 DEF Datas, SameArray
<1>14. m.data # NoData
  BY <1>13, FileAssumption
<1>15. Sound(m)
  BY <1>11, <1>13, SoundByArray
<1>16. SumGiven(m, k, str)
  BY <1>2, <1>5, <1>7, <1>11, <1>13, <1>14, <1>15 DEF SumGiven
<1>17. QED
  BY <1>3, <1>16 DEF m

LEMMA SumGivenTracked ==
  ASSUME FileTracked(db), SectTracked(db), db \in Memory, db.data # NoData,
         NEW k \in Kinds, NEW str \in Strs, str # NoStr, NEW m, SumGiven(m, k, str)
  PROVE  Tracked(m)
<1> DEFINE d == db.data
           e == m.data
<1>1. d.str \in [Kinds -> Strs] /\ d.tran = d.str
  BY MemoryIsRecord DEF Datas, FileTracked
<1>2. e.str = [d.str EXCEPT ![k] = str] /\ e.tran = e.str
  BY <1>1 DEF SumGiven
<1>3. /\ \A j \in Kinds : e.str[j] = IF j = k THEN str ELSE d.str[j]
  BY <1>1, <1>2
<1>4. db.sums = StrNodes(d)
  BY DEF FileTracked
<1>5. m.sums = (StrNodes(d) \ {<<k, d.str[k]>>}) \cup {<<k, str>>}
  BY <1>1, <1>4 DEF SumGiven
<1>6. StrNodes(e) = m.sums
  <2>1. ASSUME NEW j \in Kinds, e.str[j] # NoStr
        PROVE  <<j, e.str[j]>> \in m.sums
    <3>1. CASE j = k
      BY <1>3, <1>5, <3>1
    <3>2. CASE j # k
      BY <1>3, <1>5, <2>1, <3>2 DEF StrNodes
    <3>3. QED
      BY <3>1, <3>2
  <2>2. ASSUME NEW j \in Kinds, d.str[j] # NoStr, <<j, d.str[j]>> # <<k, d.str[k]>>
        PROVE  <<j, d.str[j]>> \in StrNodes(e)
    <3>1. j # k
      BY <2>2
    <3>2. QED
      BY <1>3, <2>2, <3>1 DEF StrNodes
  <2>3. <<k, str>> \in StrNodes(e)
    BY <1>3 DEF StrNodes
  <2>4. StrNodes(e) \subseteq m.sums
    BY <2>1 DEF StrNodes
  <2>5. m.sums \subseteq StrNodes(e)
    BY <1>5, <2>2, <2>3 DEF StrNodes
  <2>6. QED
    BY <2>4, <2>5
<1>7. FileTracked(m)
  BY <1>2, <1>6 DEF FileTracked, SumGiven
<1>8. MineOf(e) = MineOf(d)
  BY DEF SumGiven, MineOf, SameArray
<1>9. SectTracked(m)
  BY <1>8 DEF SectTracked, MemberExact, SumGiven
<1>10. QED
  BY <1>7, <1>9 DEF Tracked, SumGiven

LEMMA EditSumKeeps == IInv /\ EditSum => IInv'
<1>1. SUFFICES ASSUME IInv, EditSum PROVE IInv'
  OBVIOUS
<1>2. PICK k \in Kinds, str \in EditStrs :
        LET m == [UnlinkSum(db, k) EXCEPT !.data.str[k] = str]
            linked == LinkSum(m, k)
        IN  IF LinkSumCrashes(m, k) THEN Undefined("crash")
            ELSE Ends(linked, ByUser, VerifyResult(linked)) /\ UNCHANGED stale
  BY <1>1 DEF EditSum
<1> DEFINE m == LinkSum([UnlinkSum(db, k) EXCEPT !.data.str[k] = str], k)
<1>3. Sound(db) /\ stale \in BOOLEAN /\ (~stale => Tracked(db)) /\ db.data # NoData
  BY <1>1 DEF IInv, EditSum
<1>4. str \in Strs /\ str # NoStr
  BY FileAssumption, PairIsStr
<1>5. SumGiven(m, k, str)
  BY <1>3, <1>4, SumGivenFacts
<1>6. CASE Undefined("crash")
  BY <1>1, <1>6, UndefinedKeeps
<1>7. CASE Ends(m, ByUser, VerifyResult(m)) /\ stale' = stale
  <2> HIDE DEF m
  <2>1. Sound(m)
    BY <1>5 DEF SumGiven
  <2>2. ~stale => Tracked(m)
    <3>1. ~stale => FileTracked(db) /\ SectTracked(db)
      BY <1>3 DEF Tracked
    <3>2. db \in Memory
      BY <1>3 DEF Sound
    <3>3. QED
      BY <1>3, <1>4, <1>5, <3>1, <3>2, SumGivenTracked
  <2>3. ByUser.how # "fp"
    BY DEF ByUser
  <2>4. QED
    BY <1>3, <1>7, <2>1, <2>2, <2>3, VerifyType, EndsKeeps
<1>8. QED
  BY <1>2, <1>6, <1>7

\* One section that counts is changed.
LEMMA SectChanged ==
  ASSUME NEW m, Sound(m), NEW s \in m.used, NEW e, NEW x \in Memory,
         x.data = m.data, x.used = m.used, x.sect = [m.sect EXCEPT ![s] = e]
  PROVE  Sound(x)
<1>1. ArrayOK(m) /\ WipedOK(m) /\ m.sect \in [Slots -> Sections]
  BY MemoryIsRecord DEF Sound
<1>2. ArrayOK(x)
  BY <1>1 DEF ArrayOK
<1>3. ASSUME NEW t \in Slots, t \notin x.used
      PROVE  x.sect[t] = WipedSect
  BY <1>1, <1>3 DEF WipedOK
<1>4. QED
  BY <1>2, <1>3 DEF Sound, WipedOK

\* The section in a place that is not empty.
LEMMA PlaceIsUsed ==
  ASSUME NEW m, Sound(m), m.data # NoData, NEW i \in 1 .. m.data.num, m.data.arr[i] # NoSlot
  PROVE  /\ m.data.arr[i] \in m.used /\ m.data.arr[i] \in Slots
         /\ m.data.arr[i] \in MineOf(m.data)
BY MemoryIsRecord DEF Sound, ArrayOK, MineOf

LEMMA EditPosKeeps == IInv /\ EditPos => IInv'
<1>1. SUFFICES ASSUME IInv, EditPos PROVE IInv'
  OBVIOUS
<1>2. PICK i \in 1..db.data.num, pos \in EditSizes, field \in {"start", "end"} :
        IF db.data.arr[i] = NoSlot THEN Undefined("crash")
        ELSE LET m == [db EXCEPT !.sect[db.data.arr[i]][field] = pos]
             IN  Ends(m, ByUser, VerifyResult(m)) /\ UNCHANGED stale
  BY <1>1 DEF EditPos
<1>3. Sound(db) /\ stale \in BOOLEAN /\ (~stale => Tracked(db)) /\ db.data # NoData
  BY <1>1 DEF IInv, EditPos
<1>4. CASE db.data.arr[i] = NoSlot
  BY <1>1, <1>2, <1>4, UndefinedKeeps
<1>5. CASE db.data.arr[i] # NoSlot
  <2> DEFINE s == db.data.arr[i]
             e == [db.sect[s] EXCEPT ![field] = pos]
             sect == [db.sect EXCEPT ![s] = e]
             m == [db EXCEPT !.sect = sect]
  <2>1. s \in db.used /\ s \in Slots
    BY <1>3, <1>5, PlaceIsUsed
  <2>2. db \in Memory /\ pos \in Nat
    BY <1>3, FileAssumption DEF Sound
  <2>3. db.sect[s] \in Sections /\ db.sect \in [Slots -> Sections]
    BY <2>1, <2>2, MemoryIsRecord
  <2>4. Ends(m, ByUser, VerifyResult(m)) /\ stale' = stale
    <3>1. [db EXCEPT !.sect[db.data.arr[i]][field] = pos] = m
      OBVIOUS
    <3>2. QED
      BY <1>2, <1>5, <3>1
  <2> HIDE DEF s
  <2>5. /\ e \in Sections /\ e.typ = db.sect[s].typ
        /\ e.str = db.sect[s].str /\ e.tran = db.sect[s].tran
    <3>1. CASE field = "start"
      BY <2>2, <2>3, <3>1 DEF Sections
    <3>2. CASE field = "end"
      BY <2>2, <2>3, <3>2 DEF Sections
    <3>3. QED
      BY <3>1, <3>2
  <2> HIDE DEF e
  <2>6. /\ sect \in [Slots -> Sections]
        /\ \A t \in Slots : /\ sect[t].typ = db.sect[t].typ
                            /\ sect[t].str = db.sect[t].str /\ sect[t].tran = db.sect[t].tran
    BY <2>1, <2>3, <2>5
  <2>7. sect = [db.sect EXCEPT ![s] = e]
    OBVIOUS
  <2> HIDE DEF sect
  <2>8. /\ m \in Memory /\ m.sect = sect /\ m.data = db.data /\ m.used = db.used
        /\ m.sizes = db.sizes /\ m.sums = db.sums /\ m.sectSums = db.sectSums
    BY <2>2, <2>6 DEF Memory
  <2> HIDE DEF m
  <2>9. Sound(m)
    BY <1>3, <2>1, <2>7, <2>8, SectChanged
  <2>10. ASSUME ~stale
         PROVE  Tracked(m)
    <3>1. FileTracked(db) /\ SectTracked(db)
      BY <1>3, <2>10 DEF Tracked
    <3>2. FileTracked(m)
      BY <2>8, <3>1 DEF FileTracked
    <3>3. MineOf(db.data) \subseteq Slots
      <4>1. db.data \in Datas /\ Len(db.data.arr) = db.data.num + db.data.free
        BY <1>3, MemoryIsRecord DEF Sound, ArrayOK
      <4>2. QED
        BY <3>1, <4>1, MineIsRange DEF SectTracked
    <3>4. ASSUME NEW n \in m.sectSums
          PROVE  MemberExact(m, n)
      <4>1. MemberExact(db, n)
        BY <2>8, <3>1 DEF SectTracked
      <4>2. n.slot \in Slots
        BY <3>3, <4>1 DEF MemberExact
      <4>3. QED
        BY <2>6, <2>8, <4>1, <4>2 DEF MemberExact
    <3>5. ASSUME NEW t \in MineOf(m.data), NEW k \in m.sect[t].typ
          PROVE  [kind |-> k, str |-> m.sect[t].str[k], slot |-> t] \in m.sectSums
      <4>1. t \in MineOf(db.data) /\ t \in Slots /\ k \in db.sect[t].typ
        BY <2>6, <2>8, <3>3, <3>5
      <4>2. [kind |-> k, str |-> db.sect[t].str[k], slot |-> t] \in db.sectSums
        BY <3>1, <4>1 DEF SectTracked
      <4>3. QED
        BY <2>6, <2>8, <4>1, <4>2
    <3>6. SectTracked(m)
      BY <2>8, <3>1, <3>4, <3>5 DEF SectTracked
    <3>7. QED
      BY <1>3, <2>8, <3>2, <3>6 DEF Tracked
  <2>11. ByUser.how # "fp"
    BY DEF ByUser
  <2>12. QED
    BY <1>3, <2>4, <2>9, <2>10, <2>11, VerifyType, EndsKeeps
<1>6. QED
  BY <1>4, <1>5

\* A section has lost its place under one kind of string and got another string.
Relabelled(m, s, k, str) ==
  /\ Sound(m) /\ m.data = db.data /\ m.used = db.used
  /\ m.sizes = db.sizes /\ m.sums = db.sums
  /\ m.sect \in [Slots -> Sections]
  /\ \A t \in Slots \ {s} : m.sect[t] = db.sect[t]
  /\ m.sect[s].typ = db.sect[s].typ
  /\ m.sect[s].str = [db.sect[s].str EXCEPT ![k] = str]
  /\ m.sect[s].tran = [db.sect[s].tran EXCEPT ![k] = NoStr]
  /\ m.sectSums = db.sectSums \ {Member(db, s, k)}

LEMMA RelabelledFacts ==
  ASSUME Sound(db), db.data # NoData, NEW s \in db.used, NEW k \in Kinds, NEW str \in Strs
  PROVE  Relabelled([UnlinkSectSum(db, s, k) EXCEPT !.sect[s].str[k] = str], s, k, str)
<1> DEFINE u == UnlinkSectSum(db, s, k)
           tran == [db.sect[s].tran EXCEPT ![k] = NoStr]
           c == [db.sect[s] EXCEPT !.tran = tran]
           new == [u.sect[s].str EXCEPT ![k] = str]
           e == [u.sect[s] EXCEPT !.str = new]
           sect == [u.sect EXCEPT ![s] = e]
           m == [u EXCEPT !.sect = sect]
<1>1. db \in Memory /\ s \in Slots
  BY MemoryIsRecord DEF Sound
<1>2. db.sect[s] \in Sections /\ db.sect \in [Slots -> Sections]
  BY <1>1, MemoryIsRecord
<1>3. [UnlinkSectSum(db, s, k) EXCEPT !.sect[s].str[k] = str] = m
  OBVIOUS
<1>4. /\ u \in Memory /\ u.sect = [db.sect EXCEPT ![s] = c]
      /\ u.sectSums = db.sectSums \ {Member(db, s, k)}
      /\ u.data = db.data /\ u.used = db.used
      /\ u.sizes = db.sizes /\ u.sums = db.sums
  BY <1>1, UnlinkSectSumFacts
<1>5. tran \in [Kinds -> Strs]
  BY <1>2, PairIsStr DEF Sections
<1> HIDE DEF u, tran
<1>6. c \in Sections /\ c.typ = db.sect[s].typ /\ c.str = db.sect[s].str /\ c.tran = tran
  BY <1>2, <1>5 DEF Sections
<1> HIDE DEF c
<1>7. u.sect[s] = c /\ \A t \in Slots \ {s} : u.sect[t] = db.sect[t]
  BY <1>1, <1>2, <1>4
<1>8. new = [db.sect[s].str EXCEPT ![k] = str] /\ new \in [Kinds -> Strs]
  BY <1>6, <1>7 DEF Sections
<1> HIDE DEF new
<1>9. e \in Sections /\ e.typ = db.sect[s].typ /\ e.str = new /\ e.tran = tran
  BY <1>6, <1>7, <1>8 DEF Sections
<1> HIDE DEF e
<1>10. sect = [db.sect EXCEPT ![s] = e]
  BY <1>1, <1>2, <1>4
<1> HIDE DEF sect
<1>11. /\ sect \in [Slots -> Sections] /\ sect[s] = e
       /\ \A t \in Slots \ {s} : sect[t] = db.sect[t]
  BY <1>1, <1>2, <1>9, <1>10
<1>12. /\ m \in Memory /\ m.sect = sect /\ m.data = db.data /\ m.used = db.used
       /\ m.sizes = db.sizes /\ m.sums = db.sums /\ m.sectSums = u.sectSums
  BY <1>4, <1>11 DEF Memory
<1> HIDE DEF m
<1>13. Sound(m)
  BY <1>10, <1>12, SectChanged
<1>14. Relabelled(m, s, k, str)
  BY <1>4, <1>8, <1>9, <1>11, <1>12, <1>13 DEF Relabelled, tran
<1>15. QED
  BY <1>3, <1>14 DEF m

LEMMA RelinkedTracked ==
  ASSUME Sound(db), db.data # NoData, FileTracked(db), SectTracked(db),
         NEW s \in MineOf(db.data), s \in db.used, NEW k \in Kinds, NEW str \in Strs, str # NoStr,
         NEW m, Relabelled(m, s, k, str)
  PROVE  Tracked(LinkSectSum(m, s, k))
<1> DEFINE x == LinkSectSum(m, s, k)
           a == [kind |-> k, str |-> str, slot |-> s]
<1>1. /\ m \in Memory /\ m.data = db.data /\ s \in Slots /\ m.sect \in [Slots -> Sections]
      /\ db.sect \in [Slots -> Sections]
  BY MemoryIsRecord DEF Sound, Relabelled
<1>2. /\ m.sect[s] \in Sections /\ db.sect[s] \in Sections
      /\ m.sect[s].str = [db.sect[s].str EXCEPT ![k] = str]
      /\ m.sect[s].tran = [db.sect[s].tran EXCEPT ![k] = NoStr]
      /\ m.sect[s].typ = db.sect[s].typ
  BY <1>1 DEF Relabelled
<1>3. m.sect[s].str[k] = str
  BY <1>2 DEF Sections
<1>4. /\ x \in Memory
      /\ x.sect = [m.sect EXCEPT ![s] =
                     [m.sect[s] EXCEPT !.tran = [m.sect[s].tran EXCEPT ![k] = m.sect[s].str[k]]]]
      /\ x.sectSums = m.sectSums \cup {[kind |-> k, str |-> m.sect[s].str[k], slot |-> s]}
      /\ x.data = m.data /\ x.used = m.used
      /\ x.sizes = m.sizes /\ x.sums = m.sums
  BY <1>1, LinkSectSumFacts
<1>5. x.sectSums = (db.sectSums \ {Member(db, s, k)}) \cup {a}
  BY <1>3, <1>4 DEF Relabelled
<1> HIDE DEF x
<1>6. \A t \in Slots \ {s} : x.sect[t] = db.sect[t]
  BY <1>1, <1>4 DEF Relabelled
<1>7. x.sect[s] = [m.sect[s] EXCEPT !.tran = [m.sect[s].tran EXCEPT ![k] = str]]
  BY <1>1, <1>3, <1>4
<1>8. /\ x.sect[s].typ = db.sect[s].typ
      /\ x.sect[s].str = m.sect[s].str
      /\ x.sect[s].tran = [m.sect[s].tran EXCEPT ![k] = str]
  BY <1>2, <1>7 DEF Sections
<1>9. \A j \in Kinds : /\ x.sect[s].str[j] = IF j = k THEN str ELSE db.sect[s].str[j]
                       /\ x.sect[s].tran[j] = IF j = k THEN str ELSE db.sect[s].tran[j]
  BY <1>2, <1>8 DEF Sections
<1>10. x.data = db.data /\ x.sizes = db.sizes /\ x.sums = db.sums
  BY <1>4 DEF Relabelled
<1>11. FileTracked(x)
  BY <1>10 DEF FileTracked
<1>12. MineOf(db.data) \subseteq Slots /\ NoSlot \notin MineOf(db.data)
  <2>1. db.data \in Datas /\ Len(db.data.arr) = db.data.num + db.data.free
    BY MemoryIsRecord DEF Sound, ArrayOK
  <2>2. QED
    BY <2>1, MineIsRange DEF SectTracked
<1>13. \A n \in db.sectSums : n.kind \in Kinds
                              /\ n = [kind |-> n.kind, str |-> n.str, slot |-> n.slot]
  <2>1. \A n \in db.sectSums : n \in [kind : Kinds, str : Strs, slot : Slots]
    BY MemoryIsRecord DEF Sound
  <2>2. QED
    BY <2>1
<1>14. ASSUME NEW n \in x.sectSums
       PROVE  MemberExact(x, n)
  <2>1. CASE n = a
    <3>1. n.slot = s /\ n.kind = k /\ n.str = str
      BY <2>1
    <3>2. QED
      BY <1>9, <1>10, <3>1 DEF MemberExact
  <2>2. CASE n # a
    <3>1. n \in db.sectSums /\ n # Member(db, s, k)
      BY <1>5, <2>2
    <3>2. MemberExact(db, n) /\ n.kind \in Kinds
      BY <1>13, <3>1 DEF SectTracked
    <3>3. CASE n.slot = s
      <4>1. n.kind # k
        <5>1. SUFFICES ASSUME n.kind = k PROVE FALSE
          OBVIOUS
        <5>2. n.str = db.sect[s].tran[k]
          BY <3>2, <3>3, <5>1 DEF MemberExact
        <5>3. n = Member(db, s, k)
          BY <1>13, <3>1, <3>3, <5>1, <5>2 DEF Member
        <5>4. QED
          BY <3>1, <5>3
      <4>2. QED
        BY <1>9, <1>10, <3>2, <3>3, <4>1 DEF MemberExact
    <3>4. CASE n.slot # s
      <4>1. n.slot \in Slots \ {s}
        BY <1>12, <3>2, <3>4 DEF MemberExact
      <4>2. QED
        BY <1>6, <1>10, <3>2, <4>1 DEF MemberExact
    <3>5. QED
      BY <3>3, <3>4
  <2>3. QED
    BY <2>1, <2>2
<1>15. ASSUME NEW t \in MineOf(x.data), NEW j \in x.sect[t].typ
       PROVE  [kind |-> j, str |-> x.sect[t].str[j], slot |-> t] \in x.sectSums
  <2> DEFINE b == [kind |-> j, str |-> db.sect[t].str[j], slot |-> t]
  <2>1. t \in MineOf(db.data) /\ t \in Slots
    BY <1>10, <1>12
  <2>2. j \in db.sect[t].typ
    BY <1>6, <1>8, <2>1
  <2>3. j \in Kinds
    BY <1>1, <2>1, <2>2 DEF Sections
  <2>4. b \in db.sectSums
    BY <2>1, <2>2 DEF SectTracked
  <2>5. CASE t = s /\ j = k
    BY <1>5, <1>9, <2>5
  <2>6. CASE ~(t = s /\ j = k)
    <3>1. b # Member(db, s, k)
      BY <2>6 DEF Member
    <3>2. x.sect[t].str[j] = db.sect[t].str[j]
      BY <1>6, <1>9, <2>1, <2>3, <2>6
    <3>3. QED
      BY <1>5, <2>4, <3>1, <3>2
  <2>7. QED
    BY <2>5, <2>6
<1>16. SectTracked(x)
  BY <1>10, <1>12, <1>14, <1>15 DEF SectTracked
<1>17. QED
  BY <1>10, <1>11, <1>16 DEF Tracked, x

LEMMA EditSectSumKeeps == IInv /\ EditSectSum => IInv'
<1>1. SUFFICES ASSUME IInv, EditSectSum PROVE IInv'
  OBVIOUS
<1>2. PICK i \in 1..db.data.num, k \in Kinds, str \in EditStrs :
        IF db.data.arr[i] = NoSlot THEN Undefined("crash")
        ELSE LET s == db.data.arr[i]
                 m == [UnlinkSectSum(db, s, k) EXCEPT !.sect[s].str[k] = str]
                 found == {n.slot : n \in SectNodes(m, k, str)}
                 linked == IF found = {} THEN LinkSectSum(m, s, k) ELSE m
             IN  /\ Cardinality(SectNodes(db, k, db.sect[s].tran[k])) <= 1
                 /\ IF \E h \in found : m.sect[h].str[CmpKind] = m.sect[s].str[CmpKind]
                    THEN /\ \A h \in found : m.sect[h].tran[k] = NoStr
                         /\ Undefined("crash")
                    ELSE /\ Ends(linked, ByUser, VerifyResult(linked))
                         /\ stale' = (stale \/ found # {})
  BY <1>1 DEF EditSectSum
<1>3. Sound(db) /\ stale \in BOOLEAN /\ (~stale => Tracked(db)) /\ db.data # NoData
  BY <1>1 DEF IInv, EditSectSum
<1>4. CASE Undefined("crash")
  BY <1>1, <1>4, UndefinedKeeps
<1>5. CASE ~Undefined("crash")
  <2> DEFINE s == db.data.arr[i]
             m == [UnlinkSectSum(db, s, k) EXCEPT !.sect[s].str[k] = str]
             found == {n.slot : n \in SectNodes(m, k, str)}
             linked == IF found = {} THEN LinkSectSum(m, s, k) ELSE m
  <2>1. s # NoSlot /\ Ends(linked, ByUser, VerifyResult(linked)) /\ stale' = (stale \/ found # {})
    BY <1>2, <1>5
  <2>2. s \in db.used /\ s \in Slots /\ s \in MineOf(db.data)
    BY <1>3, <2>1, PlaceIsUsed
  <2>3. str \in Strs /\ str # NoStr
    BY FileAssumption, PairIsStr
  <2> HIDE DEF s
  <2>4. Relabelled(m, s, k, str)
    BY <1>3, <2>2, <2>3, RelabelledFacts
  <2> HIDE DEF m, found
  <2>5. Sound(m) /\ m \in Memory
    BY <2>4 DEF Relabelled, Sound
  <2>6. Sound(linked)
    <3>1. CASE found = {}
      <4> DEFINE x == LinkSectSum(m, s, k)
                 e == [m.sect[s] EXCEPT !.tran = [m.sect[s].tran EXCEPT ![k] = m.sect[s].str[k]]]
      <4>1. /\ x \in Memory /\ x.sect = [m.sect EXCEPT ![s] = e]
            /\ x.data = m.data /\ x.used = m.used
        BY <2>2, <2>5, LinkSectSumFacts
      <4>2. s \in m.used
        BY <2>2, <2>4 DEF Relabelled
      <4> HIDE DEF x, e
      <4>3. Sound(x)
        BY <2>5, <4>1, <4>2, SectChanged
      <4>4. QED
        BY <3>1, <4>3 DEF x
    <3>2. QED
      BY <2>5, <3>1
  <2>7. ASSUME ~stale'
        PROVE  Tracked(linked)
    <3>1. FileTracked(db) /\ SectTracked(db) /\ found = {}
      BY <1>3, <2>1, <2>7 DEF Tracked
    <3>2. Tracked(LinkSectSum(m, s, k))
      BY <1>3, <2>2, <2>3, <2>4, <3>1, RelinkedTracked
    <3>3. QED
      BY <3>1, <3>2
  <2>8. stale' \in BOOLEAN
    BY <1>3, <2>1
  <2>9. ByUser.how # "fp"
    BY DEF ByUser
  <2> HIDE DEF linked
  <2>10. QED
    BY <2>1, <2>6, <2>7, <2>8, <2>9, VerifyType, EndsKeeps
<1>6. QED
  BY <1>4, <1>5

-----------------------------------------------------------------------------
(* The invariant holds                                                     *)

LEMMA InitHolds == Init => IInv
<1>1. SUFFICES ASSUME Init PROVE IInv
  OBVIOUS
<1> DEFINE sect == [s \in Slots |-> WipedSect]
<1>2. sect \in [Slots -> Sections] /\ \A s \in Slots : sect[s] = WipedSect
  BY WipedTypes
<1> HIDE DEF sect
<1>3. db = [data |-> NoData, sect |-> sect, used |-> {}, sizes |-> {}, sums |-> {}, sectSums |-> {}]
  BY <1>1 DEF Init, sect
<1>4. db \in Memory
  BY <1>2, <1>3 DEF Memory
<1>5. /\ db.data = NoData /\ db.sect = sect
      /\ db.sizes = {} /\ db.sums = {} /\ db.sectSums = {}
  BY <1>3
<1>6. Sound(db) /\ Tracked(db)
  BY <1>2, <1>4, <1>5 DEF Sound, ArrayOK, WipedOK, Tracked, AllEmpty
<1>7. FingerprintExact
  BY <1>1 DEF Init, Nowhere, FingerprintExact
<1>8. QED
  BY <1>1, <1>6, <1>7 DEF IInv, Init

LEMMA NextKeeps == IInv /\ [Next]_vars => IInv'
<1>1. ASSUME IInv, UNCHANGED vars
      PROVE  IInv'
  <2>1. db' = db /\ made' = made /\ outcome' = outcome /\ stale' = stale
    BY <1>1 DEF vars
  <2>2. FingerprintExact'
    BY <1>1, <2>1, FingerprintBy, FingerprintNext DEF IInv
  <2>3. QED
    BY <1>1, <2>1, <2>2 DEF IInv
<1>2. ASSUME IInv, Fp
      PROVE  IInv'
  BY <1>2, FpWholeKeeps, FpCutKeeps, FpOverflowKeeps, FpBareKeeps, FpNoRoomKeeps DEF Fp
<1>3. ASSUME IInv, Edit
      PROVE  IInv'
  BY <1>3, EditSizeKeeps, EditSumKeeps, EditPosKeeps, EditSectSumKeeps DEF Edit
<1>4. QED
  BY <1>1, <1>2, <1>3, AttachFileKeeps, AttachSectKeeps, DetachFileKeeps, DetachSectKeeps
     DEF Next

LEMMA Invariance == Spec => []IInv
BY InitHolds, NextKeeps, PTL DEF Spec

-----------------------------------------------------------------------------
(* What it implies                                                         *)

\* The array of sound data, place by place and as a sequence.
LEMMA SoundArray ==
  ASSUME NEW m, Sound(m), m.data # NoData
  PROVE  /\ m \in Memory /\ m.data \in Datas
         /\ Range(SubSeq(m.data.arr, 1, m.data.num)) = MineOf(m.data)
         /\ MineOf(m.data) \subseteq m.used \cup {NoSlot}
         /\ Len(m.data.arr) = m.data.num + m.data.free
<1>1. m \in Memory /\ ArrayOK(m) /\ m.data \in Datas
  BY MemoryIsRecord DEF Sound
<1>2. Len(m.data.arr) = m.data.num + m.data.free
  BY <1>1 DEF ArrayOK
<1>3. MineOf(m.data) \subseteq m.used \cup {NoSlot}
  BY <1>1 DEF ArrayOK, MineOf
<1>4. QED
  BY <1>1, <1>2, <1>3, MineIsRange

LEMMA ImpliesType == IInv => TypeOK
<1>1. SUFFICES ASSUME IInv PROVE TypeOK
  OBVIOUS
<1>2. Sound(db) /\ outcome \in {"ok", "fail", "crash", "undefined"}
  BY <1>1 DEF IInv
<1>3. db \in Memory /\ \A s \in Slots \ db.used : db.sect[s] = WipedSect
  BY <1>2 DEF Sound, WipedOK
<1>4. db.data # NoData =>
        /\ Len(db.data.arr) = db.data.num + db.data.free
        /\ Range(SubSeq(db.data.arr, 1, db.data.num)) \subseteq db.used \cup {NoSlot}
  BY <1>2, SoundArray
<1>5. QED
  BY <1>2, <1>3, <1>4 DEF TypeOK

\* A sample that verify_entry accepts, as load_file looks at it.
LEMMA SampleLoads ==
  ASSUME NEW d \in Datas, NEW x \in Extracts, SampleInside(d, x), d.size # 0
  PROVE  x.pos < d.size /\ x.len <= ExtractSizeMax /\ x.pos + x.len <= d.size
<1>1. d.size \in Nat /\ x.pos \in Nat /\ x.len \in Nat
  BY DEF Datas, Extracts
<1>2. Pred(d.size) = d.size - 1
  BY DEF Pred
<1>3. x.pos <= d.size - 1 /\ x.len <= ExtractSizeMax /\ Pred(x.pos + x.len) <= d.size - 1
  BY <1>2 DEF SampleInside
<1>4. CASE x.pos + x.len = 0
  BY <1>1, <1>3, <1>4
<1>5. CASE x.pos + x.len # 0
  BY <1>1, <1>3, <1>5 DEF Pred
<1>6. QED
  BY <1>4, <1>5

\* What verify_entry has looked at.
Verified(m) ==
  LET d == m.data IN
  /\ \A x \in Range(d.extr) : SampleInside(d, x)
  /\ HeaderFits(d)
  /\ \A i \in 1..d.num :
       LET s == m.sect[d.arr[i]] IN
       /\ d.arr[i] # NoSlot /\ s.start < d.size
       /\ \A x \in Range(s.extr) : SampleInside(d, x)

LEMMA VerifiedIf ==
  ASSUME NEW m, m.data # NoData, VerifyResult(m) = "ok"
  PROVE  Verified(m)
<1>1. /\ \A x \in Range(m.data.extr) : SampleInside(m.data, x)
      /\ HeaderFits(m.data)
      /\ \A i \in 1..m.data.num :
           LET s == m.sect[m.data.arr[i]] IN
           /\ m.data.arr[i] # NoSlot
           /\ SectionFits(m.data, s, IF i = 1 THEN NoSlot ELSE m.sect[m.data.arr[i - 1]])
           /\ \A x \in Range(s.extr) : SectSampleInside(m.data, s, x)
  BY DEF VerifyResult
<1>2. \A i \in 1..m.data.num :
        LET s == m.sect[m.data.arr[i]] IN
        /\ m.data.arr[i] # NoSlot /\ s.start < m.data.size
        /\ \A x \in Range(s.extr) : SampleInside(m.data, x)
  BY <1>1 DEF SectionFits, SectSampleInside
<1>3. QED
  BY <1>1, <1>2 DEF Verified

\* The header of the data, as load_file looks at it.
HeaderLoads(d) ==
  /\ d.num = 0 => d.norm = 0 /\ d.last = 0
  /\ d.num = 1 => d.last = d.norm
  /\ d.norm <= d.size /\ d.last <= d.norm

LEMMA HeaderFitsLoads ==
  ASSUME NEW d \in Datas, HeaderFits(d)
  PROVE  HeaderLoads(d) <=> ~(d.num = 0 /\ d.norm > 0)
<1>1. d.num \in Nat /\ d.free \in Nat /\ d.norm \in Nat /\ d.last \in Nat /\ d.size \in Nat
  BY DEF Datas
<1>2. CASE d.num = 0 /\ d.free = 0
  BY <1>1, <1>2 DEF HeaderFits, HeaderLoads
<1>3. CASE ~(d.num = 0 /\ d.free = 0)
  <2>1. /\ d.norm <= d.size /\ d.last <= d.norm
        /\ d.num = 1 => d.last = d.norm
        /\ d.norm = 0 => d.last = 0
    BY <1>3 DEF HeaderFits
  <2>2. QED
    BY <1>1, <2>1 DEF HeaderLoads
<1>4. QED
  BY <1>2, <1>3

LEMMA VerifiedAgree ==
  ASSUME NEW m, Sound(m), m.data # NoData, Verified(m)
  PROVE  Loads(m) <=> ~Disagree(m.data)
<1> DEFINE d == m.data
           FileSamples == \A x \in Range(d.extr) :
             x.pos < d.size /\ x.len <= ExtractSizeMax /\ x.pos + x.len < d.size
           SectSamples == \A i \in 1..d.num : \A x \in Range(m.sect[d.arr[i]].extr) :
             x.pos < d.size /\ x.len <= ExtractSizeMax /\ x.pos + x.len <= d.size
<1>1. m \in Memory /\ d \in Datas /\ m.used \subseteq Slots /\ m.sect \in [Slots -> Sections]
  BY SoundArray, MemoryIsRecord
<1>2. /\ d.size \in Nat /\ d.num \in Nat /\ d.extr \in Seq(Extracts)
  BY <1>1 DEF Datas
<1>3. Range(d.extr) \subseteq Extracts
  BY <1>2 DEF Range
<1>4. \A x \in Range(d.extr) : SampleInside(d, x)
  BY DEF Verified
<1>5. HeaderLoads(d) <=> ~(d.num = 0 /\ d.norm > 0)
  BY <1>1, HeaderFitsLoads DEF Verified
<1>6. SectSamples
  <2>1. SUFFICES ASSUME NEW i \in 1..d.num, NEW x \in Range(m.sect[d.arr[i]].extr)
                 PROVE  x.pos < d.size /\ x.len <= ExtractSizeMax /\ x.pos + x.len <= d.size
    OBVIOUS
  <2>2. d.arr[i] \in Slots
    BY <2>1, PlaceIsUsed DEF Verified
  <2>3. x \in Extracts
    <3>1. m.sect[d.arr[i]].extr \in Seq(Extracts)
      BY <1>1, <2>2 DEF Sections
    <3>2. QED
      BY <2>1, <3>1 DEF Range
  <2>4. SampleInside(d, x) /\ m.sect[d.arr[i]].start < d.size
    BY <2>1 DEF Verified
  <2>5. d.size # 0
    <3>1. m.sect[d.arr[i]].start \in Nat
      BY <1>1, <2>2 DEF Sections
    <3>2. QED
      BY <1>2, <2>4, <3>1
  <2>6. QED
    BY <1>1, <2>3, <2>4, <2>5, SampleLoads
<1>7. FileSamples <=> ~(d.extr # <<>> /\ (d.size = 0 \/ \E x \in Range(d.extr) : x.pos + x.len = d.size))
  <2>1. CASE d.extr = <<>>
    <3>1. Range(d.extr) = {}
      BY <2>1 DEF Range
    <3>2. QED
      BY <2>1, <3>1
  <2>2. CASE d.extr # <<>> /\ d.size = 0
    <3>1. 1 \in DOMAIN d.extr
      BY <1>2, <2>2, EmptySeq
    <3>2. d.extr[1] \in Range(d.extr)
      BY <3>1 DEF Range
    <3>3. d.extr[1].pos \in Nat
      BY <1>3, <3>2 DEF Extracts
    <3>4. ~(d.extr[1].pos < d.size)
      BY <2>2, <3>3
    <3>5. QED
      BY <2>2, <3>2, <3>4
  <2>3. CASE d.extr # <<>> /\ d.size # 0
    <3>1. \A x \in Range(d.extr) :
            /\ x.pos < d.size /\ x.len <= ExtractSizeMax /\ x.pos + x.len <= d.size
            /\ x.pos \in Nat /\ x.len \in Nat
      <4>1. \A x \in Range(d.extr) : x.pos \in Nat /\ x.len \in Nat
        BY <1>3 DEF Extracts
      <4>2. QED
        BY <1>1, <1>3, <1>4, <2>3, <4>1, SampleLoads
    <3>2. \A x \in Range(d.extr) : x.pos + x.len < d.size <=> x.pos + x.len # d.size
      BY <1>2, <3>1
    <3>3. QED
      BY <2>3, <3>1, <3>2
  <2>4. QED
    BY <2>1, <2>2, <2>3
<1>8. Loads(m) <=> d.size <= MaxSize /\ FileSamples /\ HeaderLoads(d) /\ SectSamples
  BY DEF Loads, HeaderLoads
<1>9. d.size <= MaxSize <=> ~(d.size > MaxSize)
  BY <1>2, FileAssumption
<1> HIDE DEF FileSamples, SectSamples
<1>10. QED
  BY <1>5, <1>6, <1>7, <1>8, <1>9 DEF Disagree

LEMMA ImpliesVerified == IInv => VerifiedLoads
<1>1. SUFFICES ASSUME IInv, db.data # NoData, VerifyResult(db) = "ok"
               PROVE  Loads(db) <=> ~Disagree(db.data)
  BY DEF VerifiedLoads
<1>2. Sound(db)
  BY <1>1 DEF IInv
<1>3. QED
  BY <1>1, <1>2, VerifiedIf, VerifiedAgree

LEMMA ImpliesIndexes == IInv => IndexesExact
<1>1. SUFFICES ASSUME IInv, ~stale PROVE IndexesExact
  BY DEF IndexesExact
<1>2. Sound(db) /\ Tracked(db)
  BY <1>1 DEF IInv
<1>3. CASE db.data = NoData
  BY <1>2, <1>3 DEF IndexesExact, Tracked, AllEmpty
<1>4. CASE db.data # NoData
  <2> DEFINE d == db.data
             mine == Range(SubSeq(d.arr, 1, d.num)) \ {NoSlot}
  <2>1. FileTracked(db) /\ SectTracked(db)
    BY <1>2, <1>4 DEF Tracked
  <2>2. mine = MineOf(d)
    BY <1>2, <1>4, <2>1, SoundArray DEF SectTracked
  <2> HIDE DEF mine
  <2>3. db.sizes = IF d.sizeTran THEN {d.size} ELSE {}
    BY <2>1 DEF FileTracked
  <2>4. db.sums = {<<k, d.str[k]>> : k \in {x \in Kinds : d.str[x] # NoStr}}
    BY <2>1 DEF FileTracked, StrNodes
  <2>5. \A n \in db.sectSums : n.slot \in mine /\ db.sect[n.slot].str[n.kind] = n.str
    BY <2>1, <2>2 DEF SectTracked, MemberExact
  <2>6. ASSUME NEW s \in mine, NEW k \in db.sect[s].typ
        PROVE  SectNodes(db, k, db.sect[s].str[k]) # {}
    <3> DEFINE a == [kind |-> k, str |-> db.sect[s].str[k], slot |-> s]
    <3>1. a \in db.sectSums
      BY <2>1, <2>2, <2>6 DEF SectTracked
    <3>2. a.kind = k /\ a.str = db.sect[s].str[k]
      OBVIOUS
    <3>3. a \in SectNodes(db, k, db.sect[s].str[k])
      BY <3>1, <3>2 DEF SectNodes
    <3>4. QED
      BY <3>3
  <2>7. QED
    BY <1>4, <2>3, <2>4, <2>5, <2>6 DEF IndexesExact, mine
<1>5. QED
  BY <1>3, <1>4

LEMMA ImpliesDetach == IInv => DetachExact
<1>1. SUFFICES ASSUME IInv, db.data # NoData,
                      NoSlot \notin Range(SubSeq(db.data.arr, 1, db.data.num)),
                      NEW chosen \in SUBSET (1..db.data.num), ~LaterGap(chosen, db.data.num)
               PROVE  LET m == Detached(db, chosen) IN
                      /\ m.data.num = db.data.num - Cardinality(chosen)
                      /\ \A i \in (1..db.data.num) \ chosen :
                           m.data.arr[i - Cardinality({j \in chosen : j < i})] = db.data.arr[i]
                      /\ m.used = db.used \ {db.data.arr[i] : i \in chosen}
  BY DEF DetachExact
<1> DEFINE d == db.data
           m == Detached(db, chosen)
<1>2. Sound(db)
  BY <1>1 DEF IInv
<1>3. NoSlot \notin MineOf(d)
  BY <1>1, <1>2, SoundArray
<1>4. chosen \subseteq 1 .. d.num /\ \A i \in chosen : d.arr[i] # NoSlot
  BY <1>3 DEF MineOf
<1>5. IsDetached(m, db, chosen)
  BY <1>1, <1>2, <1>4, DetachedFacts
<1> HIDE DEF m
<1>6. \A k \in (1 .. d.num) \ chosen : m.data.arr[LeftOf(chosen, k)] = d.arr[k]
  <2>1. ClosedUp(m, db, chosen)
    BY <1>1, <1>2, <1>3, <1>4, <1>5, DetachedPlaces
  <2>2. QED
    BY <2>1 DEF ClosedUp
<1>7. ASSUME NEW i \in (1 .. d.num) \ chosen
      PROVE  LeftOf(chosen, i) = i - Cardinality({j \in chosen : j < i})
  <2>1. \A j \in chosen : j <= i <=> j < i
    BY <1>4
  <2>2. {j \in chosen : j <= i} = {j \in chosen : j < i}
    BY <2>1
  <2>3. QED
    BY <2>2 DEF LeftOf
<1>8. \A i \in (1 .. d.num) \ chosen :
        m.data.arr[i - Cardinality({j \in chosen : j < i})] = d.arr[i]
  BY <1>6, <1>7
<1>9. /\ m.data.num = d.num - Cardinality(chosen)
      /\ m.used = db.used \ {d.arr[i] : i \in chosen}
  BY <1>5 DEF IsDetached, OutOf
<1>10. QED
  BY <1>8, <1>9 DEF m

\* The C structures hold what they can hold; the array of sections has num used
\* and free free places, and a slot that is not used is wiped, after any
\* sequence of fp, attach, detach and edit.
THEOREM TypeCorrect == Spec => []TypeOK
BY Invariance, ImpliesType, PTL

\* A file that fp reads as it was when its size was taken is fingerprinted
\* exactly as long as nothing else is done to its data, whatever its size.
THEOREM FingerprintIsExact == Spec => []FingerprintExact
<1>1. IInv => FingerprintExact
  BY DEF IInv
<1>2. QED
  BY <1>1, Invariance, PTL

\* What verify_entry accepts load_file accepts, but for the places of Disagree,
\* where it does not.
THEOREM VerifiedDataLoads == Spec => []VerifiedLoads
BY Invariance, ImpliesVerified, PTL

\* The indexes lead from a string or a size to exactly the data that carry it,
\* until one of the commands that are known to leave a string behind.
THEOREM IndexesAreExact == Spec => []IndexesExact
BY Invariance, ImpliesIndexes, PTL

\* The collapse loop of detach closes up the remaining sections in their order
\* and gives back the chosen ones, for any choice without a later gap that has
\* sections behind it, in every state that commands lead to.
THEOREM DetachIsExact == Spec => []DetachExact
BY Invariance, ImpliesDetach, PTL
=============================================================================
