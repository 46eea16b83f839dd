--------------------------- MODULE SectionLayout ---------------------------
(***************************************************************************)
(* The arithmetic of fingerprint_file: into how many sections a file of a   *)
(* given size is split, where they lie, and where samples (extracts) are     *)
(* taken from the file and from each section.                                *)
(***************************************************************************)
EXTENDS Integers, Sequences

CONSTANTS
  SmallSize,      \* SECT_SIZE_SMALL: below it a file is one section
  ClassSize,      \* file_size_class_arr
  IdealNum,       \* sect_ideal_num_arr
  FallbackNum,    \* FALLBACK_SECT_NUM: above the last class
  ExtractMaxNum,  \* EXTRACT_MAX_NUM
  ExtractSizeMax, \* EXTRACT_SIZE_MAX
  LeakPercent     \* EXTRACT_LEAK_MAX_PERCENT

Classes == 1..Len(ClassSize)
LastClass == ClassSize[Len(ClassSize)]

\* The least size that lies in a class.
ClassFloor(k) == IF k = 1 THEN SmallSize ELSE ClassSize[k - 1]

\* The tables of the code satisfy these; the last two conjuncts are what makes
\* the rounded up section size leave at least one byte for the last section.
ASSUME LayoutAssumption ==
  /\ SmallSize \in Nat \ {0}
  /\ ClassSize \in Seq(Nat) /\ ClassSize # <<>>
  /\ \A k \in Classes : ClassFloor(k) < ClassSize[k]
  /\ IdealNum \in [Classes -> Nat \ {0}]
  /\ FallbackNum \in Nat \ {0}
  /\ ExtractMaxNum \in Nat /\ ExtractSizeMax \in Nat \ {0} /\ LeakPercent \in 0 .. 100
  /\ \A k \in Classes : IdealNum[k] * (IdealNum[k] - 1) <= ClassFloor(k)
  /\ FallbackNum * (FallbackNum - 1) <= LastClass

\* "search backwards": the last class found is the first that the size lies in.
InClass(size, k) == size < ClassSize[k] /\ \A j \in 1..(k - 1) : ClassSize[j] <= size

\* sect_num; 0 for a file of exactly the size of the last class, which the code
\* refuses with LOGIC_ERROR.
SectNum(size) ==
  IF size < SmallSize THEN 1
  ELSE IF size > LastClass THEN FallbackNum
  ELSE IF size = LastClass THEN 0
  ELSE IdealNum[CHOOSE k \in Classes : InClass(size, k)]

\* Plausible slip: the division is not rounded up.
MutNormSize(size) == size \div SectNum(size)

NormSize(size) == (size + SectNum(size) - 1) \div SectNum(size)

LastSize(size) ==
  IF size % NormSize(size) = 0 THEN NormSize(size) ELSE size % NormSize(size)

\* Sections are numbered from 0; end_pos is the position of the last byte.
SectSize(size, i) == IF i < SectNum(size) - 1 THEN NormSize(size) ELSE LastSize(size)
SectStart(size, i) == i * NormSize(size)
SectEnd(size, i) == SectStart(size, i) + SectSize(size, i) - 1

AtMost(a, b) == IF a < b THEN a ELSE b

\* How many samples of which length are taken from len bytes, at most
\* LeakPercent of them.
Sampling(len) ==
  LET num == IF len < ExtractSizeMax THEN 1 ELSE AtMost(len \div ExtractSizeMax, ExtractMaxNum)
      each == AtMost(len, ExtractSizeMax)
  IN  IF (100 * num * each) \div len > LeakPercent
      THEN [num |-> AtMost((len * LeakPercent) \div 100, ExtractMaxNum), len |-> 1]
      ELSE [num |-> num, len |-> each]

\* Plausible slip: the samples start one step too far.
MutSamplePos(len, j) == (j + 1) * (len \div Sampling(len).num)

\* The distance of the j-th sample, from 0, from the first byte.
SamplePos(len, j) == j * (len \div Sampling(len).num)
=============================================================================
