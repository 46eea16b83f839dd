------------------------- MODULE Layer2ArrayProofs -------------------------
(***************************************************************************)
(* Proofs about Layer2Array for every array size, growth step and number    *)
(* of layer 1 arrays: its safety, and that it implements the store of       *)
(* ObjectStore.                                                             *)
(***************************************************************************)
EXTENDS Layer2Array, TLAPS

\* Every live object carries the number of the slot it is in.
Numbered ==
  \A a \in L1Arrays : \A s \in usage_map[a] :
    arr[a][s].obj_arr_index = Index(a, s)

\* The array has grown by whole chunks, and the chunks are those the teardown
\* loop will visit.
Chunked ==
  /\ status # "deleted" => /\ l1_num >= InitSize
                           /\ (l1_num - InitSize) % GrowSize = 0
  /\ ChunksAccounted

\* The inductive invariant.
IInv == TypeOK /\ MapExact /\ Numbered /\ Chunked

-----------------------------------------------------------------------------
(* Arithmetic of indexes                                                   *)

\* Splitting the index of a slot gives the slot back (add against get, del).
LEMMA IndexSplits ==
  ASSUME NEW a \in Nat, NEW s \in Slots
  PROVE  /\ Index(a, s) \in Nat
         /\ L2Index(Index(a, s)) = a
         /\ L1Index(Index(a, s)) = s
<1>1. L1Size \in Nat \ {0}
  BY SizeAssumption
<1>2. s \in 0 .. L1Size - 1
  BY DEF Slots
<1>3. a * L1Size + s \in Nat
  BY <1>1, <1>2
<1>4. (a * L1Size + s) \div L1Size = a
  BY <1>1, <1>2
<1>5. (a * L1Size + s) % L1Size = s
  BY <1>1, <1>2
<1>6. QED
  BY <1>3, <1>4, <1>5 DEF Index, L2Index, L1Index

\* Any index is the index of the slot it splits into.
LEMMA SplitIndexes ==
  ASSUME NEW i \in Nat
  PROVE  /\ L2Index(i) \in Nat
         /\ L1Index(i) \in Slots
         /\ Index(L2Index(i), L1Index(i)) = i
<1>1. L1Size \in Nat \ {0}
  BY SizeAssumption
<1>2. /\ i \div L1Size \in Nat
      /\ i % L1Size \in 0 .. L1Size - 1
      /\ (i \div L1Size) * L1Size + (i % L1Size) = i
  BY <1>1
<1>3. QED
  BY <1>2 DEF Index, L2Index, L1Index, Slots

\* The slots of a later array have the larger indexes.
LEMMA IndexOrder ==
  ASSUME NEW a \in Nat, NEW b \in Nat, NEW s \in Slots, NEW t \in Slots,
         a < b \/ (a = b /\ s <= t)
  PROVE  Index(a, s) <= Index(b, t)
<1>1. L1Size \in Nat \ {0}
  BY SizeAssumption
<1>2. s \in 0 .. L1Size - 1 /\ t \in 0 .. L1Size - 1
  BY DEF Slots
<1>3. CASE a < b
  BY <1>1, <1>2, <1>3 DEF Index
<1>4. CASE a = b /\ s <= t
  <2>1. a * L1Size \in Nat
    BY <1>1
  <2>2. QED
    BY <1>1, <1>2, <1>4, <2>1 DEF Index
<1>5. QED
  BY <1>3, <1>4

\* The slots of the arrays below the bound have their indexes in Handles.
LEMMA IndexBounded ==
  ASSUME NEW a \in Nat, a < MaxL1, NEW s \in Slots
  PROVE  Index(a, s) \in Handles
<1>1. L1Size \in Nat \ {0} /\ MaxL1 \in Nat
  BY SizeAssumption
<1>2. s \in 0 .. L1Size - 1
  BY DEF Slots
<1>3. (a + 1) * L1Size <= MaxL1 * L1Size
  BY <1>1
<1>4. (a + 1) * L1Size = a * L1Size + L1Size
  BY <1>1
<1>5. a * L1Size \in Nat /\ MaxL1 * L1Size \in Nat
  BY <1>1
<1>6. QED
  BY <1>1, <1>2, <1>3, <1>4, <1>5 DEF Index, Handles

\* One growth adds exactly one chunk to those the teardown loop visits.
LEMMA FreedChunksGrow ==
  ASSUME NEW n \in Nat, n >= InitSize, (n - InitSize) % GrowSize = 0
  PROVE  /\ (n + GrowSize - InitSize) % GrowSize = 0
         /\ FreedChunks(n + GrowSize) = FreedChunks(n) \cup {n}
<1>1. InitSize \in Nat \ {0} /\ GrowSize \in Nat \ {0}
  BY SizeAssumption
<1>2. PICK k \in Nat : n - InitSize = k * GrowSize
  <2>1. ASSUME NEW d \in Nat, d % GrowSize = 0
        PROVE  \E k \in Nat : d = k * GrowSize
    <3>1. d \div GrowSize \in Nat /\ d = (d \div GrowSize) * GrowSize + (d % GrowSize)
      BY <1>1
    <3>2. d = (d \div GrowSize) * GrowSize
      BY <1>1, <2>1, <3>1
    <3>3. QED
      BY <3>1, <3>2
  <2>2. n - InitSize \in Nat
    BY <1>1
  <2>3. QED
    BY <2>1, <2>2
<1>3. (n + GrowSize - InitSize) % GrowSize = 0
  <2>1. n + GrowSize - InitSize = (k + 1) * GrowSize + 0
    BY <1>1, <1>2
  <2>2. ((k + 1) * GrowSize + 0) % GrowSize = 0
    BY <1>1
  <2>3. QED
    BY <2>1, <2>2
<1>4. ASSUME NEW i \in n .. n + GrowSize - 1
      PROVE  (i - InitSize) % GrowSize = 0 <=> i = n
  <2>1. PICK j \in 0 .. GrowSize - 1 : i = n + j
    <3>1. i - n \in 0 .. GrowSize - 1
      BY <1>1
    <3>2. QED
      BY <3>1
  <2>2. i - InitSize = k * GrowSize + j
    BY <1>1, <1>2, <2>1
  <2>3. (k * GrowSize + j) % GrowSize = j
    BY <1>1
  <2>4. QED
    BY <1>1, <2>1, <2>2, <2>3
<1>5. ASSUME NEW i
      PROVE  i \in FreedChunks(n + GrowSize) <=> i \in FreedChunks(n) \cup {n}
  <2>1. CASE i \in 0 .. n - 1
    BY <1>1, <2>1 DEF FreedChunks
  <2>2. CASE i \in n .. n + GrowSize - 1
    BY <1>1, <1>4, <2>2 DEF FreedChunks
  <2>3. CASE i \notin 0 .. n + GrowSize - 1
    BY <1>1, <2>3 DEF FreedChunks
  <2>4. QED
    BY <1>1, <2>1, <2>2, <2>3
<1>6. QED
  BY <1>3, <1>5

-----------------------------------------------------------------------------
(* The inductive invariant                                                 *)

\* It holds when the array has just been made.
LEMMA InitIInv == Init => IInv
<1> SUFFICES ASSUME Init PROVE IInv
  OBVIOUS
<1>1. /\ InitSize \in Nat \ {0} /\ GrowSize \in Nat \ {0}
      /\ L1Size \in Nat \ {0} /\ MaxL1 \in Nat /\ InitSize <= MaxL1
  BY SizeAssumption
<1>2. FreshL1 \in [Slots -> Object]
  BY DEF FreshL1, Object, Blank
<1>3. TypeOK
  BY <1>1, <1>2 DEF Init, TypeOK, L1Arrays
<1>4. MapExact
  BY <1>1 DEF Init, MapExact, L1Arrays, Slots
<1>5. Numbered
  BY DEF Init, Numbered
<1>6. Chunked
  <2>1. (InitSize - InitSize) % GrowSize = 0
    BY <1>1
  <2>2. FreedChunks(InitSize) = {0}
    BY <1>1 DEF FreedChunks
  <2>3. QED
    BY <1>1, <2>1, <2>2 DEF Init, Chunked, ChunksAccounted
<1>7. QED
  BY <1>3, <1>4, <1>5, <1>6 DEF IInv

\* What Place does to the bitmaps and the objects of an array of n layer 1
\* arrays, before (AddInPlace) or after (AddAfterGrowth) it has grown.
LEMMA PlacePreserves ==
  ASSUME NEW n \in 0 .. MaxL1, l1_num' = n,
         NEW usage \in [0 .. n - 1 -> SUBSET Slots],
         NEW full \in SUBSET (0 .. n - 1),
         NEW objs \in [0 .. n - 1 -> [Slots -> Object]],
         \A a \in 0 .. n - 1 : a \in full <=> usage[a] = Slots,
         \A a \in 0 .. n - 1 : \A s \in usage[a] :
            objs[a][s].obj_arr_index = Index(a, s),
         Place(n, usage, full, objs)
  PROVE  /\ usage_map' \in [L1Arrays' -> SUBSET Slots]
         /\ l1_arr_map' \in SUBSET L1Arrays'
         /\ arr' \in [L1Arrays' -> [Slots -> Object]]
         /\ MapExact'
         /\ Numbered'
<1>1. PICK a \in 0 .. n - 1, s \in Slots :
        /\ s \notin usage[a]
        /\ a \notin full
        /\ usage_map' = [usage EXCEPT ![a] = @ \cup {s}]
        /\ l1_arr_map' = IF usage[a] \cup {s} = Slots THEN full \cup {a} ELSE full
        /\ arr' = [objs EXCEPT ![a][s] = [obj_arr_index |-> Index(a, s),
                                          val |-> Wiped]]
  BY DEF Place, IsFirstZero
<1>2. L1Arrays' = 0 .. n - 1
  BY DEF L1Arrays
<1>3. [obj_arr_index |-> Index(a, s), val |-> Wiped] \in Object
  BY IndexSplits, SizeAssumption DEF Object
<1>4. /\ usage_map' \in [L1Arrays' -> SUBSET Slots]
      /\ l1_arr_map' \in SUBSET L1Arrays'
  BY <1>1, <1>2
<1>5. arr' \in [L1Arrays' -> [Slots -> Object]]
  BY <1>1, <1>2, <1>3
<1>6. MapExact'
  <2> SUFFICES ASSUME NEW b \in 0 .. n - 1
               PROVE  b \in l1_arr_map' <=> usage_map'[b] = Slots
    BY <1>2 DEF MapExact
  <2>1. CASE b = a
    BY <1>1, <2>1
  <2>2. CASE b # a
    BY <1>1, <2>2
  <2>3. QED
    BY <2>1, <2>2
<1>7. Numbered'
  <2> SUFFICES ASSUME NEW b \in 0 .. n - 1, NEW t \in usage_map'[b]
               PROVE  arr'[b][t].obj_arr_index = Index(b, t)
    BY <1>2 DEF Numbered
  <2>1. CASE b = a /\ t = s
    BY <1>1, <2>1
  <2>2. CASE ~(b = a /\ t = s)
    <3>1. t \in usage[b]
      BY <1>1, <2>2
    <3>2. arr'[b][t] = objs[b][t]
      BY <1>1, <2>2
    <3>3. QED
      BY <3>1, <3>2
  <2>3. QED
    BY <2>1, <2>2
<1>8. QED
  BY <1>4, <1>5, <1>6, <1>7

\* Every step of the array keeps it.
LEMMA StepIInv == IInv /\ [Next]_vars => IInv'
<1> SUFFICES ASSUME IInv, [Next]_vars PROVE IInv'
  OBVIOUS
<1>1. /\ InitSize \in Nat \ {0} /\ GrowSize \in Nat \ {0}
      /\ L1Size \in Nat \ {0} /\ MaxL1 \in Nat
  BY SizeAssumption
<1>2. TypeOK /\ MapExact /\ Numbered /\ Chunked
  BY DEF IInv
<1>3. CASE AddInPlace
  <2>1. /\ l1_num' = l1_num
        /\ Place(l1_num, usage_map, l1_arr_map, arr)
        /\ heap' = heap /\ status' = status
    BY <1>3 DEF AddInPlace
  <2>2. /\ usage_map' \in [L1Arrays' -> SUBSET Slots]
        /\ l1_arr_map' \in SUBSET L1Arrays'
        /\ arr' \in [L1Arrays' -> [Slots -> Object]]
        /\ MapExact' /\ Numbered'
    BY <1>2, <2>1, PlacePreserves DEF TypeOK, MapExact, Numbered, L1Arrays
  <2>3. TypeOK'
    BY <1>2, <2>1, <2>2 DEF TypeOK
  <2>4. Chunked'
    BY <1>2, <2>1 DEF Chunked, ChunksAccounted
  <2>5. QED
    BY <2>2, <2>3, <2>4 DEF IInv
<1>4. CASE AddAfterGrowth
  <2> DEFINE n == l1_num + GrowSize
             usage == [a \in 0 .. n - 1 |-> IF a < l1_num THEN usage_map[a] ELSE {}]
             objs == [a \in 0 .. n - 1 |-> IF a < l1_num THEN arr[a] ELSE FreshL1]
  <2>1. /\ status = "live" /\ status' = "live"
        /\ l1_num' = n /\ n \in 0 .. MaxL1
        /\ heap' = heap \cup {l1_num}
        /\ l1_arr_map = L1Arrays
        /\ Place(n, usage, l1_arr_map, objs)
    BY <1>1, <1>2, <1>4 DEF AddAfterGrowth, TypeOK
  <2>2. l1_num \in Nat /\ l1_num <= n
    BY <1>1, <1>2 DEF TypeOK
  <2>3. usage \in [0 .. n - 1 -> SUBSET Slots]
    BY <1>1, <1>2, <2>2 DEF TypeOK, L1Arrays
  <2>4. FreshL1 \in [Slots -> Object]
    BY DEF FreshL1, Object, Blank
  <2>5. objs \in [0 .. n - 1 -> [Slots -> Object]]
    BY <1>1, <1>2, <2>2, <2>4 DEF TypeOK, L1Arrays
  <2>6. \A a \in 0 .. n - 1 : a \in l1_arr_map <=> usage[a] = Slots
    <3>1. Slots # {}
      BY <1>1 DEF Slots
    <3>2. QED
      BY <1>1, <1>2, <2>1, <2>2, <3>1 DEF MapExact, L1Arrays
  <2>7. \A a \in 0 .. n - 1 : \A s \in usage[a] :
           objs[a][s].obj_arr_index = Index(a, s)
    BY <1>1, <1>2, <2>2 DEF Numbered, L1Arrays
  <2>8. l1_arr_map \in SUBSET (0 .. n - 1)
    BY <1>1, <2>1, <2>2 DEF L1Arrays
  <2>9. /\ usage_map' \in [L1Arrays' -> SUBSET Slots]
        /\ l1_arr_map' \in SUBSET L1Arrays'
        /\ arr' \in [L1Arrays' -> [Slots -> Object]]
        /\ MapExact' /\ Numbered'
    <3> HIDE DEF n, usage, objs
    <3>1. QED
      BY <2>1, <2>3, <2>5, <2>6, <2>7, <2>8, PlacePreserves
  <2>10. TypeOK'
    BY <1>1, <1>2, <2>1, <2>2, <2>9 DEF TypeOK
  <2>11. Chunked'
    BY <1>1, <1>2, <2>1, <2>2, FreedChunksGrow DEF Chunked, ChunksAccounted
  <2>12. QED
    BY <2>9, <2>10, <2>11 DEF IInv
<1>5. CASE AddMallocFail
  BY <1>2, <1>5 DEF AddMallocFail, IInv, TypeOK, MapExact, Numbered, Chunked, ChunksAccounted, L1Arrays
<1>6. ASSUME NEW a \in L1Arrays, NEW s \in Slots, NEW v \in Values, Fill(a, s, v)
      PROVE  IInv'
  <2>1. /\ s \in usage_map[a]
        /\ arr' = [arr EXCEPT ![a][s].val = v]
        /\ l1_num' = l1_num /\ usage_map' = usage_map
        /\ l1_arr_map' = l1_arr_map /\ heap' = heap /\ status' = status
    BY <1>6 DEF Fill
  <2>2. arr' \in [L1Arrays -> [Slots -> Object]]
    <3>1. arr[a][s] \in Object
      BY <1>2 DEF TypeOK
    <3> DEFINE o == [arr[a][s] EXCEPT !.val = v]
    <3>2. o \in Object
      BY <3>1 DEF Object
    <3>3. arr' = [arr EXCEPT ![a] = [arr[a] EXCEPT ![s] = o]]
      BY <1>2, <2>1 DEF TypeOK
    <3> HIDE DEF o
    <3>4. [arr[a] EXCEPT ![s] = o] \in [Slots -> Object]
      BY <1>2, <3>2 DEF TypeOK
    <3>5. QED
      BY <1>2, <3>3, <3>4 DEF TypeOK
  <2>3. TypeOK'
    BY <1>2, <2>1, <2>2 DEF TypeOK, L1Arrays
  <2>4. \A b \in L1Arrays, t \in Slots :
           arr'[b][t].obj_arr_index = arr[b][t].obj_arr_index
    BY <1>2, <2>1 DEF TypeOK, Object
  <2>5. Numbered'
    BY <1>2, <2>1, <2>4 DEF Numbered, TypeOK, L1Arrays
  <2>6. MapExact' /\ Chunked'
    BY <1>2, <2>1 DEF MapExact, Chunked, ChunksAccounted, L1Arrays
  <2>7. QED
    BY <2>3, <2>5, <2>6 DEF IInv
<1>7. ASSUME NEW i \in Handles, Del(i)
      PROVE  IInv'
  <2> DEFINE a == L2Index(i)
             s == L1Index(i)
  <2>1. a \in L1Arrays /\ s \in Slots
    <3>1. i \in Nat
      BY DEF Handles
    <3>2. QED
      BY <1>1, <1>2, <1>7, <3>1, SplitIndexes DEF Del, L1Arrays, TypeOK
  <2>2. /\ s \in usage_map[a]
        /\ arr' = [arr EXCEPT ![a][s] = Blank]
        /\ usage_map' = [usage_map EXCEPT ![a] = @ \ {s}]
        /\ l1_arr_map' = l1_arr_map \ {a}
        /\ l1_num' = l1_num /\ heap' = heap /\ status' = status
    BY <1>7 DEF Del
  <2> HIDE DEF a, s
  <2>3. Blank \in Object
    BY DEF Blank, Object
  <2>4. TypeOK'
    BY <1>2, <2>1, <2>2, <2>3 DEF TypeOK, L1Arrays
  <2>5. MapExact'
    <3> SUFFICES ASSUME NEW b \in L1Arrays
                 PROVE  b \in l1_arr_map' <=> usage_map'[b] = Slots
      BY <2>2 DEF MapExact, L1Arrays
    <3>1. CASE b = a
      BY <1>2, <2>1, <2>2, <3>1 DEF TypeOK
    <3>2. CASE b # a
      BY <1>2, <2>1, <2>2, <3>2 DEF TypeOK, MapExact
    <3>3. QED
      BY <3>1, <3>2
  <2>6. Numbered'
    <3> SUFFICES ASSUME NEW b \in L1Arrays, NEW t \in usage_map'[b]
                 PROVE  arr'[b][t].obj_arr_index = Index(b, t)
      BY <2>2 DEF Numbered, L1Arrays
    <3>1. t \in usage_map[b] /\ ~(b = a /\ t = s)
      BY <1>2, <2>1, <2>2 DEF TypeOK
    <3>2. arr'[b][t] = arr[b][t]
      BY <1>2, <2>1, <2>2, <3>1 DEF TypeOK
    <3>3. QED
      BY <1>2, <3>1, <3>2 DEF Numbered
  <2>7. Chunked'
    BY <1>2, <2>2 DEF Chunked, ChunksAccounted
  <2>8. QED
    BY <2>4, <2>5, <2>6, <2>7 DEF IInv
<1>8. CASE DelAll
  <2>1. L1Arrays' = {}
    BY <1>8 DEF DelAll, L1Arrays
  <2>2. TypeOK'
    <3>1. usage_map' \in [L1Arrays' -> SUBSET Slots]
      BY <1>8, <2>1 DEF DelAll
    <3>2. arr' \in [L1Arrays' -> [Slots -> Object]]
      BY <1>8, <2>1 DEF DelAll
    <3>3. l1_num' \in 0 .. MaxL1 /\ l1_arr_map' \in SUBSET L1Arrays'
      BY <1>1, <1>8 DEF DelAll
    <3>4. heap' \in SUBSET (0 .. MaxL1)
      BY <1>2, <1>8 DEF DelAll, TypeOK
    <3>5. status' \in {"live", "dangling", "astray", "deleted"}
      BY <1>8 DEF DelAll
    <3>6. QED
      BY <3>1, <3>2, <3>3, <3>4, <3>5 DEF TypeOK
  <2>3. MapExact' /\ Numbered' /\ Chunked'
    BY <1>2, <1>8, <2>1 DEF DelAll, MapExact, Numbered, Chunked, ChunksAccounted
  <2>4. QED
    BY <2>2, <2>3 DEF IInv
<1>9. CASE AddMapFail
  <2>1. /\ status = "live" /\ status' = "astray"
        /\ heap' = heap \cup {l1_num}
        /\ l1_num' = l1_num /\ usage_map' = usage_map
        /\ l1_arr_map' = l1_arr_map /\ arr' = arr
    BY <1>9 DEF AddMapFail
  <2>2. TypeOK' /\ MapExact' /\ Numbered'
    BY <1>1, <1>2, <2>1 DEF TypeOK, MapExact, Numbered, L1Arrays
  <2>3. l1_num \notin FreedChunks(l1_num)
    BY <1>1, <1>2, <2>1 DEF TypeOK, Chunked, FreedChunks
  <2>4. Chunked'
    BY <1>2, <2>1, <2>3 DEF Chunked, ChunksAccounted
  <2>5. QED
    BY <2>2, <2>4 DEF IInv
<1>10. CASE UNCHANGED vars
  BY <1>2, <1>10 DEF vars, IInv, TypeOK, MapExact, Numbered, Chunked, ChunksAccounted, L1Arrays
<1>11. QED
  BY <1>3, <1>4, <1>5, <1>6, <1>7, <1>8, <1>9, <1>10 DEF Next

\* The invariant holds throughout.
LEMMA Invariance == Spec => []IInv
<1>1. QED
  BY InitIInv, StepIInv, PTL DEF Spec

-----------------------------------------------------------------------------
(* The properties                                                          *)

\* For every size of array, the C structures hold what TypeOK says.
THEOREM TypeCorrect == Spec => []TypeOK
<1>1. IInv => TypeOK
  BY DEF IInv
<1>2. QED
  BY <1>1, Invariance, PTL

\* For every size of array, the bitmap of full layer 1 arrays is exact after
\* any sequence of add, del and growth.
THEOREM MapIsExact == Spec => []MapExact
<1>1. IInv => MapExact
  BY DEF IInv
<1>2. QED
  BY <1>1, Invariance, PTL

\* For every size of array, the obj_arr_index stored in a live object leads
\* get and del back to the slot of that object.
THEOREM IndexesRoundTrip == Spec => []IndexRoundTrip
<1>1. IInv => IndexRoundTrip
  <2> SUFFICES ASSUME IInv, NEW a \in L1Arrays, NEW s \in usage_map[a]
               PROVE  Get(arr[a][s].obj_arr_index) = <<a, s>>
    BY DEF IndexRoundTrip
  <2>1. a \in Nat /\ a < l1_num /\ s \in Slots /\ l1_num \in Nat
    BY SizeAssumption DEF IInv, TypeOK, L1Arrays
  <2>2. arr[a][s].obj_arr_index = Index(a, s)
    BY DEF IInv, Numbered
  <2>3. L2Index(Index(a, s)) = a /\ L1Index(Index(a, s)) = s
    BY <2>1, IndexSplits
  <2>4. QED
    BY <2>1, <2>2, <2>3 DEF Get
<1>2. QED
  BY <1>1, Invariance, PTL

\* For every chunk size, the teardown loop frees every chunk once and nothing
\* that was not allocated, and the growth whose bitmap cannot be grown loses the
\* chunk it allocated and no other.
THEOREM TeardownIsExact == Spec => []ChunksAccounted
<1>1. IInv => ChunksAccounted
  BY DEF IInv, Chunked
<1>2. QED
  BY <1>1, Invariance, PTL

-----------------------------------------------------------------------------
\* An index and its two parts determine each other.
LEMMA IndexIs ==
  ASSUME NEW i \in Handles, NEW a \in Nat, NEW s \in Slots
  PROVE  i = Index(a, s) <=> L2Index(i) = a /\ L1Index(i) = s
<1>1. i \in Nat
  BY DEF Handles
<1>2. QED
  BY <1>1, IndexSplits, SplitIndexes

\* The layer 1 array an index names is one the bound allows.
LEMMA HandleBounded ==
  ASSUME NEW i \in Handles
  PROVE  /\ i \in Nat
         /\ L2Index(i) \in 0 .. MaxL1 - 1
         /\ L1Index(i) \in Slots
<1>1. i \in Nat /\ i < MaxL1 * L1Size /\ L1Size \in Nat \ {0} /\ MaxL1 \in Nat
  BY SizeAssumption DEF Handles
<1>2. /\ L2Index(i) \in Nat /\ L1Index(i) \in 0 .. L1Size - 1
      /\ i = L2Index(i) * L1Size + L1Index(i)
  BY <1>1, SplitIndexes DEF Slots, Index
<1>3. ASSUME NEW a \in Nat, a * L1Size < MaxL1 * L1Size
      PROVE  a < MaxL1
  BY <1>1, <1>3
<1>4. L2Index(i) * L1Size \in Nat /\ L2Index(i) * L1Size <= i
  BY <1>1, <1>2
<1>5. L2Index(i) * L1Size < MaxL1 * L1Size
  <2>1. MaxL1 * L1Size \in Nat
    BY <1>1
  <2>2. QED
    BY <1>1, <1>4, <2>1
<1>6. L2Index(i) < MaxL1
  BY <1>2, <1>3, <1>5
<1>7. QED
  BY <1>1, <1>2, <1>6 DEF Slots

-----------------------------------------------------------------------------
(* The steps                                                               *)

\* The tail of add, before or after a growth, is the allocation of the store: the
\* slot found is the one of the least index that names nothing.
LEMMA PlaceAllocates ==
  ASSUME NEW n \in 0 .. MaxL1, l1_num' = n,
         NEW usage \in [0 .. n - 1 -> SUBSET Slots],
         NEW full \in SUBSET (0 .. n - 1),
         NEW objs \in [0 .. n - 1 -> [Slots -> Object]],
         \A a \in 0 .. n - 1 : a \in full <=> usage[a] = Slots,
         UsedHandles = {i \in Handles : L2Index(i) < n /\ L1Index(i) \in usage[L2Index(i)]},
         Contents = [i \in UsedHandles |-> objs[L2Index(i)][L1Index(i)].val],
         status = "live", status' = "live",
         Place(n, usage, full, objs)
  PROVE  Store!Alloc
<1>1. PICK a \in 0 .. n - 1, s \in Slots :
        /\ IsFirstZero(a, full, n)
        /\ IsFirstZero(s, usage[a], L1Size)
        /\ usage_map' = [usage EXCEPT ![a] = @ \cup {s}]
        /\ arr' = [objs EXCEPT ![a][s] = [obj_arr_index |-> Index(a, s),
                                          val |-> Wiped]]
  BY DEF Place
<1> DEFINE k == Index(a, s)
<1>2. MaxL1 \in Nat /\ L1Size \in Nat \ {0} /\ a \in Nat /\ a < MaxL1
  BY SizeAssumption
<1>3. k \in Handles /\ L2Index(k) = a /\ L1Index(k) = s
  BY <1>2, IndexBounded, IndexSplits
<1>4. \A i \in Handles : i = k <=> L2Index(i) = a /\ L1Index(i) = s
  BY <1>2, IndexIs
<1> HIDE DEF k
<1>5. s \notin usage[a] /\ a \notin full
  BY <1>1 DEF IsFirstZero
<1>6. k \notin UsedHandles
  BY <1>3, <1>5
<1>7. ASSUME NEW j \in Handles \ UsedHandles
      PROVE  k <= j
  <2> DEFINE b == L2Index(j)
             t == L1Index(j)
  <2>1. b \in Nat /\ t \in Slots /\ j = Index(b, t)
    BY HandleBounded, SplitIndexes, <1>2
  <2>2. ~ (b < n /\ t \in usage[b])
    OBVIOUS
  <2> HIDE DEF b, t
  <2>3. a < b \/ (a = b /\ s <= t)
    <3>1. CASE b >= n
      BY <1>2, <2>1, <3>1
    <3>2. CASE b < n /\ t \notin usage[b]
      <4>1. b \in 0 .. n - 1 /\ b \notin full
        BY <2>1, <3>2
      <4>2. a <= b
        BY <1>1, <4>1 DEF IsFirstZero
      <4>3. a = b => s <= t
        BY <1>1, <2>1, <3>2 DEF IsFirstZero, Slots
      <4>4. QED
        BY <1>2, <2>1, <4>2, <4>3
    <3>3. QED
      BY <2>1, <2>2, <3>1, <3>2
  <2>4. QED
    BY <1>2, <2>1, <2>3, IndexOrder DEF k
<1>8. ASSUME NEW i \in Handles
      PROVE  i \in UsedHandles' <=> i \in UsedHandles \cup {k}
  <2>1. i \in UsedHandles' <=> L2Index(i) < n /\ L1Index(i) \in usage_map'[L2Index(i)]
    BY DEF UsedHandles
  <2>2. L2Index(i) \in Nat /\ L1Index(i) \in Slots
    BY HandleBounded, <1>2
  <2>3. CASE L2Index(i) >= n
    BY <1>2, <1>3, <2>1, <2>2, <2>3
  <2>4. CASE L2Index(i) < n /\ L2Index(i) # a
    BY <1>1, <1>3, <2>1, <2>2, <2>4
  <2>5. CASE L2Index(i) = a
    BY <1>1, <1>4, <2>1, <2>2, <2>5
  <2>6. QED
    BY <2>2, <2>3, <2>4, <2>5
<1>9. UsedHandles' = UsedHandles \cup {k}
  BY <1>3, <1>8 DEF UsedHandles
<1>10. ASSUME NEW i \in UsedHandles \cup {k}
       PROVE  arr'[L2Index(i)][L1Index(i)].val
                = IF i = k THEN Wiped ELSE Contents[i]
  <2>1. CASE i = k
    BY <1>1, <1>3, <2>1
  <2>2. CASE i # k
    <3>1. i \in Handles /\ L2Index(i) < n /\ Contents[i] = objs[L2Index(i)][L1Index(i)].val
      BY <2>2
    <3>2. L2Index(i) \in 0 .. n - 1 /\ L1Index(i) \in Slots
      BY <1>2, <3>1, HandleBounded
    <3>3. ~ (L2Index(i) = a /\ L1Index(i) = s)
      BY <1>4, <2>2, <3>1
    <3>4. arr'[L2Index(i)][L1Index(i)] = objs[L2Index(i)][L1Index(i)]
      BY <1>1, <3>2, <3>3
    <3>5. QED
      BY <2>2, <3>1, <3>4
  <2>3. QED
    BY <2>1, <2>2
<1>11. DOMAIN Contents = UsedHandles
  BY DEF Contents
<1>12. Contents' = [j \in UsedHandles \cup {k} |-> IF j = k THEN Wiped ELSE Contents[j]]
  BY <1>9, <1>10 DEF Contents
<1>13. Phase = "open" /\ Phase' = "open"
  BY DEF Phase
<1>14. QED
  BY <1>3, <1>6, <1>7, <1>11, <1>12, <1>13 DEF Store!Alloc

\* add without a growth.
LEMMA AddInPlaceAllocates == IInv /\ AddInPlace => Store!Alloc
<1> SUFFICES ASSUME IInv, AddInPlace PROVE Store!Alloc
  OBVIOUS
<1>1. /\ l1_num' = l1_num /\ status = "live" /\ status' = "live"
      /\ Place(l1_num, usage_map, l1_arr_map, arr)
  BY DEF AddInPlace
<1>2. /\ l1_num \in 0 .. MaxL1
      /\ usage_map \in [0 .. l1_num - 1 -> SUBSET Slots]
      /\ l1_arr_map \in SUBSET (0 .. l1_num - 1)
      /\ arr \in [0 .. l1_num - 1 -> [Slots -> Object]]
      /\ \A a \in 0 .. l1_num - 1 : a \in l1_arr_map <=> usage_map[a] = Slots
  BY DEF IInv, TypeOK, MapExact, L1Arrays
<1>3. UsedHandles = {i \in Handles : L2Index(i) < l1_num
                                       /\ L1Index(i) \in usage_map[L2Index(i)]}
  BY DEF UsedHandles
<1>4. Contents = [i \in UsedHandles |-> arr[L2Index(i)][L1Index(i)].val]
  BY DEF Contents
<1>5. QED
  BY <1>1, <1>2, <1>3, <1>4, PlaceAllocates

\* add with a growth: the new slots name nothing yet and come after the old ones.
LEMMA AddAfterGrowthAllocates == IInv /\ AddAfterGrowth => Store!Alloc
<1> SUFFICES ASSUME IInv, AddAfterGrowth PROVE Store!Alloc
  OBVIOUS
<1> DEFINE n == l1_num + GrowSize
           usage == [a \in 0 .. n - 1 |-> IF a < l1_num THEN usage_map[a] ELSE {}]
           objs == [a \in 0 .. n - 1 |-> IF a < l1_num THEN arr[a] ELSE FreshL1]
<1>1. /\ InitSize \in Nat \ {0} /\ GrowSize \in Nat \ {0}
      /\ L1Size \in Nat \ {0} /\ MaxL1 \in Nat
  BY SizeAssumption
<1>2. TypeOK /\ MapExact
  BY DEF IInv
<1>3. /\ status = "live" /\ status' = "live"
      /\ l1_num' = n /\ n \in 0 .. MaxL1
      /\ l1_arr_map = L1Arrays
      /\ Place(n, usage, l1_arr_map, objs)
  BY <1>1, <1>2 DEF AddAfterGrowth, TypeOK
<1>4. l1_num \in Nat /\ l1_num <= n
  BY <1>1, <1>2 DEF TypeOK
<1>5. usage \in [0 .. n - 1 -> SUBSET Slots]
  BY <1>1, <1>2, <1>4 DEF TypeOK, L1Arrays
<1>6. FreshL1 \in [Slots -> Object]
  BY DEF FreshL1, Object, Blank
<1>7. objs \in [0 .. n - 1 -> [Slots -> Object]]
  BY <1>1, <1>2, <1>4, <1>6 DEF TypeOK, L1Arrays
<1>8. \A a \in 0 .. n - 1 : a \in l1_arr_map <=> usage[a] = Slots
  <2>1. Slots # {}
    BY <1>1 DEF Slots
  <2>2. QED
    BY <1>1, <1>2, <1>3, <1>4, <2>1 DEF MapExact, L1Arrays
<1>9. l1_arr_map \in SUBSET (0 .. n - 1)
  BY <1>1, <1>3, <1>4 DEF L1Arrays
<1>10. ASSUME NEW i \in Handles
       PROVE  /\ L2Index(i) < l1_num /\ L1Index(i) \in usage_map[L2Index(i)]
                 <=> L2Index(i) < n /\ L1Index(i) \in usage[L2Index(i)]
              /\ L2Index(i) < l1_num => objs[L2Index(i)] = arr[L2Index(i)]
  BY <1>1, <1>4, HandleBounded
<1>11. UsedHandles = {i \in Handles : L2Index(i) < n /\ L1Index(i) \in usage[L2Index(i)]}
  <2> HIDE DEF n, usage, objs
  <2>1. QED
    BY <1>10 DEF UsedHandles
<1>12. Contents = [i \in UsedHandles |-> objs[L2Index(i)][L1Index(i)].val]
  <2> HIDE DEF n, usage, objs
  <2>1. \A i \in UsedHandles : objs[L2Index(i)] = arr[L2Index(i)]
    BY <1>10 DEF UsedHandles
  <2>2. QED
    BY <2>1 DEF Contents
<1> HIDE DEF n, usage, objs
<1>13. QED
  BY <1>3, <1>5, <1>7, <1>8, <1>9, <1>11, <1>12, PlaceAllocates

\* The owner writing into its object changes the content of its handle only.
LEMMA FillFills ==
  ASSUME IInv, NEW a \in L1Arrays, NEW s \in Slots, NEW v \in Values, Fill(a, s, v)
  PROVE  Store!Fill
<1> DEFINE k == Index(a, s)
<1>1. a \in Nat /\ a < MaxL1 /\ a < l1_num
  BY SizeAssumption DEF IInv, TypeOK, L1Arrays
<1>2. k \in Handles /\ L2Index(k) = a /\ L1Index(k) = s
  BY <1>1, IndexBounded, IndexSplits
<1>3. \A i \in Handles : i = k <=> L2Index(i) = a /\ L1Index(i) = s
  BY <1>1, IndexIs
<1> HIDE DEF k
<1>4. /\ s \in usage_map[a] /\ status = "live" /\ status' = "live"
      /\ arr' = [arr EXCEPT ![a][s].val = v]
      /\ l1_num' = l1_num /\ usage_map' = usage_map
  BY DEF Fill
<1>5. k \in UsedHandles
  BY <1>1, <1>2, <1>4 DEF UsedHandles
<1>6. UsedHandles' = UsedHandles
  BY <1>4 DEF UsedHandles
<1>7. ASSUME NEW i \in UsedHandles
      PROVE  arr'[L2Index(i)][L1Index(i)].val
               = IF i = k THEN v ELSE arr[L2Index(i)][L1Index(i)].val
  <2>1. i \in Handles /\ L2Index(i) \in L1Arrays /\ L1Index(i) \in Slots
    BY HandleBounded, <1>1 DEF UsedHandles, L1Arrays, IInv, TypeOK
  <2>2. arr \in [L1Arrays -> [Slots -> Object]]
    BY DEF IInv, TypeOK
  <2>3. CASE i = k
    <3>1. arr[a][s] \in Object
      BY <2>2
    <3>2. arr'[a][s] = [arr[a][s] EXCEPT !.val = v]
      BY <1>4, <2>2
    <3>3. arr'[a][s].val = v
      BY <3>1, <3>2 DEF Object
    <3>4. QED
      BY <1>2, <2>3, <3>3
  <2>4. CASE i # k
    BY <1>3, <1>4, <2>1, <2>2, <2>4
  <2>5. QED
    BY <2>3, <2>4
<1>8. Contents' = [Contents EXCEPT ![k] = v]
  BY <1>5, <1>6, <1>7 DEF Contents
<1>9. k \in DOMAIN Contents
  BY <1>5 DEF Contents
<1>10. QED
  BY <1>4, <1>8, <1>9 DEF Store!Fill, Phase

\* del forgets the handle it is given and no other.
LEMMA DelFrees ==
  ASSUME IInv, NEW k \in Handles, Del(k)
  PROVE  Store!Free
<1> DEFINE a == L2Index(k)
           s == L1Index(k)
<1>1. /\ a \in Nat /\ s \in Slots /\ k = Index(a, s)
  BY HandleBounded, SplitIndexes
<1>2. /\ a < l1_num /\ s \in usage_map[a] /\ status = "live" /\ status' = "live"
      /\ arr' = [arr EXCEPT ![a][s] = Blank]
      /\ usage_map' = [usage_map EXCEPT ![a] = @ \ {s}]
      /\ l1_num' = l1_num
  BY DEF Del
<1>3. k \in UsedHandles
  BY <1>2 DEF UsedHandles
<1> HIDE DEF a, s
<1>4. \A i \in Handles : i = k <=> L2Index(i) = a /\ L1Index(i) = s
  BY <1>1, IndexIs
<1>5. /\ usage_map \in [L1Arrays -> SUBSET Slots]
      /\ arr \in [L1Arrays -> [Slots -> Object]]
      /\ l1_num \in Nat
  BY SizeAssumption DEF IInv, TypeOK
<1>6. a \in L1Arrays
  BY <1>1, <1>2, <1>5 DEF L1Arrays
<1>7. ASSUME NEW i \in Handles, L2Index(i) < l1_num
      PROVE  /\ L2Index(i) \in L1Arrays /\ L1Index(i) \in Slots
             /\ L1Index(i) \in usage_map'[L2Index(i)]
                  <=> i # k /\ L1Index(i) \in usage_map[L2Index(i)]
             /\ i # k => arr'[L2Index(i)][L1Index(i)] = arr[L2Index(i)][L1Index(i)]
  <2>1. L2Index(i) \in L1Arrays /\ L1Index(i) \in Slots
    BY <1>5, <1>7, HandleBounded DEF L1Arrays
  <2>2. CASE L2Index(i) = a
    BY <1>2, <1>4, <1>5, <1>6, <2>1, <2>2
  <2>3. CASE L2Index(i) # a
    BY <1>2, <1>4, <1>5, <1>6, <2>1, <2>3
  <2>4. QED
    BY <2>1, <2>2, <2>3
<1>8. UsedHandles' = UsedHandles \ {k}
  BY <1>2, <1>7 DEF UsedHandles
<1>9. \A i \in UsedHandles \ {k} :
        arr'[L2Index(i)][L1Index(i)].val = arr[L2Index(i)][L1Index(i)].val
  BY <1>7 DEF UsedHandles
<1>10. Contents' = [j \in UsedHandles \ {k} |-> Contents[j]]
  BY <1>8, <1>9 DEF Contents
<1>11. DOMAIN Contents = UsedHandles
  BY DEF Contents
<1>12. QED
  BY <1>2, <1>3, <1>10, <1>11 DEF Store!Free, Phase

\* A step that changes no layer 1 array leaves every object of the store alone.
LEMMA NothingMoves ==
  ASSUME l1_num' = l1_num, usage_map' = usage_map, arr' = arr
  PROVE  Contents' = Contents
<1>1. UsedHandles' = UsedHandles
  BY DEF UsedHandles
<1>2. QED
  BY <1>1 DEF Contents

\* The two growths that fail half way break the store.
LEMMA FailureBreaks == AddMallocFail \/ AddMapFail => Store!Break
<1> SUFFICES ASSUME AddMallocFail \/ AddMapFail PROVE Store!Break
  OBVIOUS
<1>1. /\ status = "live" /\ status' \in {"dangling", "astray"}
      /\ l1_num' = l1_num /\ usage_map' = usage_map /\ arr' = arr
  BY DEF AddMallocFail, AddMapFail
<1>2. Contents' = Contents
  BY <1>1, NothingMoves
<1>3. Phase = "open" /\ Phase' = "broken"
  BY <1>1 DEF Phase
<1>4. QED
  BY <1>2, <1>3 DEF Store!Break

\* The teardown closes the store.
LEMMA DelAllCloses == IInv /\ DelAll => Store!Close
<1> SUFFICES ASSUME IInv, DelAll PROVE Store!Close
  OBVIOUS
<1>1. l1_num' = 0 /\ status = "live" /\ status' = "deleted"
  BY DEF DelAll
<1>2. UsedHandles' = {}
  BY <1>1, HandleBounded DEF UsedHandles
<1>3. Contents' = [i \in {} |-> Wiped]
  BY <1>2 DEF Contents
<1>4. QED
  BY <1>1, <1>3 DEF Store!Close, Phase

-----------------------------------------------------------------------------
(* The refinement                                                          *)

\* A new array is an empty store.
LEMMA InitEmpty == Init => Store!Init
<1> SUFFICES ASSUME Init PROVE Store!Init
  OBVIOUS
<1>1. UsedHandles = {}
  <2> SUFFICES ASSUME NEW i \in Handles, L2Index(i) < l1_num
               PROVE  L1Index(i) \notin usage_map[L2Index(i)]
    BY DEF UsedHandles
  <2>1. L2Index(i) \in L1Arrays
    BY HandleBounded, SizeAssumption DEF Init, L1Arrays
  <2>2. QED
    BY <2>1 DEF Init
<1>2. Contents = [i \in {} |-> Wiped]
  BY <1>1 DEF Contents
<1>3. QED
  BY <1>2 DEF Init, Store!Init, Phase

\* For every size of array, growth step and bound, whatever is added, filled,
\* deleted and torn down in whatever order, whoever uses a layer 2 array through
\* the indexes it hands out sees the store: the least free handle, blank, and no
\* object changed by what happens to another.  Only an add without memory ends
\* that, and it too leaves every object as it was.
THEOREM ImplementsStore == Spec => ImplementsObjectStore
<1>1. IInv /\ [Next]_vars => [Store!Next]_(Store!vars)
  <2> SUFFICES ASSUME IInv, [Next]_vars PROVE [Store!Next]_(Store!vars)
    OBVIOUS
  <2> USE DEF Store!Next
  <2>1. CASE AddInPlace
    BY <2>1, AddInPlaceAllocates
  <2>2. CASE AddAfterGrowth
    BY <2>2, AddAfterGrowthAllocates
  <2>3. CASE AddMallocFail \/ AddMapFail
    BY <2>3, FailureBreaks
  <2>4. CASE \E a \in L1Arrays, s \in Slots, v \in Values : Fill(a, s, v)
    BY <2>4, FillFills
  <2>5. CASE \E i \in Handles : Del(i)
    BY <2>5, DelFrees
  <2>6. CASE DelAll
    BY <2>6, DelAllCloses
  <2>7. CASE UNCHANGED vars
    BY <2>7, NothingMoves DEF vars, Store!vars, Phase
  <2>8. QED
    BY <2>1, <2>2, <2>3, <2>4, <2>5, <2>6, <2>7 DEF Next
<1>2. QED
  BY <1>1, InitEmpty, Invariance, PTL DEF Spec, ImplementsObjectStore, Store!Spec
=============================================================================
