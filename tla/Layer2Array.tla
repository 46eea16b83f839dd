---------------------------- MODULE Layer2Array ----------------------------
(***************************************************************************)
(* The two-layer object array that holds every entry, file data, section   *)
(* and translation object of ffprinter (init/add/del/get_..._layer2_arr,   *)
(* src/src/ffprinter_function_template.h).                                 *)
(*                                                                         *)
(* A layer 1 array is a block of L1Size slots with a usage bitmap; the     *)
(* layer 2 array is a growing vector of pointers to layer 1 arrays with a  *)
(* bitmap of the full ones.  An object never moves; its owner keeps a      *)
(* pointer to it, and the object itself remembers obj_arr_index, the only  *)
(* thing by which it is found again to be deleted.                         *)
(***************************************************************************)
EXTENDS Naturals, FiniteSets

CONSTANTS
  L1Size,    \* L1_ARR_SIZE: slots of a layer 1 array
  InitSize,  \* L2_ARR_INIT_SIZE: layer 1 arrays made by init
  GrowSize,  \* L2_ARR_GROW_SIZE: layer 1 arrays made by one growth
  MapBlock,  \* MAP_BLOCK_BIT: bits of one block of a bitmap
  MaxL1,     \* bound of the model: malloc fails beyond this many
  Values,    \* contents a client stores in an object
  Wiped      \* content of an object after mem_wipe_sec

ASSUME SizeAssumption ==
  /\ L1Size \in Nat \ {0}
  /\ InitSize \in Nat \ {0}
  /\ GrowSize \in Nat \ {0}
  /\ MapBlock \in Nat \ {0}
  /\ MaxL1 \in Nat
  /\ InitSize <= MaxL1
  /\ Wiped \notin Values

VARIABLES
  l1_num,      \* l1_arr_map.length: layer 1 arrays reachable from the array
  usage_map,   \* per layer 1 array, the slots marked used
  l1_arr_map,  \* the layer 1 arrays marked full
  arr,         \* per layer 1 array and slot, the object in it
  heap,        \* first layer 1 array of each malloc'ed chunk still allocated
  status       \* "live"; "dangling": the pointer vector was freed by a
               \* realloc and never replaced; "astray": the last add took
               \* its object beyond the map; "deleted": torn down

vars == <<l1_num, usage_map, l1_arr_map, arr, heap, status>>

Slots == 0 .. L1Size - 1
L1Arrays == 0 .. l1_num - 1
Handles == 0 .. MaxL1 * L1Size - 1
Object == [obj_arr_index : Nat, val : Values \cup {Wiped}]

\* What mem_wipe_sec leaves in a slot.
Blank == [obj_arr_index |-> 0, val |-> Wiped]
FreshL1 == [s \in Slots |-> Blank]

-----------------------------------------------------------------------------
(* Bitmaps and indexes                                                     *)

\* bitmap_first_zero_bit_index over a map of n bits whose one bits are ones.
IsFirstZero(x, ones, n) ==
  /\ x \in 0 .. n - 1
  /\ x \notin ones
  /\ \A y \in 0 .. n - 1 : y \notin ones => x <= y

\* A plausible slip: the size of a growth chunk taken for that of an array.
MutIndex(a, s) == a * GrowSize + s

\* obj_arr_index of slot s of layer 1 array a.
Index(a, s) == a * L1Size + s

\* How del and get split an index again.
L2Index(i) == i \div L1Size
L1Index(i) == i % L1Size

\* get_..._from_layer2_arr: the slot an index names, or the error code.
Get(i) ==
  IF L2Index(i) >= l1_num THEN <<"INDEX_OUT_OF_RANGE">>
  ELSE IF L1Index(i) \notin usage_map[L2Index(i)] THEN <<"FIND_FAIL">>
  ELSE <<L2Index(i), L1Index(i)>>

-----------------------------------------------------------------------------
(* Operations                                                              *)

Init ==
  /\ l1_num = InitSize
  /\ usage_map = [a \in L1Arrays |-> {}]
  /\ l1_arr_map = {}
  /\ arr = [a \in L1Arrays |-> FreshL1]
  /\ heap = {0}
  /\ status = "live"

\* A plausible slip: the bitmap of full arrays is kept up only when the slot
\* just taken is the last of its array, not when the array has become full.
MutPlace(n, usage, full, objs) ==
  \E a \in 0 .. n - 1, s \in Slots :
    /\ IsFirstZero(a, full, n)
    /\ IsFirstZero(s, usage[a], L1Size)
    /\ usage_map' = [usage EXCEPT ![a] = @ \cup {s}]
    /\ l1_arr_map' = IF s = L1Size - 1 THEN full \cup {a} ELSE full
    /\ arr' = [objs EXCEPT ![a][s] = [obj_arr_index |-> Index(a, s),
                                      val |-> Wiped]]

\* The common tail of add: the first zero of the first array that is not
\* full is wiped, marked, numbered, and its array marked if that filled it.
Place(n, usage, full, objs) ==
  \E a \in 0 .. n - 1, s \in Slots :
    /\ IsFirstZero(a, full, n)
    /\ IsFirstZero(s, usage[a], L1Size)
    /\ usage_map' = [usage EXCEPT ![a] = @ \cup {s}]
    /\ l1_arr_map' = IF usage[a] \cup {s} = Slots THEN full \cup {a} ELSE full
    /\ arr' = [objs EXCEPT ![a][s] = [obj_arr_index |-> Index(a, s),
                                      val |-> Wiped]]

\* add_..._to_layer2_arr with a layer 1 array to spare.
AddInPlace ==
  /\ status = "live"
  /\ l1_arr_map # L1Arrays
  /\ Place(l1_num, usage_map, l1_arr_map, arr)
  /\ UNCHANGED <<l1_num, heap, status>>

\* get_bitmap_map_block_number: the blocks a bitmap of n bits takes.
MapBlocks(n) == (n + MapBlock - 1) \div MapBlock

\* A plausible slip: the loop over the new chunk runs one array too far.
MutAddAfterGrowth ==
  LET n == l1_num + GrowSize IN
  /\ status = "live"
  /\ l1_arr_map = L1Arrays
  /\ n <= MaxL1
  /\ l1_num' = n
  /\ heap' = heap \cup {l1_num}
  /\ Place(n,
           [a \in 0 .. n |-> IF a < l1_num THEN usage_map[a] ELSE {}],
           l1_arr_map,
           [a \in 0 .. n |-> IF a < l1_num THEN arr[a] ELSE FreshL1])
  /\ UNCHANGED status

\* add_..._to_layer2_arr when every layer 1 array is full: the vector grows
\* by one chunk of GrowSize arrays first.
AddAfterGrowth ==
  LET n == l1_num + GrowSize IN
  /\ status = "live"
  /\ l1_arr_map = L1Arrays
  /\ n <= MaxL1
  /\ l1_num' = n
  /\ heap' = heap \cup {l1_num}
  /\ Place(n,
           [a \in 0 .. n - 1 |-> IF a < l1_num THEN usage_map[a] ELSE {}],
           l1_arr_map,
           [a \in 0 .. n - 1 |-> IF a < l1_num THEN arr[a] ELSE FreshL1])
  /\ UNCHANGED status

\* The same growth with the vector moved by realloc and the malloc of the
\* chunk failing: add returns MALLOC_FAIL before it stores the new vector, so
\* l1_arr keeps pointing to the vector that realloc has freed.
AddMallocFail ==
  /\ status = "live"
  /\ l1_arr_map = L1Arrays
  /\ status' = "dangling"
  /\ UNCHANGED <<l1_num, usage_map, l1_arr_map, arr, heap>>

\* The same growth with the realloc of the bitmap failing, which only a map
\* that needs one more block asks for; add ignores the result.  The vector and
\* the chunk are stored, the map keeps its length and has no zero, and the
\* failing search for one (ignored too) leaves an index beyond that length: with
\* the growth by one array that every pool has, MapBlock entries beyond it,
\* which is outside the vector as well.  What add takes there is no object of
\* the array, and C says nothing of the program from then on.
AddMapFail ==
  LET n == l1_num + GrowSize IN
  /\ status = "live"
  /\ l1_arr_map = L1Arrays
  /\ n <= MaxL1
  /\ MapBlocks(n) # MapBlocks(l1_num)
  /\ heap' = heap \cup {l1_num}
  /\ status' = "astray"
  /\ UNCHANGED <<l1_num, usage_map, l1_arr_map, arr>>

\* The owner of a live object writes its fields (obj_arr_index excepted: no
\* code outside the template assigns it).
Fill(a, s, v) ==
  /\ status = "live"
  /\ s \in usage_map[a]
  /\ arr' = [arr EXCEPT ![a][s].val = v]
  /\ UNCHANGED <<l1_num, usage_map, l1_arr_map, heap, status>>

\* A plausible slip: an array once marked full stays marked.
MutDel(i) ==
  /\ status = "live"
  /\ L2Index(i) < l1_num
  /\ L1Index(i) \in usage_map[L2Index(i)]
  /\ arr' = [arr EXCEPT ![L2Index(i)][L1Index(i)] = Blank]
  /\ usage_map' = [usage_map EXCEPT ![L2Index(i)] = @ \ {L1Index(i)}]
  /\ UNCHANGED <<l1_num, l1_arr_map, heap, status>>

\* del_..._from_layer2_arr.  An index out of range or of an unused slot is
\* answered by an error code and changes nothing.
Del(i) ==
  /\ status = "live"
  /\ L2Index(i) < l1_num
  /\ L1Index(i) \in usage_map[L2Index(i)]
  /\ arr' = [arr EXCEPT ![L2Index(i)][L1Index(i)] = Blank]
  /\ usage_map' = [usage_map EXCEPT ![L2Index(i)] = @ \ {L1Index(i)}]
  /\ l1_arr_map' = l1_arr_map \ {L2Index(i)}
  /\ UNCHANGED <<l1_num, heap, status>>

\* A plausible slip: the loop starts where the second growth chunk would be.
MutFreedChunks(n) ==
  {0} \cup {i \in 0 .. n - 1 : i >= GrowSize /\ (i - GrowSize) % GrowSize = 0}

\* The layer 1 arrays whose pointers del_l2_..._arr hands to free.
FreedChunks(n) ==
  {0} \cup {i \in 0 .. n - 1 : i >= InitSize /\ (i - InitSize) % GrowSize = 0}

\* del_l2_..._arr: the chunks, the vector and the bitmap are freed.
DelAll ==
  /\ status = "live"
  /\ status' = "deleted"
  /\ heap' = heap \ FreedChunks(l1_num)
  /\ l1_num' = 0
  /\ usage_map' = [a \in {} |-> {}]
  /\ arr' = [a \in {} |-> FreshL1]
  /\ l1_arr_map' = {}

Next ==
  \/ AddInPlace
  \/ AddAfterGrowth
  \/ AddMallocFail
  \/ AddMapFail
  \/ \E a \in L1Arrays, s \in Slots, v \in Values : Fill(a, s, v)
  \/ \E i \in Handles : Del(i)
  \/ DelAll

Spec == Init /\ [][Next]_vars

-----------------------------------------------------------------------------
(* Properties                                                              *)

\* The variables hold what the C structures can hold.
TypeOK ==
  /\ l1_num \in 0 .. MaxL1
  /\ usage_map \in [L1Arrays -> SUBSET Slots]
  /\ l1_arr_map \in SUBSET L1Arrays
  /\ arr \in [L1Arrays -> [Slots -> Object]]
  /\ heap \in SUBSET (0 .. MaxL1)
  /\ status \in {"live", "dangling", "astray", "deleted"}

\* The bitmap of full layer 1 arrays (written by add and by del, trusted by
\* the next add) is exact: a stale one bit would leak slots for ever, a stale
\* zero bit would make add search an array with no room.
MapExact ==
  \A a \in L1Arrays : a \in l1_arr_map <=> usage_map[a] = Slots

\* The number stored in a live object leads get and del back to that very
\* object, whatever was added, deleted and grown in between.
IndexRoundTrip ==
  \A a \in L1Arrays : \A s \in usage_map[a] :
    Get(arr[a][s].obj_arr_index) = <<a, s>>

\* The loop of del_l2_..._arr recomputes, from the length alone, which of the
\* pointers start a malloc'ed chunk: at every moment that is every chunk once
\* and nothing else, and after the teardown nothing is left.  The growth whose
\* bitmap cannot be grown is the one exception, and the loss is just its chunk,
\* which the loop would never meet.
ChunksAccounted ==
  /\ status \in {"live", "dangling"} => heap = FreedChunks(l1_num)
  /\ status = "astray" => /\ heap = FreedChunks(l1_num) \cup {l1_num}
                          /\ l1_num \notin FreedChunks(l1_num)
  /\ status = "deleted" => heap = {}

\* The array implements the abstract store: handles are reused lowest first,
\* a fresh object is blank and an operation touches only its own object.  The
\* store is broken, with all its objects as they were, by the two failing
\* growths of add and by nothing else.
UsedHandles == {i \in Handles : L2Index(i) < l1_num /\ L1Index(i) \in usage_map[L2Index(i)]}

Contents == [i \in UsedHandles |-> arr[L2Index(i)][L1Index(i)].val]

Phase == IF status = "live" THEN "open"
         ELSE IF status = "deleted" THEN "closed" ELSE "broken"

Store == INSTANCE ObjectStore WITH store <- Contents, phase <- Phase

ImplementsObjectStore == Store!Spec
=============================================================================
