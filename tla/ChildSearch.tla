---------------------------- MODULE ChildSearch ----------------------------
(***************************************************************************)
(* How a name in a path is looked up: the existence matrix of file names   *)
(* (per position and character, a bitmap of the layer 1 arrays in which a  *)
(* name has that character at that position), its additions and deletions, *)
(* and find_children_via_file_name, which picks one of four ways to search *)
(* by their estimated cost.                                                *)
(*                                                                         *)
(* The nodes that hold names are those of TransChain, in the lowest free   *)
(* slots of a layer 2 array; the chain of a name is taken as NameIndex     *)
(* promises it.  That the two bitmaps all look-ups share cannot be grown,   *)
(* for want of memory, is left out; the allocations of an addition may fail. *)
(***************************************************************************)
EXTENDS Integers, Sequences, SequencesExt, SimpleBitmap

CONSTANTS
  MaxEntries,  \* bound of the model: entries next to the root
  MaxNumber,   \* bound of the model: highest count a node may reach
  MaxLost,     \* bound of the model: allocations that fail
  MaxCmds,     \* bound of the model: commands given
  L1Size,      \* L1_FN_TO_E_ARR_SIZE
  MapSize,     \* length of map_buf and map_buf2 at the start
  BufSize,     \* entry_buf_size
  MaxLength,   \* FILE_NAME_MAX, the positions of the matrix
  Chars,       \* the characters of names
  Names,       \* the names entries may have
  Parts,       \* the strings looked for
  NoName,      \* content of a free slot
  NoChar       \* null pointer in place of a uniq_char_map

ASSUME SearchAssumption ==
  /\ MaxEntries \in Nat /\ MaxNumber \in Nat /\ MaxLost \in Nat /\ MaxCmds \in Nat
  /\ L1Size \in Nat \ {0} /\ MapSize \in Nat \ {0} /\ BufSize \in Nat \ {0}
  /\ MaxLength \in Nat
  /\ Names \subseteq Seq(Chars) \ {<<>>} /\ \A s \in Names : Len(s) <= MaxLength
  /\ Parts \subseteq Seq(Chars) \ {<<>>}
  /\ NoName \notin Names
  /\ NoChar \notin [length : Nat, bits : SUBSET Nat, ones : Nat, zeros : Nat]

Root == 0
Entries == 1 .. MaxEntries
Slots == 0 .. MaxEntries - 1         \* of l2_fn_to_e_arr

VARIABLES
  file_name,  \* live entry |-> its name
  child,      \* live entry or root |-> its children, in order
  chain,      \* string |-> the entries that carry it, oldest first
  node,       \* slot |-> the name its translation structure holds
  number,     \* slot |-> the count of that structure
  matrix,     \* fn_mat: max_length, and per position and character the map
  map_buf, map_buf2,
  lost,       \* history: allocations that have failed
  cmds        \* history: commands given

vars == <<file_name, child, chain, node, number, matrix, map_buf, map_buf2,
          lost, cmds>>
Live == DOMAIN file_name

\* The members of a list that are in a set, and lists one behind the other.
Only(seq, set) ==
  FoldLeft(LAMBDA kept, x : IF x \in set THEN Append(kept, x) ELSE kept, <<>>, seq)

Joined(lists) == FoldLeft(LAMBDA seq, list : seq \o list, <<>>, lists)

-----------------------------------------------------------------------------
(* The existence matrix                                                    *)

\* ffp_grow_bitmap
FfpGrow(m, n) == IF n > m.length THEN Grow(m, n) ELSE m

\* Plausible slip: a map is thought long enough one bit too early.
MutMarked(m, a) ==
  IF m = NoChar THEN Write(Zeroed(a + 1), a)
  ELSE Write(FfpGrow(m, a), a)

\* The map of a character after layer 1 array a is marked in it.
Marked(m, a) ==
  IF m = NoChar THEN Write(Zeroed(a + 1), a)
  ELSE Write(FfpGrow(m, a + 1), a)

\* The ways an allocation at position p can fail for name s in array a: of
\* the character, of its bitmap, or of the longer bitmap.
Failures(mat, s, a) ==
  LET m(p) == mat.map[p][s[p]] IN
  {<<p, "char">> : p \in {q \in DOMAIN s : m(q) = NoChar}}
    \cup {<<p, "bitmap">> : p \in {q \in DOMAIN s : m(q) = NoChar}}
    \cup {<<p, "grow">> : p \in
            {q \in DOMAIN s : m(q) # NoChar
                /\ BlockNumber(m(q).length) < BlockNumber(a + 1)}}

\* add_fn_to_fn_exist_mat: character by character.  The first two failures
\* end it there; the third is not noticed, and only its own mark is refused.
AddToMatrix(mat, s, a, failure) ==
  LET at == failure[1]
      ends == failure[2] \in {"char", "bitmap"}
      Mark(p, m) ==
        IF ends /\ p > at THEN m
        ELSE IF p # at THEN Marked(m, a)
        ELSE CASE failure[2] = "char"   -> m
               [] failure[2] = "bitmap" -> NoBlocks
               [] failure[2] = "grow"   -> Write(m, a)
  IN  [max_length |-> IF ends THEN mat.max_length
                      ELSE Max({mat.max_length, Len(s)}),
       map |-> [p \in DOMAIN mat.map |->
                  IF p > Len(s) THEN mat.map[p]
                  ELSE [mat.map[p] EXCEPT ![s[p]] = Mark(p, @)]]]

\* str_len of a translation structure: its slot was wiped and nobody sets it.
StrLen(s) == 0

\* del_fn_from_fn_exist_mat for the structure in slot i: for each position up
\* to its str_len, the mark of its array goes when no other name of the array
\* has the character there, and the character when that was its last mark.
DelFromMatrix(mat, i) ==
  LET s == node[i]
      a == i \div L1Size
      Others == {j \in Slots \ {i} : j \div L1Size = a /\ node[j] # NoName}
      Shares(p) == \E j \in Others :
                     p <= Len(node[j]) /\ node[j][p] = s[p]
      Unmark(p, m) ==
        LET left == IF Shares(p) THEN m ELSE Clear(m, a)
        IN  IF left.ones = 0 THEN NoChar ELSE left
      map == [p \in DOMAIN mat.map |->
                IF p > StrLen(s) THEN mat.map[p]
                ELSE [mat.map[p] EXCEPT ![s[p]] = Unmark(p, @)]]
      taken == {p \in 1 .. StrLen(s) : \E c \in Chars : map[p][c] # NoChar}
  IN  [max_length |-> IF StrLen(s) # mat.max_length THEN mat.max_length
                      ELSE Max(taken \cup {0}),
       map |-> map]

\* The maps of the characters of a part that begins at position p.
MapsFrom(mat, part, p) == [j \in DOMAIN part |-> mat.map[p + j - 1][part[j]]]

\* The positions from which every character of the part is known to occur.
Starts(mat, part) ==
  LET all == 1 .. mat.max_length - Len(part) + 1 IN
  Only([p \in all |-> p],
       {p \in all : \A j \in DOMAIN part : MapsFrom(mat, part, p)[j] # NoChar})

\* The buffer is brought to the length of the next character's map, the map
\* laid over it, and the length it had restored.
Narrow(buf, m) ==
  LET sized == IF m.length > buf.length THEN FfpGrow(buf, m.length)
               ELSE IF m.length < buf.length THEN Shrink(buf, m.length)
               ELSE buf
      result == And(m, sized)
  IN  IF buf.length > result.length THEN Grow(result, buf.length) ELSE result

\* One start: the first map is copied into the first buffer, the others are laid
\* over it, and what is left is added to the second buffer.
TryStart(maps, bufs) ==
  LET first == Copy(maps[1], FfpGrow(bufs[1], maps[1].length))
      all   == FoldLeft(Narrow, first, Tail(maps))
  IN  <<all, Or(all, FfpGrow(bufs[2], all.length))>>

TryStarts(mat, part, both) ==
  FoldLeft(LAMBDA bufs, p : TryStart(MapsFrom(mat, part, p), bufs),
           both, Starts(mat, part))

\* lookup_file_name_part_map: the two buffers after a look-up; the second
\* marks the layer 1 arrays that may hold a name containing the part.
PartMap(mat, part, buf, buf2) ==
  LET zeroed == Zeroed(buf2.length) IN
  IF Len(part) > mat.max_length THEN <<buf, zeroed>>
  ELSE TryStarts(mat, part, <<buf, zeroed>>)

-----------------------------------------------------------------------------
(* find_children_via_file_name                                             *)

\* strstr, and match_sub_min_max without bounds.
HasPart(s, part) ==
  \E p \in 0 .. Len(s) - Len(part) : SubSeq(s, p + 1, p + Len(part)) = part

\* The result buffer is full at BufSize entries.
Filled(seq) == SubSeq(seq, 1, Min({Len(seq), BufSize}))

ChildrenWith(p, seq) == Only(seq, Range(child[p]))

\* The entries of a name, and those whose name contains a part.
Named(s) == {e \in Live : file_name[e] = s}
Containing(part) == {e \in Live : HasPart(file_name[e], part)}

\* The used slots, and those of them of the layer 1 arrays marked in a map.
Used == {i \in Slots : node[i] # NoName}
UsedIn(a) == Only([k \in 1 .. L1Size |-> a * L1Size + k - 1], Used)
SlotsOf(m) == Joined([k \in 1 .. m.ones |-> UsedIn(Visited(m)[k])])

\* Each way to search, and when it is taken: the name has a structure (the
\* hash table finds it) or not, and which list promises to be shorter.
Searched(p, part, marks) ==
  LET slot == CHOOSE i \in Slots : node[i] = part
      Holding == Only(SlotsOf(marks), {i \in Used : HasPart(node[i], part)})
  IN
  CASE chain[part] # <<>> /\ number[slot] < Len(child[p])
         -> ChildrenWith(p, chain[part])
    [] chain[part] # <<>> /\ number[slot] >= Len(child[p])
         -> Only(child[p], Named(part))
    [] chain[part] = <<>> /\ marks.ones * L1Size <= Len(child[p])
         -> ChildrenWith(p, Joined([k \in DOMAIN Holding |-> chain[node[Holding[k]]]]))
    [] chain[part] = <<>> /\ marks.ones * L1Size > Len(child[p])
         -> Only(child[p], Containing(part))

\* The buffers after the search, and the children it puts into result_buf.
FindChildren(p, part) ==
  LET looked == IF child[p] = <<>> \/ chain[part] # <<>> THEN <<map_buf, map_buf2>>
                ELSE PartMap(matrix, part, map_buf, map_buf2)
  IN  [bufs |-> looked,
       found |-> IF child[p] = <<>> THEN <<>>
                 ELSE Filled(Searched(p, part, looked[2]))]

-----------------------------------------------------------------------------
(* Operations                                                              *)

Init ==
  /\ file_name = [e \in {} |-> NoName]
  /\ child = [p \in {Root} |-> <<>>]
  /\ chain = [s \in Names \cup Parts |-> <<>>]
  /\ node = [i \in Slots |-> NoName]
  /\ number = [i \in Slots |-> 0]
  /\ matrix = [max_length |-> 0,
               map |-> [p \in 1 .. MaxLength |-> [c \in Chars |-> NoChar]]]
  /\ map_buf = Zeroed(MapSize)
  /\ map_buf2 = Zeroed(MapSize)
  /\ lost = 0
  /\ cmds = 0

\* The lowest free slot, and the slot of a name that has one.
FreeSlot == Min({i \in Slots : node[i] = NoName})
SlotOf(s) == CHOOSE i \in Slots : node[i] = s

\* link_entry_to_file_name_structures: a structure of its own, marked in the
\* matrix, or the tail of the chain that is there.
LinkName(e, s, failure) ==
  LET i == IF chain[s] = <<>> THEN FreeSlot ELSE SlotOf(s) IN
  /\ number[i] < MaxNumber
  /\ chain' = [chain EXCEPT ![s] = Append(@, e)]
  /\ node' = [node EXCEPT ![i] = s]
  /\ number' = [number EXCEPT ![i] = @ + 1]
  /\ matrix' = IF chain[s] = <<>>
               THEN AddToMatrix(matrix, s, i \div L1Size, failure)
               ELSE matrix

\* A new entry under p.
AddEntry(p, s, failure) ==
  LET e == Min(Entries \ Live) IN
  /\ Live # Entries
  /\ LinkName(e, s, failure)
  /\ file_name' = [f \in Live \cup {e} |-> IF f = e THEN s ELSE file_name[f]]
  /\ child' = [q \in DOMAIN child \cup {e} |->
                 IF q = e THEN <<>>
                 ELSE IF q = p THEN Append(child[q], e) ELSE child[q]]
  /\ UNCHANGED <<map_buf, map_buf2>>

\* The memory lasts, or one allocation of the matrix fails.
Add(p, s) ==
  \/ AddEntry(p, s, <<0, "none">>) /\ UNCHANGED lost
  \/ /\ lost < MaxLost
     /\ chain[s] = <<>>
     /\ Live # Entries
     /\ lost' = lost + 1
     /\ \E failure \in Failures(matrix, s, FreeSlot \div L1Size) :
          AddEntry(p, s, failure)

\* A childless entry goes; with the last of its name goes the structure, the
\* matrix first.  The count of a structure that stays is not touched.
Delete(e) ==
  LET s == file_name[e]  i == SlotOf(s) IN
  /\ child[e] = <<>>
  /\ file_name' = [f \in Live \ {e} |-> file_name[f]]
  /\ child' = [q \in DOMAIN child \ {e} |->
                 Only(child[q], Live \ {e})]
  /\ chain' = [chain EXCEPT ![s] = Only(@, Live \ {e})]
  /\ IF chain[s] = <<e>>
     THEN /\ matrix' = DelFromMatrix(matrix, i)
          /\ node' = [node EXCEPT ![i] = NoName]
          /\ number' = [number EXCEPT ![i] = 0]
     ELSE UNCHANGED <<matrix, node, number>>
  /\ UNCHANGED <<map_buf, map_buf2, lost>>

\* A path is resolved: all that stays behind is in the buffers.
Find(p, part) ==
  /\ LET bufs == FindChildren(p, part).bufs IN
     map_buf' = bufs[1] /\ map_buf2' = bufs[2]
  /\ UNCHANGED <<file_name, child, chain, node, number, matrix, lost>>

Next ==
  /\ cmds < MaxCmds
  /\ cmds' = cmds + 1
  /\ \/ \E p \in DOMAIN child, s \in Names : Add(p, s)
     \/ \E e \in Live : Delete(e)
     \/ \E p \in DOMAIN child, part \in Parts : Find(p, part)

Spec == Init /\ [][Next]_vars

-----------------------------------------------------------------------------
(* Properties                                                              *)

\* The variables stay in their types, and every bitmap of the matrix and of
\* the search counts its one bits exactly.
TypeOK ==
  /\ file_name \in [Live -> Names] /\ Live \subseteq Entries
  /\ child \in [Live \cup {Root} -> Seq(Live)]
  /\ chain \in [Names \cup Parts -> Seq(Live)]
  /\ node \in [Slots -> Names \cup {NoName}]
  /\ number \in [Slots -> 0 .. MaxNumber]
  /\ lost \in 0 .. MaxLost /\ cmds \in 0 .. MaxCmds
  /\ matrix.max_length \in 0 .. MaxLength
  /\ \A p \in DOMAIN matrix.map, c \in Chars :
       matrix.map[p][c] = NoChar \/ WellCounted(matrix.map[p][c])
  /\ WellCounted(map_buf) /\ WellCounted(map_buf2)

\* The children a name stands for: those of just that name if any entry of
\* the database has it, else those whose name contains it.
Meant(p, part) ==
  {e \in Range(child[p]) :
     IF chain[part] # <<>> THEN file_name[e] = part
     ELSE HasPart(file_name[e], part)}

\* Whichever way the costs make find_children_via_file_name go, and whatever
\* marks deleted names have left in the matrix and earlier look-ups in the
\* buffers, it returns meant children only, none twice, and as many as the
\* buffer takes: a path is "ambiguous" or "no such directory" for a reason.
\* Once an allocation of the matrix has failed, names may go missing.
FindsExactly ==
  \A p \in DOMAIN child, part \in Parts :
    LET found == FindChildren(p, part).found  meant == Meant(p, part) IN
    /\ Range(found) \subseteq meant
    /\ IsInjective(found)
    /\ lost = 0 => Len(found) = Min({Cardinality(meant), BufSize})
=============================================================================
