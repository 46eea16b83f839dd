------------------------------ MODULE FileData ------------------------------
(***************************************************************************)
(* The file data of an entry: size, checksums, sections and samples, how fp  *)
(* fills them in from a file that may change while it is read, how attach,   *)
(* detach and edit change them, the indexes that lead to them, and what      *)
(* verify_entry and load_file accept of them.                                *)
(*                                                                          *)
(* The checksum of the len bytes from byte b on is the pair <<b, len>>, and  *)
(* so are the strings a user gives to edit.  Several targets that share a     *)
(* string are the subject of TransChain: here a string leads to one target.  *)
(***************************************************************************)
EXTENDS SectionLayout, FiniteSets, FiniteSetsExt, SequencesExt

CONSTANTS
  Sizes,      \* the sizes of the files that are fingerprinted
  MaxSize,    \* FILE_SIZE_MAX
  IntMax,     \* the largest int: bytes_left is one, the sizes are uint64_t
  Kinds,      \* SHA1, SHA256 and SHA512
  CmpKind,    \* SHA512: the kind of string that chains of sections compare
  Flags,      \* the combinations of fields that fp is asked for
  SlotNum,    \* bound: slots for sections
  EditSizes,  \* what edit is given for a size or a position
  EditStrs,   \* what edit is given for a checksum
  MaxCmds,    \* bound: number of commands
  NoData,     \* the null pointer: no file data
  NoSlot      \* a null pointer in an array of sections

NoStr == <<>>
Wrap == 2 * MaxSize     \* stands for the largest uint64_t
Slots == 0..(SlotNum - 1)

\* What the fields of the C structures hold.
Strs == {NoStr} \cup (Nat \X Nat)
Extracts == [pos : Nat, len : Nat]
Sections ==
  [start : Nat, end : Nat, typ : SUBSET Kinds, str : [Kinds -> Strs],
   tran : [Kinds -> Strs], extr : Seq(Extracts)]
Datas ==
  [size : Nat, sizeTran : BOOLEAN, typ : SUBSET Kinds, str : [Kinds -> Strs],
   tran : [Kinds -> Strs], extr : Seq(Extracts), norm : Nat, last : Nat,
   array : BOOLEAN, arr : Seq(Slots \cup {NoSlot}), num : Nat, free : Nat]
Memory ==
  [data : Datas \cup {NoData}, sect : [Slots -> Sections], used : SUBSET Slots,
   sizes : SUBSET Nat, sums : SUBSET (Kinds \X Strs),
   sectSums : SUBSET [kind : Kinds, str : Strs, slot : Slots]]

ASSUME FileAssumption ==
  /\ NoData \notin Datas /\ NoSlot \notin Slots
  /\ Sizes \subseteq Nat /\ EditSizes \subseteq 0..(Wrap - 1)
  /\ EditStrs \subseteq Nat \X Nat
  /\ CmpKind \in Kinds /\ SlotNum \in Nat /\ IntMax \in Nat /\ MaxCmds \in Nat
  /\ MaxSize \in Nat \ {0}
  /\ Flags \subseteq [size : BOOLEAN, extr : BOOLEAN, sums : SUBSET Kinds,
                     sextr : BOOLEAN, sectSums : SUBSET Kinds]

VARIABLES
  db,       \* the file data, the sections and the indexes that lead to them
  made,     \* history: how the data came about, from a file of which size
  stale,    \* history: a string may lead to what no longer carries it
  outcome,  \* how the last command ended
  cmds      \* how many commands there have been

vars == <<db, made, stale, outcome, cmds>>

Nowhere == [how |-> "none", size |-> 0]
NoSums == [k \in Kinds |-> NoStr]

\* Objects of a layer 2 array are given out wiped.
WipedData ==
  [size |-> 0, sizeTran |-> FALSE, typ |-> {}, str |-> NoSums, tran |-> NoSums,
   extr |-> <<>>, norm |-> 0, last |-> 0,
   array |-> FALSE, arr |-> <<>>, num |-> 0, free |-> 0]
WipedSect ==
  [start |-> 0, end |-> 0, typ |-> {}, str |-> NoSums, tran |-> NoSums, extr |-> <<>>]

Init ==
  /\ db = [data |-> NoData, sect |-> [s \in Slots |-> WipedSect], used |-> {},
           sizes |-> {}, sums |-> {}, sectSums |-> {}]
  /\ made = Nowhere /\ stale = FALSE /\ outcome = "ok" /\ cmds = 0

-----------------------------------------------------------------------------
(* What verify_entry checks of file data.                                    *)

Pred(n) == IF n = 0 THEN Wrap ELSE n - 1

\* Plausible slip: only the first byte of a sample is looked at.
MutSampleInside(d, x) == x.len <= ExtractSizeMax /\ x.pos <= Pred(d.size)

SampleInside(d, x) ==
  /\ x.len <= ExtractSizeMax
  /\ x.pos <= Pred(d.size)
  /\ Pred(x.pos + x.len) <= Pred(d.size)

SectionFits(d, s, prev) ==
  /\ s.start < s.end /\ s.start < d.size /\ s.end < d.size
  /\ d.norm > 0 /\ prev # NoSlot => s.start > prev.end

SectSampleInside(d, s, x) ==
  /\ SampleInside(d, x) /\ x.len # 0
  /\ x.pos >= s.start /\ x.pos <= s.end /\ x.pos + x.len - 1 <= s.end

HeaderFits(d) ==
  IF d.num = 0 /\ d.free = 0
  THEN ~d.array /\ d.norm = 0 /\ d.last = 0
  ELSE /\ d.array
       /\ d.norm <= d.size /\ d.last <= d.norm
       /\ d.num = 1 => d.last = d.norm
       /\ d.norm = 0 => d.last = 0

\* A null pointer among the first num sections is followed before any section
\* is looked at.
VerifyResult(m) ==
  LET d == m.data IN
  IF d = NoData THEN "ok"
  ELSE IF ~ /\ \A x \in Range(d.extr) : SampleInside(d, x)
            /\ HeaderFits(d) THEN "fail"
  ELSE IF \E i \in 1..d.num : d.arr[i] = NoSlot THEN "crash"
  ELSE IF \A i \in 1..d.num :
            LET s == m.sect[d.arr[i]] IN
            /\ SectionFits(d, s, IF i = 1 THEN NoSlot ELSE m.sect[d.arr[i - 1]])
            /\ \A x \in Range(s.extr) : SectSampleInside(d, s, x)
  THEN "ok" ELSE "fail"

\* What load_file checks of the same data when it meets them in a file, before
\* it calls verify_entry on what it has built.
Loads(m) ==
  LET d == m.data IN
  /\ d.size <= MaxSize
  /\ \A x \in Range(d.extr) :
       x.pos < d.size /\ x.len <= ExtractSizeMax /\ x.pos + x.len < d.size
  /\ d.num = 0 => d.norm = 0 /\ d.last = 0
  /\ d.num = 1 => d.last = d.norm
  /\ d.norm <= d.size /\ d.last <= d.norm
  /\ \A i \in 1..d.num : \A x \in Range(m.sect[d.arr[i]].extr) :
       x.pos < d.size /\ x.len <= ExtractSizeMax /\ x.pos + x.len <= d.size

-----------------------------------------------------------------------------
(* Indexes.                                                                  *)

\* link_file_data_to_file_size_structures for data that are not linked.
LinkSize(m) ==
  [m EXCEPT !.sizes = @ \cup {m.data.size}, !.data.sizeTran = TRUE]

UnlinkSize(m) ==
  IF m.data.sizeTran
  THEN [m EXCEPT !.sizes = @ \ {m.data.size}, !.data.sizeTran = FALSE] ELSE m

\* link_file_data_to_sha..._structures: a node with this string leads to the
\* very data that look for it and are not linked: a null pointer is followed.
LinkSumCrashes(m, k) == <<k, m.data.str[k]>> \in m.sums
LinkSum(m, k) ==
  [m EXCEPT !.sums = @ \cup {<<k, m.data.str[k]>>}, !.data.tran[k] = m.data.str[k]]
UnlinkSum(m, k) ==
  [m EXCEPT !.sums = @ \ {<<k, m.data.tran[k]>>}, !.data.tran[k] = NoStr]

\* The same for the checksums of a section: the members of all chains.
Member(m, s, k) == [kind |-> k, str |-> m.sect[s].tran[k], slot |-> s]
SectNodes(m, k, str) == {n \in m.sectSums : n.kind = k /\ n.str = str}
LinkSectSum(m, s, k) ==
  LET l == [m EXCEPT !.sect[s].tran[k] = m.sect[s].str[k]]
  IN  [l EXCEPT !.sectSums = @ \cup {Member(l, s, k)}]
UnlinkSectSum(m, s, k) ==
  [m EXCEPT !.sectSums = @ \ {Member(m, s, k)}, !.sect[s].tran[k] = NoStr]

\* Plausible slip: sections are given back but not unlinked.
MutDelSections(m, secs) ==
  [m EXCEPT !.sect = [s \in Slots |-> IF s \in secs THEN WipedSect ELSE @[s]],
            !.used = @ \ secs]

\* del_section of some sections: unlinks by the types, which edit does not set.
DelSections(m, secs) ==
  [m EXCEPT !.sectSums = @ \ UNION {{Member(m, s, k) : k \in m.sect[s].typ} : s \in secs},
            !.sect = [s \in Slots |-> IF s \in secs THEN WipedSect ELSE @[s]],
            !.used = @ \ secs]

\* del_file_data.
DelFileData(m) ==
  LET d == m.data
      bare == DelSections(m, Range(SubSeq(d.arr, 1, d.num)))
  IN  [UnlinkSize(bare) EXCEPT
         !.sums = @ \ {<<k, d.tran[k]>> : k \in d.typ}, !.data = NoData]

\* Slots for n sections, lowest first; fewer when the memory is used up.
FreshSlots(m, n) ==
  LET free == Slots \ m.used
  IN  [i \in 1..AtMost(n, Cardinality(free)) |->
         CHOOSE s \in free : Cardinality({t \in free : t < s}) = i - 1]

\* grow_section_array by n, then put_into_section_array for each fresh slot.
PutSections(m, n) ==
  LET d == m.data
      new == FreshSlots(m, n)
      room == [i \in 1..(d.num + d.free + n) |->
                 IF i <= d.num THEN d.arr[i]
                 ELSE IF i <= d.num + Len(new) THEN new[i - d.num] ELSE NoSlot]
  IN  [m EXCEPT !.used = @ \cup Range(new),
                !.data.array = TRUE, !.data.arr = room,
                !.data.num = d.num + Len(new),
                !.data.free = d.free + n - Len(new)]

-----------------------------------------------------------------------------
(* fingerprint_file.                                                         *)

NeedsSections(f) == f.sextr \/ f.sectSums # {}
Sums(kinds, str) == [k \in Kinds |-> IF k \in kinds THEN str ELSE NoStr]

\* The value of a size that is put into an int.
ToInt(n) ==
  LET r == n % (2 * (IntMax + 1)) IN IF r <= IntMax THEN r ELSE r - 2 * (IntMax + 1)
Overflows(size) == NormSize(size) > IntMax

\* How many bytes are read for section i: none for a negative bytes_left.
ReadLen(size, i) == LET n == ToInt(SectSize(size, i)) IN IF n > 0 THEN n ELSE 0

Samples(from, len) ==
  [j \in 1..Sampling(len).num |->
     [pos |-> from + SamplePos(len, j - 1), len |-> Sampling(len).len]]

\* The samples of the file, then those of each section: when the file shrinks
\* meanwhile, the first kept of all these are kept.
Planned(size, f, i) ==
  IF i < 0 THEN IF f.extr THEN Sampling(size).num ELSE 0
  ELSE IF f.sextr THEN Sampling(SectSize(size, i)).num ELSE 0
\* All sections before section i are as long as the first one.
PlannedBefore(size, f, i) ==
  IF i < 0 THEN 0 ELSE Planned(size, f, -1) + i * Planned(size, f, 0)
PlannedInAll(size, f) ==
  LET last == SectNum(size) - 1
  IN  PlannedBefore(size, f, last) + Planned(size, f, last)
Kept(size, f, i, kept) ==
  LET left == kept - PlannedBefore(size, f, i)
  IN  IF left < 0 THEN 0 ELSE AtMost(left, Planned(size, f, i))

\* Section i after it has been read and sampled.
ReadSection(size, f, i, kept) ==
  LET sum == Sums(f.sectSums, <<i * ReadLen(size, 0), ReadLen(size, i)>>) IN
  [start |-> SectStart(size, i), end |-> SectEnd(size, i),
   typ |-> f.sectSums, str |-> sum, tran |-> sum,
   extr |-> SubSeq(Samples(SectStart(size, i), SectSize(size, i)), 1, Kept(size, f, i, kept))]

\* The section in which a file ends that has only had-many bytes: its end_pos
\* stays, the sections behind it are not touched.
CutSection(size, f, i, had) ==
  LET at == SectStart(size, i)
      sum == Sums(f.sectSums, <<at, AtMost(had - at, SectSize(size, i))>>)
  IN  IF at > had THEN WipedSect
      ELSE [start |-> at, end |-> SectEnd(size, i), typ |-> f.sectSums,
            str |-> sum, tran |-> sum, extr |-> <<>>]

\* The data with the sections given, before sizes and checksums of the file.
\* Each section in an index leads back from its strings.
WithSections(m, size, sections) ==
  LET p == PutSections([m EXCEPT !.data = WipedData], SectNum(size))
      at(i) == p.data.arr[i + 1]
      slots == [i \in 0..(SectNum(size) - 1) |-> at(i)]
  IN  [p EXCEPT
        !.sect = [s \in Slots |-> IF \E i \in DOMAIN slots : slots[i] = s
                    THEN sections[CHOOSE i \in DOMAIN slots : slots[i] = s] ELSE @[s]],
        !.sectSums = @ \cup UNION {{[kind |-> k, str |-> sections[i].str[k], slot |-> at(i)] :
                                      k \in sections[i].typ} : i \in DOMAIN slots},
        !.data.norm = NormSize(size), !.data.last = LastSize(size)]

\* Size and checksums of the file; str is the checksum of what was read.
WithFile(m, f, size, str, extr) ==
  LET d == [m EXCEPT !.data = [m.data EXCEPT !.typ = f.sums, !.str = Sums(f.sums, str),
                                             !.tran = Sums(f.sums, str), !.extr = extr],
                     !.sums = @ \cup {<<k, str>> : k \in f.sums}]
  IN  IF f.size THEN LinkSize([d EXCEPT !.data.size = size]) ELSE d

\* A string that is already in an index: the data in their slot are those that
\* are being linked, and a null pointer is followed.
FileSumsCrash(m, f, str) == \E k \in f.sums : <<k, str>> \in m.sums
\* Strings shared by sections are left to TransChain.
Unshared(m, sections) ==
  \A i \in DOMAIN sections : \A k \in sections[i].typ :
    SectNodes(m, k, sections[i].str[k]) = {}

\* The way out of a command: what it left behind and how it went.
Ends(m, how, result) ==
  /\ db' = m /\ made' = how /\ outcome' = result /\ cmds' = cmds + 1
Undefined(result) == Ends(db, made, result) /\ UNCHANGED stale
Ready == outcome \in {"ok", "fail"} /\ cmds < MaxCmds
MayFingerprint(size) == Ready /\ db.data = NoData /\ size \notin {0, LastClass}

\* The file stays as it was when its size was taken.
FpWhole ==
  \E size \in Sizes, f \in Flags :
    /\ MayFingerprint(size) /\ NeedsSections(f)
    /\ Cardinality(Slots \ db.used) >= SectNum(size)
    /\ IF Overflows(size) /\ f.sextr THEN Undefined("undefined")
       ELSE \E kept \in 0..PlannedInAll(size, f) :
         LET sections == [i \in 0..(SectNum(size) - 1) |-> ReadSection(size, f, i, kept)]
             read == SectNum(size) * ReadLen(size, 0) - ReadLen(size, 0) + ReadLen(size, SectNum(size) - 1)
             extr == SubSeq(Samples(0, size), 1, Kept(size, f, -1, kept))
             m == WithFile(WithSections(db, size, sections), f, size, <<0, read>>, extr)
         IN  /\ Unshared(db, sections)
             /\ IF FileSumsCrash(db, f, <<0, read>>) THEN Undefined("crash")
                ELSE /\ Ends(m, [how |-> "fp", size |-> size], VerifyResult(m))
                     /\ UNCHANGED stale

\* Plausible slip: off by one in what becomes free.
MutCutData(m, size, f, had, i) ==
  LET n == SectNum(size)
      w == WithSections(m, size, [j \in 0..(n - 1) |-> CutSection(size, f, j, had)])
  IN  IF n = 1 THEN w ELSE [w EXCEPT !.data.num = n - (i + 1), !.data.free = i]

\* Early end in section i: "re-adjust section number if needed".
CutData(m, size, f, had, i) ==
  LET n == SectNum(size)
      w == WithSections(m, size, [j \in 0..(n - 1) |-> CutSection(size, f, j, had)])
  IN  IF n = 1 THEN w ELSE [w EXCEPT !.data.num = n - (i + 1), !.data.free = i + 1]

\* Sections in the indexes that are no longer among the first num.
CutLoses(size, i) == SectNum(size) > 1 /\ 2 * (i + 1) > SectNum(size)

EndsCut(m, f, size, i, str, how) ==
  IF FileSumsCrash(db, f, str) THEN Undefined("crash")
  ELSE /\ Ends(m, how, VerifyResult(m))
       /\ stale' = (stale \/ (f.sectSums # {} /\ CutLoses(size, i)))

\* The file has become shorter than its size was.
FpCut ==
  \E size \in Sizes, f \in Flags :
    /\ MayFingerprint(size) /\ NeedsSections(f) /\ ~Overflows(size)
    /\ Cardinality(Slots \ db.used) >= SectNum(size)
    /\ \E had \in 0..(size - 1) :
         LET i == had \div NormSize(size)
             m == WithFile(CutData(db, size, f, had, i), f, had, <<0, had>>, <<>>)
         IN  /\ Unshared(db, [j \in 0..i |-> CutSection(size, f, j, had)])
             /\ EndsCut(m, f, size, i, <<0, had>>, [how |-> "cut", size |-> had])

\* bytes_left is negative for the first section, and bytes, which nothing has
\* been assigned to, happens to be 0: taken for an early end.
FpOverflow ==
  \E size \in Sizes, f \in Flags :
    /\ MayFingerprint(size) /\ NeedsSections(f) /\ Overflows(size)
    /\ Cardinality(Slots \ db.used) >= SectNum(size)
    /\ LET wrong == NormSize(size) - ToInt(NormSize(size))
           m == WithFile(CutData(db, size, f, 0, 0), f, wrong, <<0, 0>>, <<>>)
       IN  /\ Unshared(db, [j \in {0} |-> CutSection(size, f, j, 0)])
           /\ EndsCut(m, f, size, 0, <<0, 0>>, [how |-> "cut", size |-> wrong])

\* Without sections nothing is assigned to bytes_left: any number of bytes is
\* read, or the file ends early and the missing array of sections is used.
FpBare ==
  \E size \in Sizes, f \in Flags :
    /\ MayFingerprint(size) /\ ~NeedsSections(f)
    /\ \/ Undefined("crash")
       \/ \E read \in 0..size :
            LET extr == SubSeq(Samples(0, size), 1, Planned(size, f, -1))
                m == WithFile([db EXCEPT !.data = WipedData], f, size, <<0, read>>, extr)
            IN  IF FileSumsCrash(db, f, <<0, read>>) THEN Undefined("crash")
                ELSE Ends(m, [how |-> "bare", size |-> size], VerifyResult(m)) /\ UNCHANGED stale

\* No memory for all the sections: the file data stay as they are.
FpNoRoom ==
  \E size \in Sizes, f \in Flags :
    /\ MayFingerprint(size) /\ NeedsSections(f)
    /\ Cardinality(Slots \ db.used) < SectNum(size)
    /\ LET m == PutSections([db EXCEPT !.data = WipedData], SectNum(size))
       IN  Ends(m, [how |-> "user", size |-> 0], VerifyResult(m)) /\ UNCHANGED stale

-----------------------------------------------------------------------------
(* attach, detach and edit.  None of them undoes anything when verify_entry   *)
(* objects, and only edit calls it.  What they refuse changes nothing and is  *)
(* left out; of several keys given to edit each is a command of its own.      *)

ByUser == [how |-> "user", size |-> 0]

AttachFile ==
  /\ Ready /\ db.data = NoData
  /\ Ends([db EXCEPT !.data = WipedData], ByUser, "ok") /\ UNCHANGED stale

AttachSect ==
  /\ Ready /\ db.data # NoData
  /\ \E n \in 0..2 : Ends(PutSections(db, n), ByUser, "ok")
  /\ UNCHANGED stale

\* A type that is not set keeps its string in the index after the deletion.
Untyped(x) == \E k \in Kinds \ x.typ : x.tran[k] # NoStr

DetachFile ==
  /\ Ready /\ db.data # NoData
  /\ LET secs == SubSeq(db.data.arr, 1, db.data.num) IN
     IF NoSlot \in Range(secs) THEN Undefined("crash")
     ELSE /\ Ends(DelFileData(db), Nowhere, "ok")
          /\ stale' = (stale \/ Untyped(db.data) \/ \E i \in DOMAIN secs : Untyped(db.sect[secs[i]]))

Moved(arr, from, to) ==
  [j \in DOMAIN arr |-> IF j = to THEN arr[from] ELSE IF j = from THEN NoSlot ELSE arr[j]]

\* Plausible slip: the place to fill is not moved on after a section is moved.
MutCollapseStep(arr, c, i) ==
  IF arr[i] = NoSlot
  THEN [c EXCEPT !.fill = IF i > 1 /\ arr[i - 1] = NoSlot THEN @ ELSE i]
  ELSE IF c.fill = i THEN [c EXCEPT !.fill = i + 1]
  ELSE [c EXCEPT !.arr = Moved(@, i, c.fill)]

\* Place i in the loop of detach that moves the remaining sections to the start;
\* at every gap the place to fill is set to the start of the gap.
CollapseStep(arr, c, i) ==
  IF arr[i] = NoSlot
  THEN [c EXCEPT !.fill = IF i > 1 /\ arr[i - 1] = NoSlot THEN @ ELSE i]
  ELSE IF c.fill = i THEN [c EXCEPT !.fill = i + 1]
  ELSE [arr |-> Moved(c.arr, i, c.fill), fill |-> c.fill + 1]

Collapsing(arr, num) ==
  LET loop[i \in 0..num] ==
        IF i = 0 THEN [arr |-> arr, fill |-> 1] ELSE CollapseStep(arr, loop[i - 1], i)
  IN  loop

Collapse(arr, num) == Collapsing(arr, num)[num].arr

\* The sections numbered in chosen, from 1, are detached.
Detached(m, chosen) ==
  LET d == m.data
      holes == [i \in DOMAIN d.arr |-> IF i \in chosen THEN NoSlot ELSE d.arr[i]]
      bare == DelSections(m, {d.arr[i] : i \in chosen})
  IN  [bare EXCEPT !.data.arr = Collapse(holes, d.num),
                   !.data.num = d.num - Cardinality(chosen),
                   !.data.free = d.free + Cardinality(chosen)]

\* A gap that follows another one and has sections behind it.
LaterGap(chosen, num) ==
  \E i, j, k \in 1..num :
    /\ i < j /\ j < k
    /\ {i, j} \subseteq chosen /\ j - 1 \notin chosen /\ k \notin chosen

DetachSect ==
  /\ Ready /\ db.data # NoData
  /\ \E chosen \in SUBSET (1..db.data.num) \ {{}} :
       IF \E i \in chosen : db.data.arr[i] = NoSlot THEN Undefined("crash")
       ELSE /\ Ends(Detached(db, chosen), ByUser, "ok")
            /\ stale' = (stale \/ LaterGap(chosen, db.data.num)
                               \/ \E i \in chosen : Untyped(db.sect[db.data.arr[i]]))

EditSize ==
  /\ Ready /\ db.data # NoData
  /\ \E size \in EditSizes :
       LET m == LinkSize([UnlinkSize(db) EXCEPT !.data.size = size])
       IN  Ends(m, ByUser, VerifyResult(m)) /\ UNCHANGED stale

\* The string of the checksum, not its type or length.
EditSum ==
  /\ Ready /\ db.data # NoData
  /\ \E k \in Kinds, str \in EditStrs :
       LET m == [UnlinkSum(db, k) EXCEPT !.data.str[k] = str]
           linked == LinkSum(m, k)
       IN  IF LinkSumCrashes(m, k) THEN Undefined("crash")
           ELSE Ends(linked, ByUser, VerifyResult(linked)) /\ UNCHANGED stale

EditPos ==
  /\ Ready /\ db.data # NoData
  /\ \E i \in 1..db.data.num, pos \in EditSizes, field \in {"start", "end"} :
       IF db.data.arr[i] = NoSlot THEN Undefined("crash")
       ELSE LET m == [db EXCEPT !.sect[db.data.arr[i]][field] = pos]
            IN  Ends(m, ByUser, VerifyResult(m)) /\ UNCHANGED stale

\* The section found under the string is compared by its checksum of CmpKind:
\* when that differs the edited section stays out of the index.
EditSectSum ==
  /\ Ready /\ db.data # NoData
  /\ \E i \in 1..db.data.num, k \in Kinds, str \in EditStrs :
       IF db.data.arr[i] = NoSlot THEN Undefined("crash")
       ELSE LET s == db.data.arr[i]
                m == [UnlinkSectSum(db, s, k) EXCEPT !.sect[s].str[k] = str]
                found == {n.slot : n \in SectNodes(m, k, str)}
                linked == IF found = {} THEN LinkSectSum(m, s, k) ELSE m
            IN  /\ Cardinality(SectNodes(db, k, db.sect[s].tran[k])) <= 1
                /\ IF \E h \in found : m.sect[h].str[CmpKind] = m.sect[s].str[CmpKind]
                   THEN /\ \A h \in found : m.sect[h].tran[k] = NoStr
                        /\ Undefined("crash")
                   ELSE /\ Ends(linked, ByUser, VerifyResult(linked))
                        /\ stale' = (stale \/ found # {})

Fp == FpWhole \/ FpCut \/ FpOverflow \/ FpBare \/ FpNoRoom
Edit == EditSize \/ EditSum \/ EditPos \/ EditSectSum
Next == Fp \/ AttachFile \/ AttachSect \/ DetachFile \/ DetachSect \/ Edit

Spec == Init /\ [][Next]_vars

-----------------------------------------------------------------------------
(* Properties.                                                               *)

\* The memory holds what the C structures can hold; the array of sections has
\* num used and free free places; a free slot is wiped.
TypeOK ==
  /\ db \in Memory
  /\ db.data # NoData =>
       /\ Len(db.data.arr) = db.data.num + db.data.free
       /\ Range(SubSeq(db.data.arr, 1, db.data.num)) \subseteq db.used \cup {NoSlot}
  /\ \A s \in Slots \ db.used : db.sect[s] = WipedSect
  /\ outcome \in {"ok", "fail", "crash", "undefined"}

SectionsOf(m) == [i \in 1..m.data.num |-> m.sect[m.data.arr[i]]]

\* A file that is read as it was when its size was taken, in sections that fit
\* an int, is fingerprinted exactly: every byte lies in exactly one section,
\* the checksum of a section is that of its own bytes and the checksum of the
\* file that of all bytes, and the samples of a section (and of the file) lie
\* one behind the other inside it (the layout and loops of fingerprint_file).
FingerprintExact ==
  made.how = "fp" /\ ~Overflows(made.size) =>
    LET secs == SectionsOf(db)
        InOrder(extr, from, end) ==
          \A j \in DOMAIN extr :
            /\ extr[j].pos >= from /\ extr[j].pos + extr[j].len - 1 <= end
            /\ \A i \in 1..(j - 1) : extr[i].pos + extr[i].len <= extr[j].pos
    IN  /\ \A b \in 0..(made.size - 1) :
             Cardinality({i \in DOMAIN secs : secs[i].start <= b /\ b <= secs[i].end}) = 1
        /\ \A i \in DOMAIN secs :
             /\ \A k \in secs[i].typ :
                  secs[i].str[k] = <<secs[i].start, secs[i].end - secs[i].start + 1>>
             /\ InOrder(secs[i].extr, secs[i].start, secs[i].end)
        /\ \A k \in db.data.typ : db.data.str[k] = <<0, made.size>>
        /\ InOrder(db.data.extr, 0, made.size - 1)

\* Where verify_entry and load_file disagree: what is saved then breaks the file.
Disagree(d) ==
  \/ d.extr # <<>> /\ (d.size = 0 \/ \E x \in Range(d.extr) : x.pos + x.len = d.size)
  \/ d.num = 0 /\ d.norm > 0
  \/ d.size > MaxSize

\* After any sequence of commands: file data that verify_entry accepts, and
\* savedb therefore writes, are accepted by load_file, except in the places named
\* by Disagree, and in those load_file does refuse them.
VerifiedLoads ==
  db.data # NoData /\ outcome \in {"ok", "fail"} /\ VerifyResult(db) = "ok" =>
    (Loads(db) <=> ~Disagree(db.data))

\* Until a string is left behind by a checksum without a type or by a lost
\* section, or a section is left out for its other checksum, what an index
\* leads to carries the string it is found under, and data that have a type or
\* have been edited are found (the link and unlink calls of fp, edit, detach
\* and del_file_data, taken together).
IndexesExact ==
  ~stale /\ outcome \in {"ok", "fail"} =>
    IF db.data = NoData THEN db.sizes = {} /\ db.sums = {} /\ db.sectSums = {}
    ELSE LET d == db.data  mine == Range(SubSeq(d.arr, 1, d.num)) \ {NoSlot} IN
      /\ db.sizes = IF d.sizeTran THEN {d.size} ELSE {}
      /\ db.sums = {<<k, d.str[k]>> : k \in {x \in Kinds : d.str[x] # NoStr}}
      /\ \A n \in db.sectSums : n.slot \in mine /\ db.sect[n.slot].str[n.kind] = n.str
      /\ \A s \in mine : \A k \in db.sect[s].typ : SectNodes(db, k, db.sect[s].str[k]) # {}

\* detach, given any sections to take away, leaves the others in their order,
\* each moved forward by as many places as there are chosen ones before it, and
\* gives back the chosen ones, unless a later gap has sections behind it (the
\* collapse loop, compared with a description of its effect).
DetachExact ==
  db.data # NoData /\ NoSlot \notin Range(SubSeq(db.data.arr, 1, db.data.num)) =>
    \A chosen \in SUBSET (1..db.data.num) :
      LET m == Detached(db, chosen) IN
      ~LaterGap(chosen, db.data.num) =>
        /\ m.data.num = db.data.num - Cardinality(chosen)
        /\ \A i \in (1..db.data.num) \ chosen :
             m.data.arr[i - Cardinality({j \in chosen : j < i})] = db.data.arr[i]
        /\ m.used = db.used \ {db.data.arr[i] : i \in chosen}

\* ffp_term.c:3497 says of that loop that it moves all remaining sections to the
\* start, whatever was chosen.
SectionsCollapse ==
  outcome = "ok" /\ db.data # NoData =>
    NoSlot \notin Range(SubSeq(db.data.arr, 1, db.data.num))
=============================================================================
