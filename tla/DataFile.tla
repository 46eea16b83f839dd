------------------------------ MODULE DataFile ------------------------------
(***************************************************************************)
(* A database and its file: save_file, which truncates the file, writes the  *)
(* linked entries through a buffer, then the tail, and patches their number   *)
(* in; crashes and writes that fail on the way; load_file, which reads what   *)
(* is there, and fres_database_handle, which frees what load_file recorded.  *)
(*                                                                          *)
(* A field, a name or a checksum is not taken apart: the file is a sequence  *)
(* of items, one for the header, the number of entries, each entry and the   *)
(* tail.  An entry that verify_entry refuses is a bad one; how entries come   *)
(* to be so is the subject of EntryTree, and how file data comes to be saved  *)
(* and then refused by load_file that of FileData.                            *)
(***************************************************************************)
EXTENDS Naturals, Sequences, FiniteSets, SequencesExt

CONSTANTS
  MaxEntries,  \* bound: entries of the database
  Contents,    \* file data an entry may come with, see Data
  BufferSize,  \* DFILE_BUFFER_SIZE, in items
  MaxCmds,     \* bound: number of commands
  NoDb,        \* the database is not in memory
  NoJob        \* no save is under way

Root == 0                 \* dh->tree
Entries == 1..MaxEntries
Places == 0..MaxEntries
Slots == 0..2             \* of SHA1, SHA256 and SHA512 in a section
Sums == 0..3              \* the bytes of a checksum; 0 if they are all zero

\* The checksums of a section, and whether load_file takes the data at all.
Data == [used : SUBSET Slots, bytes : [Slots -> Sums], str : [Slots -> Sums],
         loads : BOOLEAN]

ASSUME DataFileAssumption ==
  /\ Contents \subseteq Data
  /\ BufferSize \in Nat \ {0, 1} /\ MaxEntries \in Nat /\ MaxCmds \in Nat

VARIABLES
  mem,      \* the database in memory, or NoDb
  disk,     \* the items of its file
  job,      \* the save that is under way, or NoJob
  outcome,  \* how the last command ended
  saved,    \* history: what the file should hold, and whether it was written
  cmds      \* how many commands there have been

vars == <<mem, disk, job, outcome, saved, cmds>>

Header(n) == [kind |-> "header", kids |-> n]
Total(n) == [kind |-> "total", n |-> n]
TailItem == [kind |-> "tail"]
Torn == [kind |-> "torn"]       \* what is no item, to the end of the file
Item(m, e) ==
  [kind |-> "entry", id |-> e, data |-> m.data[e], kids |-> Len(m.kids[e]),
   parent |-> CHOOSE p \in Places : e \in Range(m.kids[p])]

Plain == [used |-> {}, bytes |-> [s \in Slots |-> 0], str |-> [s \in Slots |-> 0],
          loads |-> TRUE]

\* own: places whose array of children load_file recorded; dangling: a record
\* points at an array that has been moved or freed since.
EmptyDb ==
  [kids |-> [p \in Places |-> <<>>], spare |-> [p \in Places |-> 0],
   bad |-> {}, data |-> [e \in Entries |-> Plain], own |-> {}, dangling |-> FALSE]

NotSaved == [kids |-> EmptyDb.kids, data |-> EmptyDb.data, whole |-> FALSE]

Init ==
  /\ mem = EmptyDb /\ disk = <<>> /\ job = NoJob /\ outcome = "ok"
  /\ saved = NotSaved /\ cmds = 0

\* The members of a list that are in a set.
Only(seq, set) ==
  FoldLeft(LAMBDA kept, x : IF x \in set THEN Append(kept, x) ELSE kept, <<>>, seq)

InUse(m) == UNION {Range(m.kids[p]) : p \in Places}
Running == outcome \notin {"undefined", "double free"}

\* A command: it starts when no other is under way.
Command == Running /\ job = NoJob /\ cmds < MaxCmds /\ cmds' = cmds + 1

-----------------------------------------------------------------------------
(* The database in memory                                                  *)

\* Plausible slip: the new places are not counted.
MutGrow(m, p, n, moves) ==
  [m EXCEPT !.spare[p] = n - 1, !.own = IF moves THEN @ \ {p} ELSE @,
            !.dangling = @ \/ (moves /\ p \in m.own)]

\* grow_children_array: realloc may move a full array, malloc makes the first.
Grow(m, p, n, moves) ==
  [m EXCEPT !.spare[p] = @ + n,
            !.own = IF moves THEN @ \ {p} ELSE @,
            !.dangling = @ \/ (moves /\ p \in m.own)]

\* put_into_children_array.
PutChild(m, p, e, moves) ==
  LET g == IF m.spare[p] = 0 THEN Grow(m, p, 1, moves) ELSE m IN
  [g EXCEPT !.kids[p] = Append(@, e), !.spare[p] = @ - 1]

Moves(m, p) ==
  IF m.spare[p] > 0 THEN {FALSE}
  ELSE IF m.kids[p] = <<>> THEN {TRUE} ELSE BOOLEAN

\* malloc puts a new array in the place of one that stays allocated.
Forget(m, p) ==
  IF m.kids[p] = <<>> /\ m.spare[p] = 0 THEN [m EXCEPT !.own = @ \ {p}] ELSE m

\* touch, mkdir, fp and cp: a new entry with file data, or one, as cp makes
\* them, that verify_entry refuses.
Add(p, c, bad) ==
  /\ Command /\ mem # NoDb
  /\ p \in InUse(mem) \cup {Root}
  /\ LET free == Entries \ InUse(mem) IN
     /\ free # {}
     /\ LET e == CHOOSE x \in free : \A y \in free : x <= y
            m == Forget(mem, p) IN
        \E moves \in Moves(m, p) :
          mem' = [PutChild(m, p, e, moves) EXCEPT
                    !.data[e] = c, !.bad = IF bad THEN @ \cup {e} ELSE @ \ {e}]
  /\ outcome' = "ok"
  /\ UNCHANGED <<disk, job, saved>>

\* del_entry of e, which has no children any more, or has lost its array.
Cut(m, e) ==
  LET p == CHOOSE x \in Places : e \in Range(m.kids[x]) IN
  [m EXCEPT !.kids[p] = Only(@, Entries \ {e}), !.spare[p] = @ + 1, !.spare[e] = 0,
            !.bad = @ \ {e}, !.own = @ \ {e}, !.data[e] = Plain]

\* rm, and rm -r of an entry with one child that has none: its array of
\* children is freed.  (rm -r of more leaves orphans, see EntryTree.)
Delete(e) ==
  /\ Command /\ mem # NoDb
  /\ e \in InUse(mem)
  /\ \/ mem.kids[e] = <<>> /\ mem' = Cut(mem, e)
     \/ /\ Len(mem.kids[e]) = 1 /\ mem.kids[Head(mem.kids[e])] = <<>>
        /\ mem' = [Cut(Cut(mem, Head(mem.kids[e])), e) EXCEPT
                     !.dangling = @ \/ e \in mem.own]
  /\ outcome' = "ok"
  /\ UNCHANGED <<disk, job, saved>>

-----------------------------------------------------------------------------
(* save_file                                                               *)

\* link_entry_after, of a list that is given by its sequence.
After(list, t, e) ==
  LET i == CHOOSE j \in DOMAIN list : list[j] = t IN InsertAt(list, i + 1, e)

\* What a call works on: the list, the entry it has linked last, and in a chain
\* of only children the entry before that one.
Lists(m) ==
  {l \in [list : Seq(Places), at : Places, before : Places, ret : {"ok", "some bad"}] :
     /\ {l.at, l.before} \subseteq Range(l.list)
     /\ l.before = l.at \/ m.kids[l.before] = <<l.at>>}

LinkAfter(l, e, before) ==
  [list |-> After(l.list, l.at, e), at |-> e, before |-> before, ret |-> "ok"]

\* The loop down a chain of only children.  When one of them fails, it goes
\* back to the entry before the last one that has been linked.
LinkChain(m, start) ==
  LET down[l \in Lists(m)] ==
        IF Len(m.kids[l.at]) # 1 THEN l
        ELSE LET c == m.kids[l.at][1] IN
             IF c \in m.bad THEN [l EXCEPT !.at = l.before, !.ret = "some bad"]
             ELSE down[LinkAfter(l, c, l.at)]
  IN  down[start]

\* Plausible slip: a bad entry is left out, what is below it is not.
MutLinkChild(m, link, l, c) ==
  IF c \in m.bad /\ m.kids[c] = <<>> THEN [l EXCEPT !.ret = "some bad"]
  ELSE link[LinkAfter(l, c, c)]

\* What a call returns takes the place of what the calls before returned.
LinkChild(m, link, l, c) ==
  IF c \in m.bad THEN [l EXCEPT !.ret = "some bad"] ELSE link[LinkAfter(l, c, c)]

\* link_entry_for_save_file of an entry that verify_entry accepts, after it has
\* been linked: the chain below it, then the children where the chain ends.
LinkEntry(m, start) ==
  LET link[l \in Lists(m)] ==
        LET chain == LinkChain(m, l) IN
        IF Len(m.kids[chain.at]) <= 1 THEN chain
        ELSE FoldLeft(LAMBDA acc, c : LinkChild(m, link, acc, c), chain, m.kids[chain.at])
  IN  link[start]

\* The entries that verify_entry accepts, as it does every entry above them.
Kept(m) ==
  {e \in Places : \A S \in SUBSET Places :
     Root \in S /\ (\A p \in S : Range(m.kids[p]) \ m.bad \subseteq S) => e \in S}

\* What a file should hold: these, below the parents and in the order they have.
ToSave(m) ==
  LET kept == Kept(m) IN
  [kids |-> [p \in Places |-> IF p \in kept THEN Only(m.kids[p], kept) ELSE <<>>],
   data |-> m.data, whole |-> FALSE]

\* fopen truncates the file; the header is flushed, the rest linked.
StartSave ==
  /\ Command /\ mem # NoDb
  /\ LET links == LinkEntry(mem, [list |-> <<Root>>, at |-> Root, before |-> Root,
                                  ret |-> "ok"]) IN
     /\ job' = [text |-> <<Header(Len(mem.kids[Root])), Total(0)>>, out |-> 1,
                rest |-> Tail(links.list), tail |-> FALSE]
     /\ outcome' = links.ret
  /\ disk' = <<>>
  /\ saved' = ToSave(mem)
  /\ UNCHANGED mem

BufferFull == Len(job.text) - job.out = BufferSize

\* copy_ptr_to_buf: a full buffer is flushed first.
CopyToBuf(item) ==
  [job EXCEPT !.text = Append(@, item),
              !.out = IF BufferFull THEN Len(job.text) ELSE @]

WriteEntry ==
  /\ Running /\ job # NoJob /\ job.rest # <<>>
  /\ job' = [CopyToBuf(Item(mem, Head(job.rest))) EXCEPT !.rest = Tail(@)]
  /\ UNCHANGED <<mem, disk, outcome, saved, cmds>>

\* fwrite of a full buffer fails: copy_ptr_to_buf does not look at what
\* flush_buf returns and writes on behind the end of the buffer.
FlushFails ==
  /\ Running /\ job # NoJob /\ BufferFull
  /\ outcome' = "undefined"
  /\ UNCHANGED <<mem, disk, job, saved, cmds>>

\* All that has been written when the number of entries still is the zero from
\* the start, the number, and what may be there of its bytes.
Unpatched == Append(job.text, TailItem)
Number == Len(job.text) - 2
Patched(text, n) == [text EXCEPT ![2] = Total(n)]
Counted == {Patched(Unpatched, k) : k \in 0..Number}

\* What may be there of a text: some items, or some and what is no item.
Cuts(text) ==
  {SubSeq(text, 1, k) : k \in 0..(Len(text) - 1)} \cup
  {Append(SubSeq(text, 1, k), Torn) : k \in 0..(Len(text) - 1)}

\* The tail, and buf_seek flushes what is in the buffer.
WriteTail ==
  /\ Running /\ job # NoJob /\ job.rest = <<>> /\ ~job.tail
  /\ job' = [job EXCEPT !.tail = TRUE, !.out = Len(job.text)]
  /\ UNCHANGED <<mem, disk, outcome, saved, cmds>>

\* fwrite fails in buf_seek, where nobody looks.  The buffer keeps what is in it
\* and is written a second time, in the place of the number, with the number
\* behind it.  That is where it belongs if nothing has been flushed since the
\* header, and if not no items come of it.  There may be no room for the number.
SeekFlushFails ==
  /\ Running /\ job # NoJob /\ job.rest = <<>> /\ ~job.tail
  /\ LET out == CopyToBuf(TailItem).out
         again == Append(Unpatched, Total(Number))
     IN  \/ /\ disk' \in Cuts(Unpatched) \cup
                           (IF out = 1 THEN {Unpatched, again} ELSE {})
            /\ job' = NoJob /\ UNCHANGED outcome
         \/ /\ Len(Unpatched) - out = BufferSize
            /\ outcome' = "undefined" /\ UNCHANGED <<disk, job>>
  /\ UNCHANGED <<mem, saved, cmds>>

\* The number is written in its place, and the file is closed.
FinishSave ==
  /\ Running /\ job # NoJob /\ job.tail
  /\ disk' = Patched(Unpatched, Number)
  /\ saved' = [saved EXCEPT !.whole = TRUE]
  /\ job' = NoJob
  /\ UNCHANGED <<mem, outcome, cmds>>

\* Writes fail in fseek, flush_buf or fclose: nobody looks, save_file succeeds.
\* What stdio had buffered is lost, or a part of it, or only the number; after an
\* fseek that failed the number is written behind what is there.
LoseWrites ==
  /\ Running /\ job # NoJob /\ job.tail
  /\ disk' \in Counted \cup Cuts(Unpatched) \cup
       {Append(SubSeq(Unpatched, 1, k), Total(Number)) : k \in 1..Len(Unpatched)}
  /\ job' = NoJob
  /\ UNCHANGED <<mem, outcome, saved, cmds>>

\* The program ends between two commands or in a save: what has been flushed
\* may have reached the file, or a part of it, and once the tail is flushed the
\* number, too.
Crash ==
  /\ Running /\ mem # NoDb
  /\ mem' = NoDb
  /\ IF job = NoJob THEN UNCHANGED disk
     ELSE disk' \in IF job.tail THEN Counted \cup Cuts(Unpatched)
                   ELSE LET flushed == SubSeq(job.text, 1, job.out)
                        IN  Cuts(flushed) \cup {flushed}
  /\ job' = NoJob
  /\ outcome' = "ok"
  /\ UNCHANGED <<saved, cmds>>

-----------------------------------------------------------------------------
(* load_file                                                               *)

\* The checksums of a section are written one after the other; their bytes are
\* read into the slots in that order, their strings are made of the bytes that
\* are then in the slots of their types.
ReadSums(d) ==
  LET Nth(k) == Cardinality({s \in d.used : s < k})    \* where k is read to
      from == [s \in Slots |-> {k \in d.used : Nth(k) = s}]
  IN  [d EXCEPT
        !.bytes = [s \in Slots |-> IF from[s] = {} THEN 0
                                   ELSE d.bytes[CHOOSE k \in from[s] : TRUE]],
        !.str = [s \in Slots |-> IF s \in from[s] THEN d.bytes[s] ELSE 0]]

\* As many items as the header says, or as there are.
EntriesRead(text) == SubSeq(text, 3, IF text[2].n + 2 < Len(text) THEN text[2].n + 2
                                      ELSE Len(text))

\* One entry: its parent must have been read before, its id must be new.
LoadEntry(load, item) ==
  IF ~load.ok \/ item.kind # "entry" THEN [load EXCEPT !.ok = FALSE]
  ELSE IF \/ ~(item.parent = Root \/ item.parent \in InUse(load.m))
          \/ item.id \in InUse(load.m)
          \/ ~item.data.loads
  THEN [load EXCEPT !.ok = FALSE]
  ELSE LET m == PutChild(load.m, item.parent, item.id, FALSE) IN
       [load EXCEPT !.m = [m EXCEPT
          !.spare[item.id] = item.kids,
          !.own = IF item.kids > 0 THEN @ \cup {item.id} ELSE @,
          !.data[item.id] = ReadSums(item.data)]]

\* Plausible slip: the tail is not looked at.
MutWholeFile(text, n) == Len(text) >= n + 2

\* The tail comes where it should, and nothing after it.
WholeFile(text, n) == Len(text) = n + 3 /\ text[Len(text)] = TailItem

\* load_file: what it makes of a file, and whether it succeeds.
Load(text) ==
  IF Len(text) < 2 \/ text[1] = Torn \/ text[2] = Torn
  THEN [ok |-> FALSE, m |-> EmptyDb]
  ELSE LET n == text[2].n
           start == [ok |-> TRUE, m |-> [EmptyDb EXCEPT !.spare[Root] = text[1].kids,
                                                       !.own = {Root}]]
           read == FoldLeft(LoadEntry, start, EntriesRead(text))
       IN  [ok |-> read.ok /\ WholeFile(text, n), m |-> read.m]

LoadFile ==
  /\ Command /\ mem = NoDb
  /\ LET load == Load(disk) IN
     IF load.ok THEN mem' = load.m /\ outcome' = "ok"
                ELSE mem' = NoDb /\ outcome' = "refused"
  /\ UNCHANGED <<disk, job, saved>>

\* newdb.
NewDb ==
  /\ Command /\ mem = NoDb
  /\ mem' = EmptyDb /\ outcome' = "ok"
  /\ UNCHANGED <<disk, job, saved>>

\* fres_database_handle, of unloaddb and exit.
Unload ==
  /\ Command /\ mem # NoDb
  /\ mem' = NoDb
  /\ outcome' = IF mem.dangling THEN "double free" ELSE "ok"
  /\ UNCHANGED <<disk, job, saved>>

Next ==
  \/ \E p \in Places, c \in Contents, bad \in BOOLEAN : Add(p, c, bad)
  \/ \E e \in Entries : Delete(e)
  \/ StartSave
  \/ WriteEntry
  \/ FlushFails
  \/ WriteTail
  \/ SeekFlushFails
  \/ FinishSave
  \/ LoseWrites
  \/ Crash
  \/ LoadFile
  \/ NewDb
  \/ Unload

Spec == Init /\ [][Next]_vars

-----------------------------------------------------------------------------
(* Properties                                                              *)

Db == [kids : [Places -> Seq(Entries)], spare : [Places -> Nat], bad : SUBSET Entries,
       data : [Entries -> Data], own : SUBSET Places, dangling : BOOLEAN]

\* The memory and the save under way hold what the C structures can hold, and
\* every entry in use has one place.
TypeOK ==
  /\ mem # NoDb =>
       /\ mem \in Db /\ mem.bad \subseteq InUse(mem)
       /\ \A p, q \in Places : \A i \in DOMAIN mem.kids[p], j \in DOMAIN mem.kids[q] :
            mem.kids[p][i] = mem.kids[q][j] => p = q /\ i = j
  /\ job # NoJob => /\ mem # NoDb /\ job.out \in 0..Len(job.text)
                    /\ Len(job.text) - job.out <= BufferSize
                    /\ job.rest \in Seq(Entries)
  /\ outcome \in {"ok", "some bad", "refused", "undefined", "double free"}
  /\ cmds \in 0..MaxCmds

\* The checksums of a section are of kinds of which none before is left out.
NoGap(d) == \A k \in d.used : 0..k \subseteq d.used

\* The same kinds of checksums with the same bytes, and strings made of them.
SameSums(d, c) ==
  /\ d.used = c.used
  /\ \A s \in c.used : d.bytes[s] = c.bytes[s] /\ d.str[s] = c.bytes[s]

\* What was to be saved: the entries that verify, each below its parent and in its
\* order, with the checksums of every section in which no kind is left out.
\* Their strings are made anew: those that edit has set may have been others.
ToBeSaved == UNION {Range(saved.kids[p]) : p \in Places}
GivenBack(load) ==
  /\ load.ok
  /\ load.m.kids = saved.kids
  /\ \A e \in ToBeSaved : NoGap(saved.data[e]) => SameSums(load.m.data[e], saved.data[e])

\* Whatever a crash or a failed write leaves behind, load_file takes it for a
\* database only if it gives back the whole of what was to be saved.  (It may: of
\* an empty database nothing is missing without the number of its entries.)
LoadsAllOrNothing ==
  job = NoJob /\ Load(disk).ok => GivenBack(Load(disk))

\* A file that was written to its end loads, unless load_file refuses the data of
\* one of its entries, and gives back what was to be saved.
SavedLoads ==
  job = NoJob /\ saved.whole /\ (\A e \in ToBeSaved : saved.data[e].loads) =>
    GivenBack(Load(disk))

-----------------------------------------------------------------------------
(* What the comments and messages of the code say, and the code does not do *)

\* ffprinter.c:965, "free allocations recorded in misc alloc record": what is
\* recorded is an allocation when unloaddb or exit frees it.
FreesAllocations == outcome # "double free"
=============================================================================
