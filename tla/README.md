# A TLA+ verification project for ffprinter

ffprinter is an interactive program (C, single-threaded, one asynchronous
signal) that keeps databases of "fingerprinted" files: a tree of entries, each
with names, tags, times, checksums of the file and of its sections, and indexes
to find entries by all of these. This directory models its core data structures
and commands in TLA+, model-checks them with TLC and proves the central facts
with TLAPS. Paths below are relative to the repository's `src/` directory unless
they start with `lib/`; `FP`, `FF`, `DB`, `TM` abbreviate `ffp_fingerprint.c`,
`ffp_file.c`, `ffp_database.c` and `ffp_term.c`.

## 1. Inventory

| Part | State | Operations | What is hard | What makes it correct | Status |
|---|---|---|---|---|---|
| Layer 2 arrays (`ffprinter_function_template.h`) | blocks of slots with usage bitmaps, a growing vector of blocks, a bitmap of full blocks; every object remembers its index | init, add, del, get, teardown | reuse of slots, growth, a failing malloc, indexes kept by the objects themselves | bitmaps exact, index leads back, every chunk accounted for | modelled, proved |
| Translation chains (same file) | per string a node with head, tail, count; a doubly linked list through the targets | link, append, unlink, edit (= unlink, change, link) | ends and the last member, stale links in the target, freed nodes | a chain holds exactly the live targets of its string, in order, links agree both ways | modelled, proved |
| Fingerprinting (`ffp_fingerprint.c`) | stack of directories, working directory, open file and directories, depth left; sections and samples | gen_tree, fingerprint_file | failures below, links and paths that chdir("..") does not undo, a file that shrinks while it is read, section arithmetic, an int that overflows | sections cover the file once; the walk stays inside; nothing is left open | modelled, mostly proved |
| File data (`ffp_term.c`, `ffp_database.c`) | size, checksums, section array, samples, the indexes that lead to them | attach, detach, edit, verify_entry | indexes that follow each edit, gaps in the array, two sets of checks | what verifies loads; an index leads to what carries its string | modelled |
| Look-up of children by name (`ffp_database.c`) | the chains, the existence matrix, two shared bitmaps | find_children_via_file_name | four ways to search, chosen by counts that go stale | whichever way, the same children | modelled |
| Existence matrices (`ffprinter_function_template.h:588`) | per position and character a bitmap of nodes | add, delete, look up a part | marks of deleted names, failed allocations, bitmaps of different lengths | a superset of the matches, verified afterwards | modelled |
| Entry tree and ids (`ffp_database.c`, commands in `ffp_term.c`) | parent and list of children, branch id, id table | touch, mkdir, cp, rm, mv, edit | recursion over lists that change meanwhile, copies of copies, ids linked twice, slots taken again | all entries reachable, ids lead to their owners, a copy has the shape of its source, a removal takes the subtree and nothing else | partly |
| Date time tree (`ffp_database.c:1962`) | list of years, months, days and hours by index with in-use marks, a sorted list per hour | link, unlink, look-up | insertion at the head, removal from the middle, a year freed with its last entry, day 31 | an hour's list is exact and sorted; a year is kept just as long as it is needed | partly |
| Command loop and SIGINT (`ffp_term.c:524`, `:5253`) | in_function, interruptable, need_cleanup, the loose resources | process_cmd, inthandler, prompt, fp_cleanup | a signal at any interruptable moment and longjmp past the clean-up | nothing stays open, no half-made entry stays in the tree | partly |
| Database files (`ffp_file.c`) | the file, a write buffer, the list of entries to save, the record of allocations | load_file, save_file | crash and lost write while saving, entries left out, allocations freed twice | a torn file loads only if nothing is missing; a whole one gives back what verifies | partly |
| Database table and session (`ffp_directory.c`, `ffp_term.c`) | open databases, current directory, the unsaved mark | newdb, loaddb, savedb, unloaddb, exit, cd | a mark that says saved when it is not, a current directory whose database has gone | no change is dropped without a question; a path leads to what is there | partly |
| Simple bitmap (`lib/simple_bitmap.c`) | blocks of bits, counts of ones and zeros | read, write, count, and, or, copy, grow, shrink, searches | block boundaries, lengths that differ | counts exact | partly (what is called) |
| find, scan, field matching; uthash; front end; error reports and memory wiping; tests | | | | | not modelled (section 6) |

How the parts meet. Every object lives in a layer 2 array and is named by its
index or by a pointer that stays valid, as wiped memory, after it is freed.
make_entry, copy_entry, del_entry and edit call the link and unlink functions of
the tree, the id table, the chains and the date time trees one after the other
and ignore most of their results. A command names entries by path (through
find_children_via_file_name, hence the chains, the existence matrix and the
bitmaps) or by id (through the id table). savedb walks the tree of what verifies,
loaddb builds it again through the same link functions. All of this is one
thread; the only interleaving is SIGINT, which longjmps from interruptable code
to the prompt. What makes the program hard is therefore long sequences of
commands: pointers that survive their object, lists that change while they are
walked, indexes updated one by one, counts and marks that are not taken back.
`PROJECT.json` lists each such place under "hazards".

## 2. Modules

| Module | Stands for | Used by |
|---|---|---|
| `ObjectStore` | what a layer 2 array promises: handles, lowest first, contents untouched by others | refined by `Layer2Array` |
| `Layer2Array` | the layer 2 array: slots, bitmaps, growth, teardown | `MCLayer2Array`, `Layer2ArrayProofs` |
| `NameIndex` | what the chains promise: per string the carriers in the order they were linked | refined by `TransChain` |
| `TransChain` | chains of targets that share a string | `MCTransChain`, `TransChainProofs` |
| `EntryTree` | tree of entries, id table and the commands on them | `MCEntryTree` |
| `DateTimeTree` | the tree of times of addition | `MCDateTimeTree`, `DateTimeTreeProofs` |
| `FpSession` | fp, its walk through directories, SIGINT and the clean-up | `MCFpSession`, `FpSessionProofs` |
| `SectionLayout` | how fingerprint_file cuts a file into sections and samples | `FileData`, `FileDataProofs` |
| `FileData` | what fp, attach, detach and edit make of the data of one entry | `MCFileData`, `FileDataProofs` |
| `DataFile` | save_file, load_file, a crash, a failed or a lost write between any two of their steps | `MCDataFile`, `DataFileProofs` |
| `Session` | the table of databases, their files, the current directory, the unsaved mark | `MCSession`, `SessionProofs` |
| `SimpleBitmap` | the bitmap operations that have a caller | `ChildSearch` |
| `ChildSearch` | name chains, existence matrix and look-up of children, composed | `MCChildSearch`, `ChildSearchProofs` |

Each `MC...` module only gives constants their values for TLC.

**Layer2Array.** `l1_num`, `usage_map`, `l1_arr_map`, `arr` are the fields of
the C structures (a bitmap is the set of its one bits); `heap` holds the first
block of each chunk that malloc gave and free has not taken. `AddInPlace`,
`AddAfterGrowth`, `AddMallocFail` and `AddMapFail` are the ways through
`add_..._to_layer2_arr` that change anything (a failing realloc of the vector
returns before it has); `Del`, `DelAll`, `Fill` are del, the teardown and the
owner writing into its object. `status = "dangling"` is the state after a moved
vector and a failed malloc. `status = "astray"` is the one after a failed
`ffp_grow_bitmap`, whose result add ignores: vector and chunk are stored, the map
keeps its length and is full, and the search for a zero, failing too, leaves an
index behind the end of the vector. It can fail only when the map needs one more
block of `MapBlock` bits (64 in the code, so at lengths 64, 128, ...). After
both, C gives no meaning to any further call: the model stops there.

**TransChain.** One memory `db` with the link fields of the targets (`str`,
`prev`, `next`, `tran`) and of the nodes (`key`, `head`, `tail`, `number`); the
hash table is the set `used` of nodes. Slots of both are taken lowest first and
wiped, so that a stale pointer meets exactly what it would meet in C. `Add`,
`Delete`, `Rename` are the calls made by make/copy/load, del and edit. A null
pointer that is followed or a node taken out of the table twice sets `crashed`.

**EntryTree.** One memory `db` again: `child`, `parent`, `branch`, `id`, `node`
of the entries, `key` and `tar` of the id nodes, `freed` for lists of children
given to free. `DelEntry`, `CopyEntry` are del_entry and copy_entry with their
recursion; `Transfer` is what cp and mv share. A command may name any entry the
id table leads to. `outcome` says how the last command ended: "undefined" (freed
memory or a null pointer used), "endless" (a copy that meets its own copy) or
"stale" (an id whose node leads to a free slot; what happens next depends on
wiped memory, so the model stops). A new id is the least unused one, which makes
ids come back at once and is the worst case for stale nodes; that
set_new_entry_id may give up after 1000 tries is left out. Names, messages,
file data and times are left out (copy_entry also fills the copy's message with
the tag of its source: no property looks at messages).

**DateTimeTree.** `head`, `prev`, `next` are the lists of the hours, `marks` the
in-use marks of months and days by address, `years` the list of years. The
address of day 31 is that of the next month (`dtt_month` has room for days 0 to
30): `DayMark` says so. An hour's mark is its head being non-null. Day 31 of
December lies over the object behind the year and is excluded by the
assumption on `Cells`. To decide whether a month is still used, unlink looks at
its days 0 to 31 (DB:2307): what it reads as day 0 is hour 0 of day 31 of the month
before (`DayZero`), as day 31 the mark of the month after, in December the low byte of
`obj_arr_index` behind the months, any value when the year is taken from the pool
(`low`). A month whose last entry goes while one of them is set keeps its mark, and
the year is never freed unless the month is used and emptied again: `Kept` says when,
the history `left` which months these are, and `WayDownExact` that no other mark
outlasts the entries that need it. The time 23:59:59 of 31 December 1969 is -1 for
timegm and is taken for a failure (DB:2001) that the callers ignore: the entry is
linked nowhere (`AddRefused`, `EditRefused`). The tree of user times works the same
way; from the tree of times of modification nothing can be unlinked (the function
refuses it), and it is not modelled.

**FpSession.** One behaviour of the command loop: `Prompt`, `StartFp`,
`StartOther`/`OtherReturns`, `FpReturns` with `CleanUp` are prompt, process_cmd and
fp_cleanup, and `SigInt` is inthandler, possible before every step. The path given to
fp may be any: `start` is the directory or file it leads to, wherever the process
stands (".", "..", several names, from the root, over links), while what a directory lists
is a single name in it, which may be a link to any other node or to none (`Links`).
gen_tree takes each chdir back by `chdir("..")`, which leads to the directory above
(`Front(cwd)`) and so undoes neither of these. The stack of
calls of gen_tree is `stack`, one frame per directory being read; a step ends
where the code switches `interruptable` or calls into the file system, so that
what runs with interrupts off is one step. `openDirs`, `records`, `maxRec` are the
open directories, the layer 2 array that records them and its highest index;
`openFiles`, `fileUsed`, `entryUsed` the rest of what is loose. Where closedir fails,
gen_tree returns and leaves the record (`CloseFails`), which is then marked as `shut`; an
entry for which no id is left is recorded before it has a parent (`bare`). fp_cleanup
has no right to either: it would close the directory again or follow a null parent
(`CleanUpBreaks`), and the model stops there (`undefined`). Names are looked up
in the working directory the process is really in, while entries go to the
place the caller believes to be in: `node` and `place` of an entry. need_cleanup is
on exactly when fp returns an error. The installed handler may stay (BSD) or work
once (System V, which glibc gives a program that defines `_XOPEN_SOURCE` as this
one does); the second SIGINT then ends the program (`killed`). A SIGINT between a
longjmp'ed return of prompt and its next setjmp has no meaning in C
(`undefined`). Both end the model. What fingerprint_file computes is the subject
of `FileData`: here it opens, and ends in one of the ways it can.

**SectionLayout and FileData.** `SectionLayout` has the arithmetic of
fingerprint_file as operators: the number of sections by class of size,
`NormSize`, `SectStart`, `SectSize`, `Sampling`, with the table of classes and the
bounds on samples as constants. `FileData` keeps the data of one entry (`data`), the
section objects (`sect`, `used`) and the three indexes (`sizes`, `sums`,
`sectSums`). `Fp` is fingerprint_file, with a file that stays as it is, or ends
early at any byte; `AttachFile`, `AttachSect`, `DetachFile`, `DetachSect`, `Edit`
are the commands. A checksum is the pair of first byte and length of what it was
computed from, so that a checksum of the wrong bytes shows. The reads go through
`ToInt`, because `bytes_left` is an int while sizes are 64 bits. `VerifyResult`
and `Loads` are the two sets of checks, of verify_entry and of load_file.

**DataFile.** `mem` is a database in memory (children, spare places in their
arrays, entries that fail verification, section checksums, the arrays whose
address load_file recorded), `disk` its file and `job` a save under way: the entries
still to go through, the items written and those that left the buffer.
`StartSave`, `WriteEntry`, `WriteTail`, `FinishSave` follow save_file item by item:
`WriteTail` writes the tail, which buf_seek flushes while the number of entries in
the file still is 0 (`Unpatched`); `FinishSave` writes the number and closes. Between any
two of them `Crash` takes the memory, and leaves some of what has been flushed, after the
tail with the number still 0 or in part there (`Counted`). `FlushFails` makes flush_buf fail
for a full buffer, `SeekFlushFails` in buf_seek, which does not look at it and writes the
same buffer again where the number belongs, and `LoseWrites` in the seek, the last
flush or the close, after which save_file returns success. `LoadFile`, `Unload` and the commands in between
give and take what the record of allocations is told, or not told.

**Session.** `heap` holds databases by handle, `table` those in use, `files` what
is on disk, `cur` the current directory as the code keeps it: a name and an
id, and pointers that may outlive what they point to. `Resolve` is
update_dir_pointers with the parsing of paths behind it; each command resolves
its locator and then does what its handler does. `excused` is a history of the
losses the code allows (section 5).

**SimpleBitmap and ChildSearch.** A bitmap is its length, its set of one bits
and its two counters; `And`, `Or`, `Copy`, `Grow`, `Shrink` work on blocks, and so
touch bits behind a length that does not fill its last block, which
`Count` cleans. `ChildSearch` has the children of each entry, the name chains (in
the abstract form `NameIndex` promises), the translation slots with their counts
that are never reduced, the matrix with its maps per position and character, and
the two bitmaps all look-ups share (growing those is taken to succeed). `Add` has
the three allocations that may fail; `FindChildren` is find_children_via_file_name with the costs by which it
chooses one of its four ways.

**Damage.** Several operations are known to break their structure (section 5).
A history variable (`stale`, `damage`, `lost`) is 0 until the first such
operation and then counts. The properties that say a structure is exact are stated
for the time before, so that a run shows two things: the structure
is exact as long as none of the listed operations happens, and the list is
complete. Parts of `TreeExact` and `WayDownExact`, and `FoundById` as a whole, are
stated without that condition. The violation runs show what damaging operations do.

## 3. Runs

| Run | Checks | Bounds |
|---|---|---|
| `Layer2Array` | `TypeOK`, `MapExact`, `IndexRoundTrip`, `ChunksAccounted`, refinement of `ObjectStore` | blocks of 2 slots, 2 blocks at the start, 1 per growth, 4 in all, bitmap blocks of 3 bits: a block becomes full and not full, a growth within the bitmap's block and one that needs another, and the failures of both |
| `TransChain` | `TypeOK`, `ChainsExact`, `LinksConsistent`, `NoCrash`, refinement of `NameIndex` | 3 targets (head, middle, tail), 2 nodes and strings, count to 5, 7 operations after the first stale link |
| `EntryTree` | `TypeOK`, `TreeExact`, `IdsExact`, `FoundById`, `NoUndefined`, `CopyIsFaithful`, `RemovalIsExact`, `MoveIsFaithful` | 4 entries (an entry with two children, or a subtree and its copy), 5 id nodes, one tag; 2 commands from the first damage on |
| `DateTimeTree` | `TypeOK`, `HoursExact`, `WayDownExact` | 3 entries, 2 minutes, 5 hours: a day 31, two hours of a day in the next month, the month after that, a December of another year; up to and with the first damage: what may follow it is left to `WayDownIsExact` |
| `FpSession` | `TypeOK`, `DirpsRecorded`, `CleanUpIsSafe`, `StaysInside`, `CleanedUp`, `FpEnds` | a directory with a file and a directory that holds a file of the same name, and beside it a link to the inner directory; fp called twice from any directory, on the inner one and then, with the leftovers, on any path with a depth of 2 and on the outer one with none; any failure, any number of SIGINTs and other commands |
| `FileData` | `TypeOK`, `FingerprintExact`, `VerifiedLoads`, `IndexesExact`, `DetachExact` | files of 0 to 13 bytes on both sides of every boundary between classes; an int that holds 4, so that the sections of the largest file overflow; 4 section objects, so that one is missing for 13 bytes; 4 commands |
| `DataFile` | `TypeOK`, `LoadsAllOrNothing`, `SavedLoads` | 4 entries in any tree, a buffer of 3 items, 3 kinds of data (a SHA1 whose string is not that of its bytes, a SHA256 alone, data that load_file refuses), 5 commands, each save interrupted at every item, before and after the tail and the number; a buffer still holds everything at the end of a short save and has been flushed by the end of a long one |
| `Session` | `TypeOK`, `OnlyGoneIsUsed`, `NothingLostUnasked` | 3 handles, 2 names, 2 entry ids, 10 locators (absolute, relative, by id, with and without a database), 8 commands |
| `ChildSearch` | `TypeOK`, `FindsExactly` | 3 entries, names of 1 and 2 characters that share characters and places, blocks of 2 bits, a result buffer of 2, one failed allocation, 7 commands |
| `TreeOrphan` | violated: `DeleteIsRecursive` | as `EntryTree`, with more tags and nodes |
| `DetachHoles` | violated: `SectionsCollapse` | as `FileData` |
| `DoubleFree` | violated: `FreesAllocations` | as `DataFile`, 3 entries and a buffer of 2 items |

What the main properties say, beyond the types:

* `CopyIsFaithful`, `RemovalIsExact`, `MoveIsFaithful`, `DetachExact` and
  `FindsExactly` compare, in every reachable state and for every argument, what
  the C algorithm would leave or return with a description of it that
  shares no code with the algorithm.
* `FingerprintExact`: every byte of a file in exactly one section, checksums of
  the section's own bytes, samples one behind the other inside their section.
* `VerifiedLoads`: what verify_entry accepts, load_file accepts, except in three
  named cases, and in those load_file does refuse.
* `LoadsAllOrNothing`, `SavedLoads`: a file a crash or a full disk left behind is taken
  for a database only if it gives back all that was to be saved (it may: nothing is
  missing from the file of an empty database whose number of entries was not written);
  one written to its end gives back exactly the entries that verify.
* `OnlyGoneIsUsed`, `NothingLostUnasked`: no command works on a freed database
  unless the current directory is in one; no marked change is dropped unasked.
* `StaysInside`: after any failures and signals, if no directory below what fp
  was given is listed through a link, the walk is neither above what fp was given nor too deep; the
  depth holds with any links. The directory fp was called in is left
  only if what it was given does not stand there.
* `DirpsRecorded`, `CleanUpIsSafe`: an open directory is recorded, and the clean-up
  touches nothing that is not fp's own, but for the two cases of `CleanUpBreaks`.

The structures are symmetric in their slots beyond "lowest first", their
operations touch a target and its direct neighbours, and the lists have three
kinds of members: first, last and middle. Three or four objects therefore show
every local situation, including a slot that is freed and taken again while a
pointer to it survives. Two levels of directories, in each of which fp is called on each, and two calls of fp show a
failure below a caller that goes on, records of an interrupted call among those
of the next, and pointers that outlive their call. Where the sizes of things decide
(`FileData`, `ChildSearch`), the constants of the code are scaled down
together, and the sizes chosen lie on, below and above each of the boundaries.
Deadlock is not checked: the user may stop, the bounds end
the behaviours, and outcomes without meaning end the model.

One liveness property is stated, `FpEnds`, under weak fairness of the steps of fp:
inside a command nothing waits, the program is a single thread, and calls into the
file system return. No fairness is assumed of the user or of SIGINT. The other
modules are driven by a user who may stop at any time, and their operations end
within one step; searches that never end are an outcome there.

Every property of a passing run is shown to be able to fail: the operators named
`Mut...` are plausible slips in the code (a forgotten assignment, an end left
out, an off-by-one), and with the slip in place of the real definition TLC finds
that property violated.

## 4. Proofs

All theorems hold for every value of the constants; the only assumptions are those
on the constants (`SizeAssumption`, `ChainAssumption`, `DateAssumption`, `FileSystem`,
`LayoutAssumption`, `FileAssumption`, `SessionAssumption`, `BlockAssumption`,
`DataFileAssumption`, `SearchAssumption`), which TLC evaluates in the runs.

**Layer 2 arrays.** `Layer2ArrayProofs` proves, for every block size, number of
blocks at the start and per growth, bound and set of contents: `TypeCorrect`,
`MapIsExact`, `IndexesRoundTrip`, `TeardownIsExact`. The invariant is inductive as
the conjunction of the type, the exact bitmap, "the object in slot s of block a has
index a * L1Size + s" and "the chunks are the first one and those at InitSize +
k * GrowSize, and the one whose bitmap could not be grown". The round trip needs the lemmas on division and remainder
stated there; the teardown needs that the length is always InitSize + k *
GrowSize, which makes the loop of the C code meet exactly the starts of the chunks.
The last part of the module proves `ImplementsStore`: every behaviour of the array
is one of `ObjectStore`. The argument is that the flat index is a bijection between
pairs of block and slot and the handles of the store, that the first free slot of the
first block that is not full is the least free handle, and that growing adds
handles behind all others.

**Chains.** `TransChainProofs` proves, for any numbers of targets and nodes and any
strings: `TypeCorrect`, `LinksAreConsistent`, `NeverCrashes`. `LinksConsistent`
alone is not enough to go on from: a ring of members beside the chain that
head and tail delimit would satisfy it. The inductive invariant adds that the members
of a node can be numbered so that next goes up and prev goes down (`Linear`). Each of
the five ways to unlink, linking alone and appending has a lemma that takes such a
memory to such a memory, and a rename is the composition of two of them.
The second part of the module goes from links to walks. `ChainExists`: following next from
the head meets every member of the node once, in the order of the numbering, and
stops at the tail, because a place that has been met has a smaller number
than all that follow and there are no more than `MaxTargets` of them. From it
follow `ChainsAreExact` (forwards, backwards, all carriers and nobody else), and, with
one lemma for what each operation does to the walk of its own string (`LinkWalks`,
`UnlinkWalk`) and one that it leaves the others alone (`OtherWalks`, `SameWalk`),
`ImplementsIndex`: every step is a step of `NameIndex`.

**Date time tree.** `DateTimeTreeProofs` proves, for any number of entries and any hours
and minutes: `TypeCorrect`, `HoursAreExact` and `WayDownIsExact`. The invariant has two
parts. In any state, damaged or not, the list of years is free of repetitions and has
exactly the years under which a month is marked (`YearsExact`); it is kept because the
same unlink that takes the last mark of a year takes the year out (`UnlinkYears`). Until
the first damage, each hour has a numbering of its entries (`Listed`) in which next
and prev lead to the neighbours and minutes do not decrease, and the marks are
those above the entries and those of the months kept (`Good`). `HoursExact` speaks of the walk along next only; the numbering adds
that next ends, without which `TakeOut` could not be shown to keep it. Taking out
the first or last of a list, putting one in at any place and leaving a list alone have a
lemma each (`FirstOut`, `LastOut`, `PutIn`, `Frame`); that the search of the code finds
that place is `InsertIs`; that what `ClearDay`, `ClearMonth` and `ClearYear` take away is
not above another entry is `RestMarked`, where the marks that a day 31 shares with
the next month are the exception that `UnlinkDamages` names; that they do take it away
when nothing needs or keeps it is `DayGivenUp` and `MonthGivenUp`, and `UnlinkGood`
puts the two together.

**Session.** `SessionProofs` proves, for any numbers of databases, entries and commands and any
locators: `TypeCorrect`, `OnlyGoneIsEverUsed` and the action property
`NothingIsLostUnasked`. The inductive invariant says what a directory can be: the root, or
the name, id and handle of a database that had this name when the directory was made, its
entry in the tree of that database for as long as the database is in use (`DirOK`). Paths are
walked by a recursive function; `WalkLed` shows by induction along the path that a walk
from such a directory ends in one that is brought up to date, or in the current one.
For the second result the invariant has that a database in use is marked, excused, empty
or in a file (`Covered`), since that a file once had its data is of no use when another
database has been saved over it.

**fp.** `FpSessionProofs` proves, for every tree of directories, files and links, every
path, every depth and any number of calls of fp: `TypeCorrect`, `StaysInsideAlways`,
`DirpsAlwaysRecorded`, `CleanUpSafe` and the action property `CleanedUpAlways`. The
inductive invariant says that the directory the k-th call of gen_tree reads stands k - 1
levels below what fp was given (`Nested`: a place is counted in entries, not in
directories, so that links do not matter); that, without linked directories below the start, the
working directory is below the start, at least as deep as there
are calls (`Within`), so that each `chdir("..")` is paid for by a
`chdir` into a listed directory even when failures below have skipped theirs; that the depth
left and the calls add up to no more than the depth given (`WithinDepth`); that the
current call has opened no directory at a place that is still ahead of it (`Fresh`), so that
a directory and its record are told apart by the place; and that the records of the
directories it has open are within those the clean-up goes through (`Marked`).

**File data.** The first part of `FileDataProofs` is about `SectionLayout`: for any table of
classes that `LayoutAssumption` admits and any size the code splits (`Splits`: neither 0
nor the size of the last class), `SectionsPartition` says that the first section starts at
0, each starts one byte behind the one before, the last ends with the file, and none is
longer than the first; `SamplesApart` that the samples of a section lie in it and do not
overlap. The second part proves, for any files, kinds of checksums, numbers of sections and
commands: `TypeCorrect`, `FingerprintIsExact`, `VerifiedDataLoads`, `IndexesAreExact` and
`DetachIsExact`. The inductive invariant is `IInv`:

* `Sound`: the memory has its type, a slot not in use is wiped, and the used places of the
  array hold slots in use, none of them twice. The last is what `TypeOK` does not say and
  detach needs: a section that is given back must not stay in a second place.
* `Tracked`, until the history variable `stale` is set: what is linked has the string it is
  linked under as its `tran` (`FileTracked`, `MemberExact`). `IndexesExact` says only
  what the nodes lead to; without the agreement of `tran` and `str` an edit could take the
  wrong node away. Wiped data, filled data, new and detached sections, edits and the
  deletion have a lemma each (`WipedTracked`, `FilledTracked`, `PutTracked`,
  `DetachedTracked`, `SumGivenTracked`, `RelinkedTracked`, `GoneTracked`).
* `FingerprintExact` itself: `WholeExact` derives it for the step that makes the
  data from the two theorems on the layout; every other command changes `made`.

For detach, the loop is a recursive function, one place per step (`CollapseStep`). That the
array stays free of repetitions (`CollapseKeeps`) holds for any choice of sections; that the
others end up where they should (`CollapseMoves`) is an induction in which the place to
fill is the number of sections met so far (`LeftOf`), up to the second gap that has sections
behind it. `VerifiedDataLoads` needs only `Sound`.

**Bitmaps.** The first part of `ChildSearchProofs` proves, for any block size and any lengths:
`OperationsCountExactly` (an operation on bitmaps with exact counters leaves exact
counters, refused or not), `BlockWiseIsExact` (`And` over a bitmap that is no longer
than the other gives the bits both have, `Or` over one that is no shorter the bits either
has, though both work on whole blocks) and `VisitsTheOnes`: the loop that runs as often as
`number_of_ones` says, each time from the first one bit after the last, meets every
one bit once, in order. That loop is recursive; the proof numbers its places by the one
bits up to them (`PlaceOf`).

**Look-up of children.** The second part of the module proves, for any names and parts, any
numbers of entries, any block size and any sizes of the buffers: `TypeCorrect` and
`SearchIsExact`, that each of the four ways of find_children_via_file_name returns
meant children only, none twice, and as many as the buffer takes. The inductive invariant
`Inv` says, besides the types, that a chain lists the entries of its name, each once
(`ChainsExact`); that no directory has a child twice; that a name has one structure while it
has entries, and none else (`Structures`); and that, while no allocation has failed, every
character of a name marks the array its structure is in, at its position, and no map is
empty (`Marks`). The counts of a structure, which are never reduced, are nowhere in it: they
decide which list is searched, and the result does not depend on that. Neither do the
marks that deleted names leave behind, nor what is left in the buffers: the look-up may
find too many arrays (`Holding` looks at the names again), it must only not miss one
(`LookUpComplete`). The loops are folds; a fold is turned into the sequence of its
values (`FoldExists`, `TraceOf`), along which `PrefixInduction` goes. That a new name has a
free slot is a pigeonhole argument: there are as many slots as entries.

**Database files.** `DataFileProofs` proves, for any number of entries, any file data, any buffer
and any number of commands: `TypeCorrect`, `LoadIsAllOrNothing` and `SavedIsLoaded`.

`LoadIsAllOrNothing`: what load_file takes for a database gives back all that was to be
saved. The invariant `SaveInv` says that a save under way has an empty file before it
and, as long as it has not come to its tail, a text with a number of entries that is
still 0. A text cut anywhere therefore has no number of entries, or the number 0 and no
tail as its third item, or less than its number says (`CutNeverLoads`). What is left of the last steps,
the whole text with the number 0, with the right number, with another one, or with the
number behind it, loads just if it is complete (`LeftOver`).

`SavedIsLoaded`: a file that was written to its end loads, unless the data of one of its
entries is of a kind load_file refuses, and gives back each entry that verify_entry accepts,
below its parent, in its order and, if no kind of checksum before one in use is left out, with the
bytes of its checksums. Three things have to be shown.

* What save_file links. link_entry_for_save_file goes down chains of only children in a
  loop, calls itself for several, passes the end of the list on and sometimes steps back by
  one. The model has it as two recursive functions on the calls, `down` and `link`. That these
  functions exist as written (`RecursionExists`, `ChainRecursion`, `LinkRecursion`) and what a
  call comes to (`CallsEnd`) is shown by induction on the height of the entry, a rank that
  every tree has (`IsTree`, `Depths`). `Extends` says that a call keeps the order of the list it
  gets and adds good entries only, each behind its parent; `Complete` that the good children
  of an entry are in the list, in their order. Both together give `SaveOrder` (`SaveOrders`):
  the list is that of the entries to be saved (`Kept`), each once, behind its parent and the
  children before it.
* What load_file makes of it. `LoadedTo` says, of the first entries of such a list, that what
  has been read has just these, in the order of their parents' children; `LoadOne` is one item,
  `WholeReads` the loop. An item never fails, since its parent has been read before it and its id
  has not. `ReadSumsFacts` says that checksums read in the order of the slots in use come
  to their own slots if no kind is left out.
* That it stays so. `FileInv` says that the database in memory is a tree whenever there is one
  (`Good`), that the file holds only items save_file has written (`ReadableText`), that a save
  has written the first items of its list and has the others to write (`Saving`), that a file
  that loads gives back what was to be saved (`Gives`; `OkMeansLoads` says that load_file has then
  accepted the data of every entry), and that one that was finished loads, unless it refuses
  those (`Loadable`).

The file may be any that the program has left, a torn one included: `LoadGood` shows that
load_file makes a tree even of what it then refuses. Nothing is assumed of the file data that
enters. In particular the string of a checksum need not be that of its bytes: hex_str_to_bytes
(`ffprinter.c:328`) takes the second digit of each byte for a letter just if the first one is, so
that the bytes `edit` makes of a string are others if a letter and a digit meet, and `edit` copies
the string before its capitals are made small. What a load gives back are the bytes, and strings
made of them (`SameSums`); one kind of data in the run has another string.

The library's induction rules take an operator as a parameter, which the provers at hand
cannot instantiate. Each module of proofs therefore states the rules it needs for sets of
numbers (`SetInduction`, `LeastElement`) and derives them from the library's theorem that
the natural numbers are well-founded.

Only model-checked:

* `FpEnds`, since liveness is out of the prover's reach;
* the invariants of `EntryTree`, whose operations and properties are recursive operators along
  a tree that commands can damage, so that no rank to go by is left.

## 5. What the checks found

Three disagreements with what the code says of itself are violation runs, whose
counterexamples are short sequences of commands.

* `TreeOrphan` / `DeleteIsRecursive`: `rm -r` of an entry with two children leaves
  every second child in use, in all indexes, with a freed parent ("recursive
  delete", DB:3189).
* `DetachHoles` / `SectionsCollapse`: detach of two sections that are not neighbours
  leaves a null pointer among those that remain ("collapse the section array",
  TM:3497); verify_entry, show and del_file_data follow it.
* `DoubleFree` / `FreesAllocations`: unloaddb of a loaded database frees arrays of
  children that realloc has moved or del_entry has freed ("free allocations
  recorded", ffprinter.c:965).

Met while modelling, in the modules but without a run of their own:

* Chains and tree. An entry that shares its name, renamed to a new name, keeps its
  links into the old chain (DB:1904). A copied tagged entry is linked to its id twice
  (DB:2977): after it is deleted one node leads to the freed slot. `cp -r` makes
  children without a branch id (DB:2967), which verify_entry rejects and savedb
  leaves out. mv of an entry onto itself without -r deletes it; cp -r into the own
  subtree never ends; mv of a database follows a null parent. The count of a chain is
  never decremented. A failed malloc after a moved realloc leaves a dangling vector.
* Times. An entry earlier than the head of its hour makes a circle (DB:2111); one
  between two others is never taken out of its hour; del_entry unlinks an entry twice
  from the tree of times of addition (once meant for the times of modification), which
  can empty the whole hour; an entry on day 31 and one in the next month share a
  mark, and removing the first may free the year under the second. A month that is
  emptied while the next one is in use keeps its mark and with it the year, for good
  unless it is used again (DB:2307). An entry of 23:59:59 on 31 December 1969 is
  found in no tree.
* fp. gen_tree ignores failures below a directory, so that fp succeeds and calls the
  clean-up off with a half-made entry in the database, or a directory open and the
  working directory one too deep; a file of the same name there is then
  fingerprinted in place of the right one (FP:282). An empty file stays open. A path
  given to fp that is no name in the working directory is not taken back by
  `chdir("..")`: `fp -r .` and `fp -r ..` end in the directory above the one they were given
  (FP:299), and a linked directory leads on to the one above what it links to. With a link to a
  directory above it and no depth the walk goes round until opendir has no descriptor left.
  Where closedir
  fails, the record is left and fp_cleanup closes the directory a second time (FP:291,
  TM:5298); where set_new_entry_id finds no id for a file, fp_cleanup gives del_entry an entry
  without a parent (FP:320, TM:5281). The
  second SIGINT ends the program on glibc, also in a command that "cannot be
  interrupted". Sections of 2 GiB and more do not fit the int `bytes_left`. When a
  file ends early, section_num becomes the number of sections not read.
* File data. A sample that ends at the last byte after an edit of the size, samples
  in data of size 0, data whose sections were all detached, and a size above
  FILE_SIZE_MAX pass verify_entry and make the saved file unloadable. A section of
  one byte, as fp makes of a file of one byte, fails verify_entry. edit of a
  checksum does not set its type, so that del_file_data leaves a node that leads to
  freed data. Chains of sections compare SHA512 strings for checksums of every
  kind. attach accepts section 0.
* Files. Results of link_entry_for_save_file are overwritten by later successes, so
  that "some entries failed verification" is lost; a failed flush is ignored, and the
  writes go on behind the 1024 bytes of the buffer; save_file returns success after
  lost writes; a flush that fails before the number of entries is written (FF:2333) writes
  the buffer again in its place; the old file is truncated first; the bytes of a section's checksum are
  read into the slot of its position, not of its kind (FF:1468); file_size_str is not
  restored; the shift of del_entry reads one place behind a full array.
* Session. touch and mkdir without a slash use the cached pointers of the current
  directory, also after its database was unloaded; a relative path copies the
  directory before it is brought up to date; a loaddb that fails deletes the database
  that has the name with its suffix; savedb marks the database as saved whatever
  save_file returned; rm -r, edit, attach and detach never mark it as unsaved;
  databases "x" and "x.ffprint" are saved to the same file. Not in the module: loaddb keeps
  the length of a name in a char (TM:1705) and looks for the suffix of a name of 128
  characters or more at a negative index.
* Look-up. Translation nodes never get their string length, so that deleting from
  the existence matrix removes nothing, verifying it fails, and the result is
  ignored; names whose allocation failed cannot be found by a part; an exact
  match anywhere in the database hides partial matches among the children. Not in a
  module: find_children_via_entry_id_part reads an uninitialised map for databases of
  more than a million entries (DB:1497); section SHA512 strings go into the matrix of
  the file SHA512s (DB:2565); find_entry_in_sub_branch, which has no caller, looks up
  sizes in the matrix of names (DB:1112).

## 6. Not modelled, and the plan

Partly modelled, with what is missing:

* Entry tree: messages, user times and the give-up of set_new_entry_id.
* Date time tree: the tree of times of modification, from which nothing is unlinked,
  and look-ups with a mode coarser than the time of day.
* Command loop: fls and its clean-up of a single directory, the line cancelled by
  a SIGINT at the prompt.
* Command fp: running out of memory.
* Database files: the encoding of each field (an entry is one item); items in a wrong place,
  as a buffer that is written twice leaves them, are taken to be no items.
* Session: set, the printing of paths, aliases (nothing calls add_alias).
* Simple bitmaps: shifts, not, xor, groups and backward searches, which nothing calls.

Left out for good: find and scan (a ranking of scores over a database they do not
change); find_entry_in_sub_branch (no caller); uthash (third-party, used as a set of nodes
found by string); the parsing and printing of commands and help; error message
buffers; memory scanning; the tests.

What a next step would take, in this order:

1. `EntryTree` without recursive operators (the recursion of del_entry and copy_entry as
   a stack of frames, as in `FpSession`), which would open it to proof.
2. fls, and names that change (`Rename`) in `ChildSearch`.
