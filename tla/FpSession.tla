----------------------------- MODULE FpSession -----------------------------
(***************************************************************************)
(* The command fp and the loop it is called from: gen_tree walks down a     *)
(* directory with chdir and opendir, makes an entry for every file and      *)
(* directory and fingerprints the files; what is half done at any moment    *)
(* (the loose resources) is recorded in globals, from which fp_cleanup       *)
(* takes it back when fp returns an error.  SIGINT may arrive between any    *)
(* two steps; from interruptable code it longjmps to prompt.                *)
(*                                                                          *)
(* A place is where an entry stands below the entry of what fp was given, a  *)
(* node is a directory or file, named by the way to it from the root <<>>.  *)
(* The path given to fp may lead anywhere (".", "..", several names, from   *)
(* the root, over links); what a directory lists may be links.  Any call    *)
(* into the file system may fail.  Running out of memory is left out.       *)
(***************************************************************************)
EXTENDS Integers, Sequences, FiniteSets, SequencesExt

CONSTANTS
  Dirs, Files,    \* the directories below the root, and the files
  Links,          \* what the links lead to; nothing but a node if they dangle
  Depths,         \* what the user gives as --depth, NoDepth for nothing
  MaxRuns,        \* bound: how many times fp is called
  Given,          \* bound: what each call may be given, what its path leads to
                  \* and the depth
  None            \* a null pointer

NoDepth == -1
Nodes == Dirs \cup Files \cup {<<>>}
Listed == Dirs \cup Files \cup DOMAIN Links
Names == UNION {Range(n) : n \in Listed}

\* A directory, a file or an entry of one call of fp: the call and the place.
Handles == (1 .. MaxRuns) \X Seq(Names)

ASSUME FileSystem ==
  /\ Listed \subseteq Seq(Names)
  /\ \A n \in Listed : n # <<>> /\ Front(n) \in Dirs \cup {<<>>}
  /\ Dirs \cap Files = {} /\ DOMAIN Links \cap (Dirs \cup Files) = {}
  /\ Depths \subseteq Nat \cup {NoDepth}
  /\ MaxRuns \in Nat /\ Given \in [1 .. MaxRuns -> SUBSET (Nodes \X Depths)]
  /\ None \notin Names \cup Handles

VARIABLES
  pc,             \* main: not in prompt; readline; other: another command;
                  \* the steps of fp; killed and undefined end the program
  start,          \* what the path given to fp leads to
  arg,            \* path below it, a name in the working directory
  stack,          \* the calls of gen_tree that read a directory
  ret,            \* whether fp, or the last call of gen_tree, succeeded
  limit, rem,     \* --depth and *rem_depth
  inFunc, intr,   \* in_function, interruptable
  handler,        \* inthandler: keeps, once (reset when it is called) or gone
  cwd, backup,    \* the working directory, cwd_backup
  entries,        \* the entries fp has made
  entryUsed,      \* entry_being_used
  bare,           \* whether that entry has no id and no parent yet
  openFiles, fileUsed,       \* open FILEs, file_being_used
  openDirs, records, maxRec, \* open DIRs, l2_dirp_record_arr, the highest index
  runs            \* how many times fp was called; names the current call

control == <<pc, start, arg, stack, ret, limit, rem>>
flags == <<inFunc, intr, handler>>
files == <<openFiles, fileUsed>>
dirps == <<openDirs, records, maxRec>>
tree == <<entries, entryUsed, bare>>
command == <<backup, runs>>
vars == <<control, flags, files, dirps, tree, command, cwd>>

FpSteps == {"enter", "mkdir", "scan", "open", "read", "made", "done"}

Top == Last(stack)
Reached(n) == IF n \in DOMAIN Links THEN Links[n] ELSE n
Node(name) == IF stack = <<>> THEN start ELSE Reached(Append(cwd, name))
Place(name) == IF stack = <<>> THEN <<>> ELSE Append(Top.place, name)
Here == <<runs, Place(arg)>>
Entry(name, node, made) ==
  [run |-> runs, place |-> Place(name), node |-> node, done |-> made]
NamesIn(dir) == {Last(n) : n \in {x \in Listed : Front(x) = dir}}

\* Plausible slip: no look at whether there is a limit.
MutSpend == rem - 1

Spend == IF rem = NoDepth THEN NoDepth ELSE rem - 1
GiveBack == IF rem = NoDepth THEN NoDepth ELSE rem + 1

\* A call of gen_tree returns into the loop of its caller, which does not look
\* at the result, or into fp.
Return(ok, callers) ==
  /\ ret' = (ok \/ callers # <<>>) /\ stack' = callers /\ arg' = None
  /\ pc' = IF callers = <<>> THEN "done" ELSE "scan"
  /\ UNCHANGED <<start, limit>>

\* The locals of fp and gen_tree are gone.
FrameGone ==
  /\ start' = <<>> /\ arg' = None /\ stack' = <<>> /\ ret' = TRUE
  /\ limit' = NoDepth /\ rem' = NoDepth

\* The first index not in use, as add_dirp_record_to_layer2_arr takes it.
FreeSlot ==
  LET used == {r.slot : r \in records}
  IN  CHOOSE s \in 0 .. Cardinality(used) :
        s \notin used /\ \A t \in 0 .. s - 1 : t \in used

Init ==
  /\ pc = "readline" /\ start = <<>> /\ arg = None /\ stack = <<>> /\ ret = TRUE
  /\ limit = NoDepth /\ rem = NoDepth
  /\ inFunc = FALSE /\ intr = FALSE /\ handler \in {"keeps", "once"}
  /\ cwd \in Dirs \cup {<<>>} /\ backup = <<>>
  /\ entries = {} /\ entryUsed = None /\ bare = FALSE /\ openFiles = {} /\ fileUsed = None
  /\ openDirs = {} /\ records = {} /\ maxRec = 0
  /\ runs = 0

-----------------------------------------------------------------------------
(* The command loop                                                        *)

\* main calls prompt again, which calls setjmp and then readline.
Prompt ==
  /\ pc = "main" /\ pc' = "readline"
  /\ UNCHANGED <<start, arg, stack, ret, limit, rem, flags, files, dirps, tree, command,
                 cwd>>

\* Plausible slip: the loose resource pointers keep what they point to.
MutForget == UNCHANGED <<entryUsed, bare, fileUsed, maxRec>>

\* fp initialises its loose resource pointers.
Forget == entryUsed' = None /\ bare' = FALSE /\ fileUsed' = None /\ maxRec' = 0

\* process_cmd calls fp, which calls gen_tree on the path it is given.
StartFp(node, depth) ==
  /\ pc = "readline" /\ runs < MaxRuns /\ <<node, depth>> \in Given[runs + 1]
  /\ inFunc' = TRUE /\ intr' = TRUE
  /\ Forget
  /\ backup' = cwd /\ limit' = depth /\ rem' = depth /\ runs' = runs + 1
  /\ pc' = "enter" /\ start' = node /\ arg' = None
  /\ UNCHANGED <<stack, ret, handler, cwd, entries, openFiles, openDirs, records>>

\* Any other command, or fp with arguments it refuses before or after it has
\* initialised its pointers.  Interruptable commands say so in init_term_info.
StartOther ==
  /\ pc = "readline" /\ pc' = "other"
  /\ inFunc' = TRUE
  /\ \/ Forget /\ intr' = TRUE
     \/ UNCHANGED <<entryUsed, bare, fileUsed, maxRec>> /\ intr' \in BOOLEAN
  /\ UNCHANGED <<start, arg, stack, ret, limit, rem, handler, entries, openFiles,
                 openDirs, records, command, cwd>>

\* rm takes an entry away that an interrupted or failed fp has left half made.
OtherReturns ==
  /\ pc = "other" /\ pc' = "main"
  /\ inFunc' = FALSE /\ intr' = FALSE
  /\ \E gone \in SUBSET {e \in entries : ~ e.done} :
       /\ Cardinality(gone) <= 1
       /\ entries' = entries \ gone
  /\ UNCHANGED <<start, arg, stack, ret, limit, rem, handler, entryUsed, bare, files,
                 dirps, command, cwd>>

\* inthandler.  With the signal() of System V, which _XOPEN_SOURCE selects in
\* glibc, a handler is called once and the next SIGINT ends the program; with
\* that of BSD it stays.  When prompt has returned, its setjmp is gone.
SigInt ==
  /\ pc \notin {"killed", "undefined"}
  /\ handler' = IF handler = "once" THEN "gone" ELSE handler
  /\ CASE handler = "gone" -> pc' = "killed" /\ FrameGone
       [] handler # "gone" /\ inFunc /\ intr ->
            pc' = (IF pc = "main" THEN "undefined" ELSE "main") /\ FrameGone
       [] OTHER -> UNCHANGED control
  /\ UNCHANGED <<inFunc, intr, files, dirps, tree, command, cwd>>

-----------------------------------------------------------------------------
(* gen_tree                                                                *)

\* No depth is left: the call does nothing.
EnterSpent ==
  /\ pc = "enter" /\ rem = 0
  /\ Return(TRUE, stack)
  /\ UNCHANGED <<rem, flags, files, dirps, tree, command, cwd>>

\* stat or chdir fails, or the type is not supported: the depth is not given back.
EnterFails ==
  /\ pc = "enter" /\ rem # 0 /\ rem' = Spend
  /\ Return(FALSE, stack)
  /\ UNCHANGED <<flags, files, dirps, tree, command, cwd>>

EnterDir ==
  /\ pc = "enter" /\ rem # 0 /\ rem' = Spend
  /\ Node(arg) \in Dirs \cup {<<>>}
  /\ cwd' = Node(arg) /\ pc' = "mkdir"
  /\ UNCHANGED <<start, arg, stack, ret, limit, flags, files, dirps, tree, command>>

\* How far the entry of a directory gets: no id is left, and it is in use but in
\* no tree; it gets no name, which only the path given to fp may lack; or it is
\* there.
Makings == {"taken", "nameless", "made"}

\* The directory is opened and recorded and its entry is made, without
\* interruption.  That it could not be opened is looked at last; an entry that
\* is not made ends the call where interrupts are still off.
MakeDir ==
  /\ pc = "mkdir"
  /\ \E dirp \in {Here, None}, got \in Makings :
       /\ got = "nameless" => stack = <<>>
       /\ openDirs' = openDirs \cup ({dirp} \ {None})
       /\ records' = records \cup {[slot |-> FreeSlot, dirp |-> dirp, shut |-> FALSE]}
       /\ maxRec' = IF maxRec < FreeSlot THEN FreeSlot ELSE maxRec
       /\ entries' = entries \cup
            (IF got = "taken" THEN {} ELSE {Entry(arg, cwd, got = "made")})
       /\ intr' = (got = "made")
       /\ IF got = "made" /\ dirp # None
          THEN /\ stack' = Append(stack, [place |-> Place(arg), slot |-> FreeSlot,
                                          todo |-> NamesIn(cwd)])
               /\ pc' = "scan" /\ arg' = None /\ UNCHANGED <<start, ret, limit>>
          ELSE Return(FALSE, stack)
  /\ UNCHANGED <<rem, inFunc, handler, files, entryUsed, bare, command, cwd>>

\* Plausible slip: the same name is read again.
MutScanName(name) ==
  /\ pc = "scan" /\ name \in Top.todo
  /\ Node(name) \in Nodes
  /\ pc' = "enter" /\ arg' = name
  /\ UNCHANGED <<start, stack, ret, limit, rem, flags, files, dirps, tree, command, cwd>>

\* readdir gives a name, and stat of it succeeds.
ScanName(name) ==
  /\ pc = "scan" /\ name \in Top.todo
  /\ Node(name) \in Nodes
  /\ stack' = [stack EXCEPT ![Len(stack)].todo = @ \ {name}]
  /\ pc' = "enter" /\ arg' = name
  /\ UNCHANGED <<start, ret, limit, rem, flags, files, dirps, tree, command, cwd>>

\* Plausible slip: the call goes back two levels, its own and the one of its caller.
MutScanFails ==
  /\ pc = "scan" /\ Top.todo # {}
  /\ cwd' = IF Len(cwd) > 1 THEN Front(Front(cwd)) ELSE <<>>
  /\ Return(FALSE, Front(stack))
  /\ UNCHANGED <<rem, flags, files, dirps, tree, command>>

\* stat of the name fails: the call ends in the directory it has opened.
ScanFails ==
  /\ pc = "scan" /\ Top.todo # {}
  /\ Return(FALSE, Front(stack))
  /\ UNCHANGED <<rem, flags, files, dirps, tree, command, cwd>>

\* The record of the directory that is read.
Mine == {r \in records : r.slot = Top.slot}

\* readdir gives no more names, or fails, and closedir fails: the stream is gone
\* all the same, its record stays, and so does the working directory.
CloseFails ==
  /\ pc = "scan"
  /\ openDirs' = openDirs \ {r.dirp : r \in Mine}
  /\ records' = (records \ Mine) \cup {[r EXCEPT !.shut = TRUE] : r \in Mine}
  /\ intr' = FALSE
  /\ Return(FALSE, Front(stack))
  /\ UNCHANGED <<rem, inFunc, handler, maxRec, files, tree, command, cwd>>

\* Plausible slip: the record of the closed directory stays.
MutLeave ==
  /\ pc = "scan"
  /\ openDirs' = openDirs \ {r.dirp : r \in Mine}
  /\ records' = records
  /\ cwd' = Front(cwd) /\ intr' = TRUE /\ rem' = GiveBack
  /\ Return(TRUE, Front(stack))
  /\ UNCHANGED <<inFunc, handler, maxRec, files, tree, command>>

\* readdir gives no more names, or fails, which gen_tree cannot tell: the
\* directory is closed, its record deleted, and chdir("..") tried.
Leave ==
  /\ pc = "scan"
  /\ openDirs' = openDirs \ {r.dirp : r \in Mine}
  /\ records' = records \ Mine
  /\ \/ /\ cwd' = Front(cwd) /\ intr' = TRUE /\ rem' = GiveBack
        /\ Return(TRUE, Front(stack))
     \/ /\ intr' = FALSE
        /\ Return(FALSE, Front(stack))
        /\ UNCHANGED <<cwd, rem>>
  /\ UNCHANGED <<inFunc, handler, maxRec, files, tree, command>>

\* The entry of a file is taken, recorded as being used and, if an id is left,
\* put into the tree, without interruption.
EnterFile ==
  /\ pc = "enter" /\ rem # 0 /\ rem' = Spend
  /\ Node(arg) \in Files
  /\ entryUsed' = Here
  /\ \/ /\ entries' = entries \cup {Entry(arg, Node(arg), FALSE)}
        /\ bare' = FALSE /\ intr' = TRUE /\ pc' = "open"
        /\ UNCHANGED <<start, arg, stack, ret, limit>>
     \/ /\ bare' = TRUE /\ intr' = FALSE /\ Return(FALSE, stack)
        /\ UNCHANGED entries
  /\ UNCHANGED <<inFunc, handler, files, dirps, command, cwd>>

FileMade ==
  /\ pc = "made"
  /\ entryUsed' = None /\ intr' = TRUE /\ rem' = GiveBack
  /\ Return(TRUE, stack)
  /\ UNCHANGED <<inFunc, handler, entries, bare, files, dirps, command, cwd>>

-----------------------------------------------------------------------------
(* fingerprint_file                                                        *)

\* stat fails, fopen fails (with interrupts off) or the file is open.
OpenFile ==
  /\ pc = "open"
  /\ \/ fileUsed' = None /\ UNCHANGED <<intr, openFiles>> /\ Return(FALSE, stack)
     \/ fileUsed' = None /\ intr' = FALSE /\ UNCHANGED openFiles /\ Return(FALSE, stack)
     \/ /\ fileUsed' = Here /\ openFiles' = openFiles \cup {Here} /\ intr' = TRUE
        /\ pc' = "read" /\ UNCHANGED <<start, arg, stack, ret, limit>>
  /\ UNCHANGED <<rem, inFunc, handler, dirps, tree, command, cwd>>

Finish == entries' = (entries \ {Entry(arg, Node(arg), FALSE)})
                     \cup {Entry(arg, Node(arg), TRUE)}

\* An empty file is done but stays open.
ReadEmpty ==
  /\ pc = "read" /\ pc' = "made"
  /\ Finish
  /\ UNCHANGED <<start, arg, stack, ret, limit, rem, flags, files, dirps, entryUsed, bare,
                 command, cwd>>

\* Too large or of no class: returns at once, the file open.
ReadRefused ==
  /\ pc = "read" /\ Return(FALSE, stack)
  /\ UNCHANGED <<rem, flags, files, dirps, tree, command, cwd>>

\* Read to its end, or as far as it goes, closed, and then verified: verify_entry
\* may reject the entry.
ReadWhole ==
  /\ pc = "read"
  /\ \/ Finish /\ pc' = "made" /\ UNCHANGED <<start, arg, stack, ret, limit>>
     \/ Return(FALSE, stack) /\ UNCHANGED entries
  /\ openFiles' = openFiles \ {Here} /\ fileUsed' = None /\ intr' = TRUE
  /\ UNCHANGED <<rem, inFunc, handler, dirps, entryUsed, bare, command, cwd>>

-----------------------------------------------------------------------------
(* The end of fp                                                           *)

\* Plausible slip: the loop ends one record too early.
MutBelowMax == {r \in records : r.slot + 1 < maxRec}

\* The records fp_cleanup looks at.
BelowMax == {r \in records : r.slot < maxRec}

\* fp_cleanup.
CleanUp ==
  /\ cwd' \in {backup, cwd}
  /\ openFiles' = openFiles \ {fileUsed} /\ fileUsed' = None
  /\ entries' = {e \in entries : <<e.run, e.place>> # entryUsed}
  /\ entryUsed' = None /\ bare' = FALSE
  /\ openDirs' = openDirs \ {r.dirp : r \in BelowMax}
  /\ records' = records \ BelowMax /\ maxRec' = 0

\* What fp_cleanup has no right to: del_entry follows the parent of its entry, and
\* a directory whose closedir has failed would be closed again.
CleanUpBreaks ==
  \/ entryUsed # None /\ bare
  \/ \E r \in BelowMax : r.dirp \notin openDirs \cup {None}

\* fp returns to process_cmd, which cleans up unless fp has called that off.
FpReturns ==
  /\ pc = "done" /\ FrameGone
  /\ inFunc' = FALSE /\ intr' = FALSE
  /\ IF ret \/ CleanUpBreaks
     THEN /\ pc' = (IF ret THEN "main" ELSE "undefined")
          /\ UNCHANGED <<cwd, tree, files, dirps>>
     ELSE pc' = "main" /\ CleanUp
  /\ UNCHANGED <<handler, command>>

GenTree ==
  \/ EnterSpent \/ EnterFails \/ EnterDir \/ MakeDir \/ EnterFile \/ FileMade
  \/ \E name \in NamesIn(<<>>) \cup UNION {NamesIn(d) : d \in Dirs} : ScanName(name)
  \/ ScanFails \/ CloseFails \/ Leave
FingerprintFile == OpenFile \/ ReadEmpty \/ ReadRefused \/ ReadWhole
Fp == GenTree \/ FingerprintFile \/ FpReturns

Next ==
  \/ Fp \/ Prompt \/ OtherReturns \/ SigInt \/ StartOther
  \/ \E node \in Nodes, depth \in Depths : StartFp(node, depth)

\* The program is never blocked inside fp: every call into the file system
\* returns.
Spec == Init /\ [][Next]_vars /\ WF_vars(Fp)

-----------------------------------------------------------------------------
(* Properties                                                              *)

Entries == [run : 1 .. MaxRuns, place : Seq(Names), node : Nodes, done : BOOLEAN]

TypeOK ==
  /\ pc \in FpSteps \cup {"main", "readline", "other", "killed", "undefined"}
  /\ ret \in BOOLEAN /\ inFunc \in BOOLEAN /\ intr \in BOOLEAN
  /\ handler \in {"keeps", "once", "gone"}
  /\ rem \in Nat \cup {NoDepth} /\ limit \in Nat \cup {NoDepth}
  /\ cwd \in Dirs \cup {<<>>} /\ backup \in Dirs \cup {<<>>} /\ start \in Nodes
  /\ pc \in {"enter", "mkdir", "open", "read", "made"} => stack = <<>> \/ arg # None
  /\ pc = "scan" => stack # <<>>
  /\ entries \subseteq Entries /\ bare \in BOOLEAN
  /\ {entryUsed, fileUsed} \ {None} \subseteq Handles
  /\ openFiles \cup openDirs \subseteq Handles
  /\ maxRec \in Nat

\* Every open directory is recorded, once, and every record is of an open one but
\* for those of directories that could not be opened or whose closedir failed:
\* whatever else fails and whenever SIGINT comes, no directory is lost or closed
\* twice.
DirpsRecorded ==
  /\ \A r, s \in records : (r.slot = s.slot \/ (r.dirp = s.dirp /\ r.dirp # None)) => r = s
  /\ openDirs = {r.dirp : r \in {x \in records : ~ x.shut}} \ {None}

\* While fp runs, the clean-up it may be about to get is safe, but for what
\* CleanUpBreaks names: the file it would close is open, and the entry it would
\* delete is in the database and not one that an earlier fp has finished.
CleanUpIsSafe ==
  pc \in FpSteps =>
    /\ fileUsed # None => fileUsed \in openFiles
    /\ entryUsed # None /\ ~ bare =>
         \E e \in entries : <<e.run, e.place>> = entryUsed /\ e.run = runs

\* No directory is listed below what fp was given through a link, which
\* chdir("..") would not undo.
NoLinkedDirs ==
  \A l \in DOMAIN Links : IsPrefix(start, l) => Links[l] \notin Dirs \cup {<<>>}

\* Without such links, and whatever failed before, the walk stays below what fp was
\* given: the working directory is as far below it as there are directories being
\* read, so that no chdir("..") takes it out while one is; nor does the last one
\* take it out of the directory fp was called in if what it was given stands
\* there.  With any links, the depth left and the directories being read never
\* exceed --depth, and no entry stands deeper.
StaysInside ==
  pc \in FpSteps =>
    /\ NoLinkedDirs =>
         /\ stack # <<>> =>
              IsPrefix(start, cwd) /\ Len(cwd) >= Len(start) + Len(stack) - 1
         /\ Front(start) = backup => IsPrefix(backup, cwd)
    /\ limit # NoDepth =>
         /\ rem >= 0 /\ rem + Len(stack) <= limit
         /\ \A e \in entries : e.run = runs => Len(e.place) < limit

\* However deep fp was when it failed, and whatever records interrupted calls have
\* left between its own, an fp_cleanup that gets through leaves at most one of the
\* call's directories open.
CleanedUp ==
  [][FpReturns /\ ~ ret /\ pc' # "undefined" =>
       Cardinality({d \in openDirs' : d[1] = runs}) <= 1]_vars

\* fp ends, by itself or by SIGINT, whatever fails and wherever it has got to.
FpEnds == pc \in FpSteps ~> pc \notin FpSteps
=============================================================================
