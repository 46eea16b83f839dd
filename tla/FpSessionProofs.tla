-------------------------- MODULE FpSessionProofs --------------------------
(***************************************************************************)
(* Proofs about FpSession for every tree of directories, files and links,  *)
(* every path, every set of depths and any number of calls of fp.          *)
(***************************************************************************)
EXTENDS FpSession, FiniteSetTheorems, WellFoundedInduction, SequenceTheorems,
        TLAPS

-----------------------------------------------------------------------------
(* Facts about numbers the proofs rest on                                  *)

\* A non-empty set of natural numbers has a least element.
LEMMA LeastElement ==
  ASSUME NEW T, T \subseteq Nat, T # {}
  PROVE  \E m \in T : \A k \in T : m <= k
<1>1. PICK m \in T : \A k \in T : <<k, m>> \notin OpToRel(<, Nat)
  BY NatLessThanWellFounded, WFMin
<1>2. ASSUME NEW k \in T, k < m
      PROVE  FALSE
  <2>1. <<k, m>> \in OpToRel(<, Nat)
    BY <1>2 DEF OpToRel
  <2>2. QED
    BY <1>1, <2>1
<1>3. \A k \in T : ~(k < m)
  BY <1>2
<1>4. \A k \in T : k \in Nat /\ m \in Nat
  OBVIOUS
<1>5. \A k \in T : m <= k
  BY <1>3, <1>4
<1>6. QED
  BY <1>5

\* An index that a finite set does not use, with every smaller one used, exists.
LEMMA FreeIndex ==
  ASSUME NEW U, U \subseteq Nat, IsFiniteSet(U)
  PROVE  \E s \in 0 .. Cardinality(U) : s \notin U /\ \A t \in 0 .. s - 1 : t \in U
<1> DEFINE n == Cardinality(U)
<1> DEFINE F == (0 .. n) \ U
<1>1. n \in Nat
  BY FS_CardinalityType
<1>2. F # {}
  <2>1. SUFFICES ASSUME F = {}
                 PROVE  FALSE
    OBVIOUS
  <2>2. 0 .. n \in SUBSET U
    BY <2>1
  <2>3. Cardinality(0 .. n) <= n
    BY <2>2, FS_Subset
  <2>4. Cardinality(0 .. n) = n + 1
    BY <1>1, FS_Interval
  <2>5. QED
    BY <1>1, <2>3, <2>4
<1>3. PICK s \in F : \A t \in F : s <= t
  <2>1. F \subseteq Nat
    OBVIOUS
  <2> HIDE DEF F
  <2>2. QED
    BY <1>2, <2>1, LeastElement
<1>4. QED
  BY <1>1, <1>3

Frames == [place : Seq(Names), slot : Nat, todo : SUBSET Names]
Records == [slot : Nat, dirp : Handles \cup {None}, shut : BOOLEAN]

\* The types of what TypeOK leaves open, and what each step of gen_tree relies
\* on about the node it is at.
Typed ==
  /\ TypeOK
  /\ arg \in Names \cup {None}
  /\ stack \in Seq(Frames) /\ (pc \notin FpSteps => stack = <<>>)
  /\ runs \in 0 .. MaxRuns
  /\ pc \in FpSteps => runs \in 1 .. MaxRuns
  /\ records \subseteq Records
  /\ IsFiniteSet(records)
  /\ pc \in {"open", "read"} => Node(arg) \in Files

\* Where gen_tree has a path.
AtPath == pc \in {"enter", "mkdir", "open", "read", "made"}

-----------------------------------------------------------------------------
(* Names, places and handles                                               *)

\* The parts of a sequence that is not empty.
LEMMA FrontAndLast ==
  ASSUME NEW S, NEW s \in Seq(S), s # <<>>
  PROVE  /\ Len(s) \in Nat \ {0}
         /\ Last(s) \in S
         /\ Front(s) \in Seq(S) /\ Len(Front(s)) = Len(s) - 1
         /\ \A i \in 1 .. Len(s) - 1 : Front(s)[i] = s[i]
<1>1. Len(s) \in Nat \ {0}
  BY EmptySeq
<1>2. \A i \in 1 .. Len(s) : s[i] \in S
  BY ElementOfSeq
<1> DEFINE m == Len(s) - 1
<1> DEFINE f == SubSeq(s, 1, m)
<1>3. /\ f \in Seq(S)
      /\ Len(f) = IF 1 <= m THEN m - 1 + 1 ELSE 0
      /\ \A i \in 1 .. m - 1 + 1 : f[i] = s[1 + i - 1]
  <2>1. m \in Int /\ \A i \in 1 .. m : s[i] \in S
    BY <1>1, <1>2
  <2> HIDE DEF m
  <2>2. QED
    BY <2>1, SubSeqProperties
<1>4. /\ Len(f) = m
      /\ \A i \in 1 .. m : f[i] = s[i]
  <2>1. m \in Nat
    BY <1>1
  <2> HIDE DEF f, m
  <2>2. Len(f) = m
    BY <1>3, <2>1
  <2>3. ASSUME NEW i \in 1 .. m
        PROVE  f[i] = s[i]
    <3>1. i \in 1 .. m - 1 + 1 /\ 1 + i - 1 = i
      BY <2>1
    <3>2. QED
      BY <1>3, <3>1
  <2>4. QED
    BY <2>2, <2>3
<1>5. QED
  BY <1>1, <1>2, <1>3, <1>4 DEF Front, Last

\* The names found in a directory are names.
LEMMA NamesInAreNames ==
  ASSUME NEW dir
  PROVE  NamesIn(dir) \subseteq Names
<1>1. SUFFICES ASSUME NEW n \in Listed
               PROVE  Last(n) \in Names
  BY DEF NamesIn
<1>2. n \in Seq(Names) /\ n # <<>>
  BY FileSystem
<1>3. QED
  BY <1>2, FrontAndLast

\* The directory above a node is one, or the one the program starts in.
LEMMA Above ==
  ASSUME NEW dir \in Dirs \cup {<<>>}
  PROVE  Front(dir) \in Dirs \cup {<<>>}
<1>1. CASE dir \in Dirs
  BY <1>1, FileSystem DEF Listed
<1>2. CASE dir = <<>>
  <2>1. SubSeq(<<>>, 1, -1) = <<>>
    OBVIOUS
  <2>2. QED
    BY <1>2, <2>1 DEF Front
<1>3. QED
  BY <1>1, <1>2

\* The last frame and what is below it are well formed.
LEMMA TopFrame ==
  ASSUME Typed, stack # <<>>
  PROVE  /\ Top \in Frames
         /\ Front(stack) \in Seq(Frames)
         /\ Len(Front(stack)) = Len(stack) - 1
         /\ Len(stack) \in Nat \ {0}
BY FrontAndLast DEF Typed, Top

\* Where a name stands is a place.
LEMMA PlaceTyped ==
  ASSUME Typed, NEW name, stack = <<>> \/ name \in Names
  PROVE  Place(name) \in Seq(Names)
<1>1. CASE stack = <<>>
  BY <1>1, EmptySeq DEF Place
<1>2. CASE stack # <<>>
  <2>1. Top.place \in Seq(Names)
    BY <1>2, TopFrame DEF Frames
  <2>2. QED
    BY <1>2, <2>1 DEF Place
<1>3. QED
  BY <1>1, <1>2

\* Inside fp, what is being looked at has a handle.
LEMMA HereTyped ==
  ASSUME Typed, AtPath
  PROVE  /\ Place(arg) \in Seq(Names) /\ runs \in 1 .. MaxRuns
         /\ Here \in Handles /\ Here # None
<1>1. Place(arg) \in Seq(Names)
  BY PlaceTyped DEF Typed, TypeOK, AtPath
<1>2. Here \in Handles /\ runs \in 1 .. MaxRuns
  BY <1>1 DEF Typed, Here, Handles, AtPath, FpSteps
<1>3. QED
  BY <1>1, <1>2, FileSystem

\* The index add_dirp_record_to_layer2_arr takes is in no record.
LEMMA FreeSlotIsFree ==
  ASSUME Typed
  PROVE  FreeSlot \in Nat /\ \A r \in records : r.slot # FreeSlot
<1> DEFINE used == {r.slot : r \in records}
<1>1. used \subseteq Nat
  BY DEF Typed, Records
<1>2. IsFiniteSet(used)
  <2> DEFINE f == [r \in records |-> r.slot]
  <2>1. f \in Surjection(records, used)
    BY DEF Surjection
  <2>2. IsFiniteSet(records)
    BY DEF Typed
  <2> HIDE DEF f, used
  <2>3. QED
    BY <2>1, <2>2, FS_Surjection
<1>3. \E s \in 0 .. Cardinality(used) :
        s \notin used /\ \A t \in 0 .. s - 1 : t \in used
  <2> HIDE DEF used
  <2> QED
    BY <1>1, <1>2, FreeIndex
<1>4. FreeSlot \in 0 .. Cardinality(used) /\ FreeSlot \notin used
  BY <1>3 DEF FreeSlot
<1>5. QED
  BY <1>4

\* An entry fp makes is one.
LEMMA EntryTyped ==
  ASSUME Typed, AtPath, NEW node \in Nodes, NEW made \in BOOLEAN
  PROVE  Entry(arg, node, made) \in Entries
BY HereTyped DEF Entry, Entries

\* How a call of gen_tree returns.
LEMMA Returns ==
  ASSUME NEW ok \in BOOLEAN, NEW callers \in Seq(Frames), Return(ok, callers)
  PROVE  /\ ret' \in BOOLEAN /\ arg' = None /\ stack' = callers /\ limit' = limit
         /\ start' = start
         /\ pc' \in {"scan", "done"} /\ (pc' = "scan" <=> callers # <<>>)
BY DEF Return

-----------------------------------------------------------------------------
(* Types                                                                   *)

LEMMA TypedInit == Init => Typed
<1> SUFFICES ASSUME Init PROVE Typed
  OBVIOUS
<1>1. <<>> \in Seq(Frames) /\ IsFiniteSet({}) /\ MaxRuns \in Nat
  BY FS_EmptySet, FileSystem
<1>2. TypeOK
  <2>1. /\ ret \in BOOLEAN /\ inFunc \in BOOLEAN /\ intr \in BOOLEAN
        /\ handler \in {"keeps", "once", "gone"}
    BY DEF Init
  <2>2. {entryUsed, fileUsed} \ {None} \subseteq Handles
    BY DEF Init
  <2>3. QED
    BY <2>1, <2>2 DEF Init, TypeOK, FpSteps, NoDepth, Nodes
<1>3. QED
  BY <1>1, <1>2 DEF Init, Typed, FpSteps

\* A step that stays outside of fp, or ends it.
LEMMA TypedOutside ==
  ASSUME Typed, Prompt \/ OtherReturns \/ StartOther \/ SigInt
  PROVE  Typed'
<1> USE DEF Typed, TypeOK, FpSteps, control, flags, files, dirps, tree, command
<1>1. CASE Prompt
  BY <1>1 DEF Prompt
<1>2. CASE OtherReturns
  BY <1>2 DEF OtherReturns
<1>3. CASE StartOther
  <2>1. /\ pc' = "other" /\ inFunc' \in BOOLEAN /\ intr' \in BOOLEAN
        /\ UNCHANGED <<start, arg, stack, ret, limit, rem, handler, entries, openFiles,
                       openDirs, records, command, cwd>>
    BY <1>3 DEF StartOther
  <2>2. {entryUsed', fileUsed'} \ {None} \subseteq Handles /\ maxRec' \in Nat
    BY <1>3 DEF StartOther, Forget
  <2>3. bare' \in BOOLEAN
    <3>1. bare' = bare \/ bare' = FALSE
      BY <1>3 DEF StartOther, Forget
    <3>2. QED
      BY <3>1
  <2>4. stack' = stack /\ records' = records /\ entries' = entries /\ start' = start
    BY <2>1
  <2>5. /\ openFiles' \cup openDirs' \subseteq Handles
        /\ cwd' \in Dirs \cup {<<>>} /\ backup' \in Dirs \cup {<<>>} /\ start' \in Nodes
        /\ rem' \in Nat \cup {NoDepth} /\ limit' \in Nat \cup {NoDepth}
        /\ ret' \in BOOLEAN
    <3>1. ret' = ret
      BY <2>1
    <3>2. QED
      BY <2>1, <3>1
  <2>6. TypeOK'
    BY <2>1, <2>2, <2>3, <2>4, <2>5
  <2>7. /\ arg' \in Names \cup {None} /\ stack' = <<>>
        /\ runs' \in 0 .. MaxRuns /\ pc' \notin FpSteps
        /\ records' \subseteq Records /\ IsFiniteSet(records')
    BY <2>1, <1>3 DEF StartOther
  <2>8. QED
    <3> HIDE DEF TypeOK, FpSteps, control, flags, files, dirps, tree, command
    <3>1. pc' \notin {"open", "read"} /\ pc' \notin FpSteps
      BY <2>1 DEF FpSteps
    <3>2. QED
      BY <2>6, <2>7, <3>1
<1>4. CASE SigInt
  <2>4. handler' \in {"keeps", "once", "gone"}
    BY <1>4 DEF SigInt
  <2>1. CASE FrameGone /\ pc' \in {"killed", "undefined", "main"}
    <3>1. <<>> \in Seq(Frames) /\ <<>> \in Nodes
      BY DEF Nodes
    <3>2. QED
      BY <1>4, <2>1, <2>4, <3>1 DEF SigInt, FrameGone, NoDepth
  <2>2. CASE UNCHANGED control
    <3>1. UNCHANGED <<inFunc, intr, files, dirps, tree, command, cwd>>
      BY <1>4 DEF SigInt
    <3>2. Node(arg)' = Node(arg)
      BY <2>2, <3>1 DEF Node, Reached
    <3>3. QED
      BY <2>2, <2>4, <3>1, <3>2
  <2>3. QED
    BY <1>4, <2>1, <2>2 DEF SigInt
<1>5. QED
  BY <1>1, <1>2, <1>3, <1>4

LEMMA TypedStartFp ==
  ASSUME Typed, NEW node \in Nodes, NEW depth \in Depths, StartFp(node, depth)
  PROVE  Typed'
<1>1. stack' = <<>> /\ stack \in Seq(Frames)
  BY DEF StartFp, Typed, FpSteps
<1>2. depth \in Nat \cup {NoDepth} /\ MaxRuns \in Nat
  BY FileSystem
<1>3. /\ pc' = "enter" /\ start' \in Nodes /\ arg' = None
      /\ limit' \in Nat \cup {NoDepth} /\ rem' \in Nat \cup {NoDepth}
      /\ runs' = runs + 1 /\ runs < MaxRuns /\ backup' = cwd
  BY <1>2 DEF StartFp
<1>4. /\ inFunc' = TRUE /\ intr' = TRUE /\ bare' = FALSE
      /\ entryUsed' = None /\ fileUsed' = None /\ maxRec' = 0
      /\ UNCHANGED <<ret, handler, cwd, entries, openFiles, openDirs, records>>
  BY DEF StartFp, Forget
<1>5. runs' \in 0 .. MaxRuns /\ runs' \in 1 .. MaxRuns
  BY <1>2, <1>3 DEF Typed
<1>6. TypeOK'
  BY <1>1, <1>3, <1>4 DEF Typed, TypeOK, FpSteps
<1>7. QED
  BY <1>1, <1>3, <1>4, <1>5, <1>6 DEF Typed, FpSteps

\* The calls of gen_tree that end without having been anywhere.
LEMMA TypedEnter ==
  ASSUME Typed, EnterSpent \/ EnterFails \/ EnterDir
  PROVE  Typed'
<1> USE DEF Typed, TypeOK, FpSteps, control, flags, files, dirps, tree, command
<1>1. /\ rem' \in Nat \cup {NoDepth}
      /\ UNCHANGED <<flags, files, dirps, tree, command>>
  <2>1. rem' = rem \/ (rem # 0 /\ rem' = Spend)
    BY DEF EnterSpent, EnterFails, EnterDir
  <2>2. rem \in Nat \cup {NoDepth}
    OBVIOUS
  <2>3. rem' \in Nat \cup {NoDepth}
    BY <2>1, <2>2 DEF Spend, NoDepth
  <2>4. QED
    BY <2>3 DEF EnterSpent, EnterFails, EnterDir
<1>2. CASE EnterSpent
  BY <1>1, <1>2, Returns DEF EnterSpent
<1>3. CASE EnterFails
  BY <1>1, <1>3, Returns DEF EnterFails
<1>4. CASE EnterDir
  BY <1>1, <1>4 DEF EnterDir
<1>5. QED
  BY <1>2, <1>3, <1>4

LEMMA TypedMakeDir ==
  ASSUME Typed, MakeDir
  PROVE  Typed'
<1> USE DEF Typed, TypeOK, FpSteps, control, flags, files, dirps, tree, command
<1>1. /\ FreeSlot \in Nat
      /\ AtPath /\ Place(arg) \in Seq(Names) /\ Here \in Handles
      /\ NamesIn(cwd) \subseteq Names
  BY FreeSlotIsFree, HereTyped, NamesInAreNames DEF MakeDir, AtPath
<1>2. PICK dirp \in {Here, None}, got \in Makings :
        /\ openDirs' = openDirs \cup ({dirp} \ {None})
        /\ records' = records \cup {[slot |-> FreeSlot, dirp |-> dirp, shut |-> FALSE]}
        /\ entries' = entries \cup
             (IF got = "taken" THEN {} ELSE {Entry(arg, cwd, got = "made")})
        /\ intr' = (got = "made")
        /\ IF got = "made" /\ dirp # None
           THEN /\ stack' = Append(stack, [place |-> Place(arg), slot |-> FreeSlot,
                                           todo |-> NamesIn(cwd)])
                /\ pc' = "scan" /\ arg' = None /\ UNCHANGED <<start, ret, limit>>
           ELSE Return(FALSE, stack)
  BY DEF MakeDir
<1>3. records' \subseteq Records /\ IsFiniteSet(records')
  <2> DEFINE new == [slot |-> FreeSlot, dirp |-> dirp, shut |-> FALSE]
  <2>1. new \in Records
    BY <1>1 DEF Records
  <2>2. records' = records \cup {new}
    BY <1>2
  <2> HIDE DEF new
  <2>3. QED
    BY <2>1, <2>2, FS_AddElement
<1>4. openDirs' \subseteq Handles /\ maxRec' \in Nat /\ intr' \in BOOLEAN
  BY <1>1, <1>2 DEF MakeDir
<1>5. entries' \subseteq Entries
  <2>1. cwd \in Nodes
    BY DEF Nodes
  <2>2. \A made \in BOOLEAN : Entry(arg, cwd, made) \in Entries
    BY <1>1, <2>1, EntryTyped
  <2>3. QED
    BY <1>2, <2>2
<1>6. /\ pc' \in {"scan", "done"} /\ (pc' = "scan" => stack' # <<>>)
      /\ stack' \in Seq(Frames)
      /\ arg' = None /\ ret' \in BOOLEAN /\ limit' = limit /\ start' = start
  <2>1. CASE got = "made" /\ dirp # None
    <3> DEFINE frame == [place |-> Place(arg), slot |-> FreeSlot, todo |-> NamesIn(cwd)]
    <3>1. frame \in Frames
      BY <1>1 DEF Frames
    <3> HIDE DEF frame
    <3>2. Append(stack, frame) \in Seq(Frames) /\ Append(stack, frame) # <<>>
      BY <3>1
    <3>3. QED
      BY <1>2, <2>1, <3>2 DEF frame
  <2>2. CASE ~ (got = "made" /\ dirp # None)
    BY <1>2, <2>2, Returns
  <2>3. QED
    BY <2>1, <2>2
<1>7. QED
  BY <1>3, <1>4, <1>5, <1>6 DEF MakeDir

LEMMA TypedScan ==
  ASSUME Typed, (\E name \in Names : ScanName(name)) \/ ScanFails \/ CloseFails \/ Leave
  PROVE  Typed'
<1> USE DEF Typed, TypeOK, FpSteps, control, flags, files, dirps, tree, command
<1>1. pc = "scan" /\ stack # <<>>
  BY DEF ScanName, ScanFails, CloseFails, Leave
<1>2. /\ Top \in Frames /\ Len(stack) \in 1 .. Len(stack)
      /\ Front(stack) \in Seq(Frames)
  BY <1>1, TopFrame
<1>3. ASSUME NEW name \in Names, ScanName(name)
      PROVE  Typed'
  <2> DEFINE frame == [Top EXCEPT !.todo = @ \ {name}]
  <2>1. frame \in Frames
    BY <1>2 DEF Frames
  <2>2. stack' = [stack EXCEPT ![Len(stack)] = frame]
    BY <1>3 DEF ScanName, Top, Last
  <2> HIDE DEF frame
  <2>3. stack' \in Seq(Frames)
    BY <1>2, <2>1, <2>2, ExceptSeq
  <2>4. name # None
    BY FileSystem
  <2>5. QED
    BY <1>3, <2>3, <2>4 DEF ScanName
<1>4. CASE ScanFails
  BY <1>2, <1>4, Returns DEF ScanFails
<1>5. CASE Leave
  <2>1. records' \subseteq Records /\ IsFiniteSet(records')
    BY <1>5, FS_Subset DEF Leave, Mine
  <2>2. cwd' \in Dirs \cup {<<>>} /\ intr' \in BOOLEAN
    BY <1>5, Above DEF Leave
  <2>6. rem' \in Nat \cup {NoDepth}
    <3>1. rem' = GiveBack \/ rem' = rem
      BY <1>5 DEF Leave
    <3>2. rem \in Nat \cup {NoDepth}
      OBVIOUS
    <3>3. QED
      BY <3>1, <3>2 DEF GiveBack, NoDepth
  <2>3. openDirs' \subseteq Handles
    BY <1>5 DEF Leave
  <2>4. Return(TRUE, Front(stack)) \/ Return(FALSE, Front(stack))
    BY <1>5 DEF Leave
  <2>5. QED
    BY <1>2, <1>5, <2>1, <2>2, <2>3, <2>4, <2>6, Returns DEF Leave
<1>6. CASE CloseFails
  <2> DEFINE shut == {[r EXCEPT !.shut = TRUE] : r \in Mine}
  <2>1. Mine \subseteq records /\ IsFiniteSet(Mine)
    BY FS_Subset DEF Mine
  <2>2. shut \subseteq Records
    BY <2>1 DEF Records
  <2>3. IsFiniteSet(shut)
    <3> DEFINE f == [r \in Mine |-> [r EXCEPT !.shut = TRUE]]
    <3>1. f \in Surjection(Mine, shut)
      BY DEF Surjection
    <3> HIDE DEF f, shut
    <3>2. QED
      BY <2>1, <3>1, FS_Surjection
  <2>4. records' = (records \ Mine) \cup shut
    BY <1>6 DEF CloseFails
  <2> HIDE DEF shut
  <2>5. IsFiniteSet(records \ Mine)
    BY FS_Subset
  <2>6. records' \subseteq Records /\ IsFiniteSet(records')
    BY <2>2, <2>3, <2>4, <2>5, FS_Union
  <2>7. openDirs' \subseteq Handles /\ intr' \in BOOLEAN
    BY <1>6 DEF CloseFails
  <2>8. QED
    BY <1>2, <1>6, <2>6, <2>7, Returns DEF CloseFails
<1>7. QED
  BY <1>3, <1>4, <1>5, <1>6

LEMMA TypedFile ==
  ASSUME Typed, EnterFile \/ FileMade \/ FingerprintFile
  PROVE  Typed'
<1> USE DEF Typed, TypeOK, FpSteps, control, flags, files, dirps, tree, command
<1>1. pc \in {"enter", "open", "read", "made"}
  BY DEF EnterFile, FileMade, FingerprintFile, OpenFile, ReadEmpty, ReadRefused, ReadWhole
<1>2. AtPath /\ Here \in Handles
  BY <1>1, HereTyped DEF AtPath
<1>3. CASE EnterFile
  <2>1. rem' \in Nat \cup {NoDepth}
    BY <1>3 DEF EnterFile, Spend, NoDepth
  <2>2. entries' \subseteq Entries
    <3>1. Node(arg) \in Nodes
      BY <1>3 DEF EnterFile, Nodes
    <3>2. Entry(arg, Node(arg), FALSE) \in Entries
      BY <1>2, <3>1, EntryTyped
    <3>3. QED
      BY <1>3, <3>2 DEF EnterFile
  <2>3. entryUsed' = Here /\ bare' \in BOOLEAN
    BY <1>3 DEF EnterFile
  <2>4. CASE pc' = "open" /\ intr' = TRUE /\ UNCHANGED <<start, arg, stack, ret, limit>>
    <3>1. Node(arg)' = Node(arg) /\ Node(arg) \in Files
      BY <1>3, <2>4 DEF EnterFile, Node, Reached
    <3>2. QED
      BY <1>2, <1>3, <2>1, <2>2, <2>3, <2>4, <3>1 DEF EnterFile
  <2>5. CASE intr' = FALSE /\ Return(FALSE, stack)
    BY <1>2, <1>3, <2>1, <2>2, <2>3, <2>5, Returns DEF EnterFile
  <2>6. QED
    BY <1>3, <2>4, <2>5 DEF EnterFile
<1>4. CASE FileMade
  <2>1. rem' \in Nat \cup {NoDepth}
    BY <1>4 DEF FileMade, GiveBack, NoDepth
  <2>2. QED
    BY <1>4, <2>1, Returns DEF FileMade
<1>5. CASE OpenFile
  <2>1. CASE Return(FALSE, stack)
    BY <1>2, <1>5, <2>1, Returns DEF OpenFile
  <2>2. CASE ~ Return(FALSE, stack)
    <3>1. Node(arg)' = Node(arg) /\ Node(arg) \in Files
      BY <1>5, <2>2 DEF OpenFile, Node, Reached
    <3>2. QED
      BY <1>2, <1>5, <2>2, <3>1 DEF OpenFile
  <2>3. QED
    BY <2>1, <2>2
<1>6. pc = "read" /\ Finish => entries' \subseteq Entries
  <2>1. SUFFICES ASSUME pc = "read", Finish
                 PROVE  entries' \subseteq Entries
    OBVIOUS
  <2>2. Node(arg) \in Nodes
    BY <2>1 DEF Nodes
  <2>3. Entry(arg, Node(arg), TRUE) \in Entries
    BY <1>2, <2>2, EntryTyped
  <2>4. QED
    BY <2>1, <2>3 DEF Finish
<1>7. CASE ReadEmpty
  BY <1>6, <1>7 DEF ReadEmpty
<1>8. CASE ReadRefused
  BY <1>8, Returns DEF ReadRefused
<1>9. CASE ReadWhole
  BY <1>6, <1>9, Returns DEF ReadWhole
<1>10. QED
  BY <1>3, <1>4, <1>5, <1>7, <1>8, <1>9 DEF FingerprintFile

LEMMA TypedFpReturns ==
  ASSUME Typed, FpReturns
  PROVE  Typed'
<1> USE DEF Typed, TypeOK, FpSteps, control, flags, files, dirps, tree, command
<1>1. <<>> \in Seq(Frames) /\ <<>> \in Nodes
  BY DEF Nodes
<1>2. CASE ret \/ CleanUpBreaks
  <2>1. pc' \in {"main", "undefined"} /\ UNCHANGED <<cwd, tree, files, dirps>>
    BY <1>2 DEF FpReturns
  <2>2. QED
    BY <1>1, <2>1 DEF FpReturns, FrameGone, NoDepth
<1>3. CASE ~ (ret \/ CleanUpBreaks)
  <2>1. records' \subseteq records /\ IsFiniteSet(records')
    BY <1>3, FS_Subset DEF FpReturns, CleanUp
  <2>2. /\ entries' \subseteq Entries /\ openFiles' \cup openDirs' \subseteq Handles
        /\ cwd' \in {backup, cwd} /\ maxRec' = 0
        /\ entryUsed' = None /\ fileUsed' = None /\ bare' = FALSE
    BY <1>3 DEF FpReturns, CleanUp
  <2>3. /\ pc' = "main" /\ FrameGone /\ inFunc' = FALSE /\ intr' = FALSE
        /\ UNCHANGED <<handler, command>>
    BY <1>3 DEF FpReturns
  <2>4. QED
    BY <1>1, <2>1, <2>2, <2>3 DEF FrameGone, NoDepth
<1>4. QED
  BY <1>2, <1>3

\* The actions of the next-state relation, as the proofs below go through them.
LEMMA Steps ==
  ASSUME Next
  PROVE  \/ Prompt \/ OtherReturns \/ StartOther \/ SigInt
         \/ \E node \in Nodes, depth \in Depths : StartFp(node, depth)
         \/ EnterSpent \/ EnterFails \/ EnterDir
         \/ MakeDir
         \/ (\E name \in Names : ScanName(name)) \/ ScanFails \/ CloseFails \/ Leave
         \/ EnterFile \/ FileMade \/ FingerprintFile
         \/ FpReturns
<1>1. NamesIn(<<>>) \cup UNION {NamesIn(d) : d \in Dirs} \subseteq Names
  BY NamesInAreNames
<1>2. QED
  BY <1>1 DEF Next, Fp, GenTree

LEMMA TypedNext ==
  ASSUME Typed, [Next]_vars
  PROVE  Typed'
<1>1. CASE UNCHANGED vars
  BY <1>1 DEF vars, control, flags, files, dirps, tree, command, Typed, TypeOK, FpSteps, Node
<1>2. CASE Next
  BY <1>2, Steps, TypedOutside, TypedStartFp, TypedEnter, TypedMakeDir, TypedScan,
     TypedFile, TypedFpReturns
<1>3. QED
  BY <1>1, <1>2

\* Whatever the file system answers and whenever SIGINT comes, the state of the
\* command loop, of fp and of its loose resources keeps its type, and gen_tree
\* works only inside the directories and on the files there are.
THEOREM TypeCorrect == Spec => []TypeOK
<1>1. Spec => []Typed
  BY TypedInit, TypedNext, PTL DEF Spec
<1>2. Typed => TypeOK
  BY DEF Typed
<1>3. QED
  BY <1>1, <1>2, PTL
-----------------------------------------------------------------------------
(* What fp_cleanup would close and delete                                  *)

\* An entry with this handle is there and is the current call's.
HasEntry(handle) == \E e \in entries : <<e.run, e.place>> = handle /\ e.run = runs

\* A step that changes neither the loose resources nor what they are of.
LEMMA SafeIfKept ==
  ASSUME CleanUpIsSafe, pc \in FpSteps, fileUsed' = fileUsed, entryUsed' = entryUsed,
         bare' = bare, openFiles' = openFiles, runs' = runs, entries \subseteq entries'
  PROVE  CleanUpIsSafe'
BY DEF CleanUpIsSafe

\* An entry that is finished keeps its handle.
LEMMA FinishKeeps ==
  ASSUME Finish, runs' = runs, NEW handle, HasEntry(handle)
  PROVE  HasEntry(handle)'
<1> DEFINE half == Entry(arg, Node(arg), FALSE)
<1> DEFINE whole == Entry(arg, Node(arg), TRUE)
<1>1. PICK e \in entries : <<e.run, e.place>> = handle /\ e.run = runs
  BY DEF HasEntry
<1>2. entries' = (entries \ {half}) \cup {whole}
  BY DEF Finish
<1>3. half.run = whole.run /\ half.place = whole.place
  BY DEF Entry
<1>4. CASE e = half
  BY <1>1, <1>2, <1>3, <1>4 DEF HasEntry
<1>5. CASE e # half
  BY <1>1, <1>2, <1>5 DEF HasEntry
<1>6. QED
  BY <1>4, <1>5

LEMMA SafeFile ==
  ASSUME Typed, CleanUpIsSafe, EnterFile \/ FileMade \/ FingerprintFile
  PROVE  CleanUpIsSafe'
<1>1. pc \in FpSteps /\ AtPath /\ runs' = runs
  BY DEF EnterFile, FileMade, FingerprintFile, OpenFile, ReadEmpty, ReadRefused, ReadWhole,
     FpSteps, AtPath, command
<1>2. Here # None
  BY <1>1, HereTyped
<1>3. CASE EnterFile
  <2>1. /\ entryUsed' = Here /\ fileUsed' = fileUsed /\ openFiles' = openFiles
        /\ entries' = entries \cup {Entry(arg, Node(arg), FALSE)} \/ bare'
    BY <1>3 DEF EnterFile, files
  <2>2. Entry(arg, Node(arg), FALSE).run = runs
        /\ <<Entry(arg, Node(arg), FALSE).run, Entry(arg, Node(arg), FALSE).place>> = Here
    BY DEF Entry, Here
  <2>3. QED
    BY <1>1, <2>1, <2>2 DEF CleanUpIsSafe
<1>4. CASE FileMade
  BY <1>1, <1>4 DEF FileMade, CleanUpIsSafe, files
<1>5. CASE OpenFile
  BY <1>1, <1>5 DEF OpenFile, CleanUpIsSafe, tree
<1>6. CASE ReadRefused
  BY <1>1, <1>6, SafeIfKept DEF ReadRefused, files, tree
<1>7. CASE ReadEmpty
  <2>1. /\ Finish /\ entryUsed' = entryUsed /\ fileUsed' = fileUsed
        /\ openFiles' = openFiles /\ bare' = bare
    BY <1>7 DEF ReadEmpty, files
  <2>2. QED
    BY <1>1, <2>1, FinishKeeps DEF CleanUpIsSafe, HasEntry
<1>8. CASE ReadWhole
  <2>1. fileUsed' = None /\ entryUsed' = entryUsed /\ bare' = bare /\ (Finish \/ entries' = entries)
    BY <1>8 DEF ReadWhole
  <2>2. QED
    BY <1>1, <2>1, FinishKeeps DEF CleanUpIsSafe, HasEntry
<1>9. QED
  BY <1>3, <1>4, <1>5, <1>6, <1>7, <1>8 DEF FingerprintFile

LEMMA SafeNext ==
  ASSUME Typed, CleanUpIsSafe, [Next]_vars
  PROVE  CleanUpIsSafe'
<1>1. CASE UNCHANGED vars
  BY <1>1 DEF vars, control, flags, files, dirps, tree, command, CleanUpIsSafe
<1>2. CASE Prompt \/ OtherReturns \/ StartOther \/ FpReturns
  BY <1>2 DEF Prompt, OtherReturns, StartOther, FpReturns, FpSteps, CleanUpIsSafe
<1>3. CASE SigInt
  <2>1. pc' \notin FpSteps \/ pc' = pc
    BY <1>3 DEF SigInt, FpSteps, control
  <2>2. UNCHANGED <<fileUsed, entryUsed, bare, openFiles, entries, runs>>
    BY <1>3 DEF SigInt, files, tree, command
  <2>3. QED
    BY <2>1, <2>2 DEF CleanUpIsSafe
<1>4. ASSUME NEW node \in Nodes, NEW depth \in Depths, StartFp(node, depth)
      PROVE  CleanUpIsSafe'
  BY <1>4 DEF StartFp, Forget, CleanUpIsSafe
<1>5. CASE EnterSpent \/ EnterFails \/ EnterDir
  BY <1>5, SafeIfKept DEF EnterSpent, EnterFails, EnterDir, FpSteps, files, tree, command
<1>6. CASE MakeDir
  BY <1>6, SafeIfKept DEF MakeDir, FpSteps, files, command
<1>7. CASE (\E name \in Names : ScanName(name)) \/ ScanFails \/ CloseFails \/ Leave
  BY <1>7, SafeIfKept DEF ScanName, ScanFails, CloseFails, Leave, FpSteps, files, tree, command
<1>8. CASE EnterFile \/ FileMade \/ FingerprintFile
  BY <1>8, SafeFile
<1>9. QED
  BY <1>1, <1>2, <1>3, <1>4, <1>5, <1>6, <1>7, <1>8, Steps

\* Wherever fp is when it fails, fp_cleanup closes a file that is open and deletes
\* an entry that is in the database and that this call has made.
THEOREM CleanUpSafe == Spec => []CleanUpIsSafe
<1>1. Spec => []Typed
  BY TypedInit, TypedNext, PTL DEF Spec
<1>2. Init => CleanUpIsSafe
  BY DEF Init, CleanUpIsSafe, FpSteps
<1>3. QED
  BY <1>1, <1>2, SafeNext, PTL DEF Spec
-----------------------------------------------------------------------------
(* Prefixes                                                                *)

\* One sequence is a prefix of another when they agree as far as it goes.
LEMMA PrefixAgrees ==
  ASSUME NEW S, NEW s \in Seq(S), NEW t \in Seq(S)
  PROVE  IsPrefix(s, t) <=> Len(s) <= Len(t) /\ \A i \in 1 .. Len(s) : s[i] = t[i]
<1> DEFINE n == Len(s)
<1>1. n \in Nat /\ Len(t) \in Nat
  BY LenProperties
<1>2. \A i \in 1 .. n : s[i] \in S
  BY ElementOfSeq
<1>3. \A i \in 1 .. Len(t) : t[i] \in S
  BY ElementOfSeq
<1>4. SUFFICES ASSUME n <= Len(t)
               PROVE  SubSeq(s, 1, n) = SubSeq(t, 1, n) <=> \A i \in 1 .. n : s[i] = t[i]
  BY DEF IsPrefix
<1> DEFINE f == SubSeq(s, 1, n)
<1> DEFINE g == SubSeq(t, 1, n)
<1>5. /\ f \in Seq(S) /\ Len(f) = IF 1 <= n THEN n - 1 + 1 ELSE 0
      /\ \A i \in 1 .. n - 1 + 1 : f[i] = s[1 + i - 1]
  <2> HIDE DEF n
  <2>1. QED
    BY <1>1, <1>2, SubSeqProperties
<1>6. /\ g \in Seq(S) /\ Len(g) = IF 1 <= n THEN n - 1 + 1 ELSE 0
      /\ \A i \in 1 .. n - 1 + 1 : g[i] = t[1 + i - 1]
  <2>1. \A i \in 1 .. n : t[i] \in S
    BY <1>1, <1>3, <1>4
  <2> HIDE DEF n
  <2>2. QED
    BY <1>1, <2>1, SubSeqProperties
<1> HIDE DEF f, g, n
<1>7. n - 1 + 1 = n /\ \A i \in 1 .. n : 1 + i - 1 = i
  BY <1>1
<1>8. Len(f) = n /\ Len(g) = n
  BY <1>1, <1>5, <1>6, <1>7
<1>9. \A i \in 1 .. n : f[i] = s[i] /\ g[i] = t[i]
  BY <1>5, <1>6, <1>7
<1>10. f = g <=> \A i \in 1 .. n : f[i] = g[i]
  BY <1>5, <1>6, <1>8, SeqEqual
<1>11. QED
  BY <1>9, <1>10 DEF f, g

\* Going down one directory, and back up one below the start, keeps a prefix.
LEMMA PrefixSteps ==
  ASSUME NEW S, NEW s \in Seq(S), NEW t \in Seq(S), IsPrefix(s, t)
  PROVE  /\ \A x \in S : IsPrefix(s, Append(t, x))
         /\ Len(t) > Len(s) => IsPrefix(s, Front(t))
<1>1. Len(s) \in Nat /\ Len(t) \in Nat
  BY LenProperties
<1>2. Len(s) <= Len(t) /\ \A i \in 1 .. Len(s) : s[i] = t[i]
  BY PrefixAgrees
<1>3. ASSUME NEW x \in S
      PROVE  IsPrefix(s, Append(t, x))
  <2>1. /\ Append(t, x) \in Seq(S) /\ Len(Append(t, x)) = Len(t) + 1
        /\ \A i \in 1 .. Len(t) : Append(t, x)[i] = t[i]
    BY AppendProperties
  <2>2. Len(s) <= Len(Append(t, x)) /\ \A i \in 1 .. Len(s) : s[i] = Append(t, x)[i]
    BY <1>1, <1>2, <2>1
  <2>3. QED
    BY <2>1, <2>2, PrefixAgrees
<1>4. ASSUME Len(t) > Len(s)
      PROVE  IsPrefix(s, Front(t))
  <2>1. t # <<>>
    BY <1>1, <1>4, EmptySeq
  <2>2. /\ Front(t) \in Seq(S) /\ Len(Front(t)) = Len(t) - 1
        /\ \A i \in 1 .. Len(t) - 1 : Front(t)[i] = t[i]
    BY <2>1, FrontAndLast
  <2>3. Len(s) <= Len(Front(t)) /\ \A i \in 1 .. Len(s) : s[i] = Front(t)[i]
    BY <1>1, <1>2, <1>4, <2>2
  <2>4. QED
    BY <2>2, <2>3, PrefixAgrees
<1>5. QED
  BY <1>3, <1>4
-----------------------------------------------------------------------------
(* The calls of gen_tree                                                   *)

\* The k-th call that reads a directory is k - 1 levels below the first.
Nested == \A k \in 1 .. Len(stack) : Len(stack[k].place) = k - 1

\* What every step does to the calls: it leaves them alone or ends them all, ends
\* the last one, takes a name from it, or starts one where it is.
LEMMA StackSteps ==
  ASSUME Typed, [Next]_vars
  PROVE  \/ stack' = stack /\ (pc' \in FpSteps \/ pc \notin FpSteps)
         \/ stack' = <<>>
         \/ pc = "scan" /\ pc' \in FpSteps /\ stack' = Front(stack)
         \/ /\ pc = "scan" /\ pc' = "enter"
            /\ \E name \in Names :
                 /\ name \in Top.todo /\ arg' = name
                 /\ stack' = [stack EXCEPT ![Len(stack)].todo = @ \ {name}]
         \/ /\ MakeDir /\ pc' = "scan"
            /\ stack' = Append(stack, [place |-> Place(arg), slot |-> FreeSlot,
                                       todo |-> NamesIn(cwd)])
<1> USE DEF FpSteps
<1>1. CASE UNCHANGED vars
  BY <1>1 DEF vars, control
<1>2. CASE Prompt \/ OtherReturns \/ StartOther
  BY <1>2 DEF Prompt, OtherReturns, StartOther
<1>3. CASE SigInt \/ FpReturns
  BY <1>3 DEF SigInt, FpReturns, FrameGone, control
<1>4. ASSUME NEW node \in Nodes, NEW depth \in Depths, StartFp(node, depth)
      PROVE  stack' = stack /\ pc' \in FpSteps
  BY <1>4 DEF StartFp
<1>5. CASE EnterSpent \/ EnterFails \/ EnterDir
  BY <1>5 DEF EnterSpent, EnterFails, EnterDir, Return
<1>6. CASE MakeDir
  BY <1>6 DEF MakeDir, Return
<1>7. CASE (\E name \in Names : ScanName(name)) \/ ScanFails \/ CloseFails \/ Leave
  BY <1>7 DEF ScanName, ScanFails, CloseFails, Leave, Return
<1>8. CASE EnterFile \/ FileMade \/ FingerprintFile
  BY <1>8 DEF EnterFile, FileMade, FingerprintFile, OpenFile, ReadEmpty, ReadRefused,
     ReadWhole, Return
<1>9. QED
  BY <1>1, <1>2, <1>3, <1>4, <1>5, <1>6, <1>7, <1>8, Steps

\* What is looked at stands as many levels down as there are calls.
LEMMA PlaceLength ==
  ASSUME Typed, Nested, NEW name, stack = <<>> \/ name \in Names
  PROVE  Len(Place(name)) = Len(stack)
<1>1. CASE stack = <<>>
  BY <1>1, EmptySeq DEF Place
<1>2. CASE stack # <<>>
  <2>1. Len(stack) \in Nat \ {0} /\ Top.place \in Seq(Names)
    BY <1>2, TopFrame DEF Frames
  <2>2. Len(Top.place) = Len(stack) - 1
    BY <2>1 DEF Nested, Top, Last
  <2>3. QED
    BY <1>2, <2>1, <2>2, AppendProperties DEF Place
<1>3. QED
  BY <1>1, <1>2

LEMMA NestedNext ==
  ASSUME Typed, Nested, [Next]_vars
  PROVE  Nested'
<1>1. CASE stack' = stack /\ (pc' \in FpSteps \/ pc \notin FpSteps)
  BY <1>1 DEF Nested
<1>2. CASE stack' = <<>>
  BY <1>2 DEF Nested
<1>3. CASE pc = "scan" /\ pc' \in FpSteps /\ stack' = Front(stack)
  <2>1. stack # <<>>
    BY <1>3 DEF Typed, TypeOK
  <2>2. /\ Len(stack) \in Nat \ {0} /\ Len(stack') = Len(stack) - 1
        /\ \A k \in 1 .. Len(stack) - 1 : stack'[k] = stack[k]
    BY <1>3, <2>1, FrontAndLast DEF Typed
  <2>3. QED
    BY <1>3, <2>2 DEF Nested
<1>4. ASSUME pc' = "enter", NEW name \in Names,
             stack' = [stack EXCEPT ![Len(stack)].todo = @ \ {name}], stack # <<>>
      PROVE  Nested'
  <2>1. Len(stack) \in Nat \ {0} /\ Top \in Frames /\ stack \in Seq(Frames)
    BY <1>4, TopFrame DEF Typed
  <2> DEFINE frame == [Top EXCEPT !.todo = @ \ {name}]
  <2>2. stack' = [stack EXCEPT ![Len(stack)] = frame]
    BY <1>4 DEF Top, Last
  <2>3. frame \in Frames /\ frame.place = Top.place
    BY <2>1 DEF Frames
  <2> HIDE DEF frame
  <2>4. /\ Len(stack') = Len(stack)
        /\ \A k \in 1 .. Len(stack) : stack'[k] = IF k = Len(stack) THEN frame ELSE stack[k]
    BY <2>1, <2>2, <2>3, ExceptSeq
  <2>5. QED
    BY <1>4, <2>3, <2>4 DEF Nested, FpSteps, Top, Last
<1>5. CASE /\ MakeDir /\ pc' = "scan"
           /\ stack' = Append(stack, [place |-> Place(arg), slot |-> FreeSlot,
                                      todo |-> NamesIn(cwd)])
  <2>1. (stack = <<>> \/ arg \in Names) /\ stack \in Seq(Frames)
    BY <1>5 DEF MakeDir, Typed, TypeOK
  <2> DEFINE frame == [place |-> Place(arg), slot |-> FreeSlot, todo |-> NamesIn(cwd)]
  <2>2. frame \in Frames
    BY <2>1, PlaceTyped, FreeSlotIsFree, NamesInAreNames DEF Frames
  <2>3. Len(frame.place) = Len(stack)
    BY <2>1, PlaceLength
  <2>4. stack' = Append(stack, frame)
    BY <1>5
  <2> HIDE DEF frame
  <2>5. /\ Len(stack') = Len(stack) + 1 /\ Len(stack) \in Nat
        /\ \A k \in 1 .. Len(stack) : stack'[k] = stack[k]
        /\ stack'[Len(stack) + 1] = frame
    BY <2>1, <2>2, <2>4, AppendProperties, LenProperties
  <2>6. \A k \in 1 .. Len(stack) + 1 : k \in 1 .. Len(stack) \/ k = Len(stack) + 1
    BY <2>5
  <2>7. QED
    BY <1>5, <2>3, <2>5, <2>6 DEF Nested, FpSteps
<1>6. pc = "scan" => stack # <<>>
  BY DEF Typed, TypeOK
<1>7. QED
  BY <1>1, <1>2, <1>3, <1>4, <1>5, <1>6, StackSteps
-----------------------------------------------------------------------------
(* The working directory and the depth                                     *)

\* A directory is entered before its call has a frame, and a depth is taken
\* before what it is for has been made.
Entered == IF pc = "mkdir" THEN 1 ELSE 0
Taken == IF pc \in {"mkdir", "open", "read", "made"} THEN 1 ELSE 0

Within ==
  NoLinkedDirs /\ pc \in FpSteps =>
    /\ stack # <<>> \/ pc = "mkdir" =>
         IsPrefix(start, cwd) /\ Len(cwd) >= Len(start) + Len(stack) + Entered - 1
    /\ Front(start) = backup => IsPrefix(backup, cwd)

WithinDepth ==
  /\ \A e \in entries : e.run <= runs
  /\ pc \in FpSteps =>
       /\ limit = NoDepth => rem = NoDepth
       /\ limit # NoDepth =>
            /\ rem >= 0 /\ rem + Len(stack) + Taken <= limit
            /\ \A e \in entries : e.run = runs => Len(e.place) < limit

\* Directories are sequences of names.
LEMMA DirectoriesAreSequences ==
  ASSUME Typed
  PROVE  /\ cwd \in Seq(Names) /\ backup \in Seq(Names) /\ start \in Seq(Names)
         /\ Len(cwd) \in Nat /\ Len(backup) \in Nat /\ Len(start) \in Nat
         /\ Len(stack) \in Nat
<1>1. cwd \in Seq(Names) /\ backup \in Seq(Names) /\ start \in Seq(Names)
  <2>1. <<>> \in Seq(Names)
    BY EmptySeq
  <2>2. QED
    BY <2>1, FileSystem DEF Typed, TypeOK, Nodes, Listed
<1>2. stack \in Seq(Frames)
  BY DEF Typed
<1>3. QED
  BY <1>1, <1>2, LenProperties

\* The callers of a call that ends are as many or one less.
LEMMA ShorterStack ==
  ASSUME Typed, pc = "scan", stack' = Front(stack)
  PROVE  Len(stack') = Len(stack) - 1 /\ Len(stack) \in Nat \ {0}
BY TopFrame DEF Typed, TypeOK

\* MakeDir starts one call at most.
LEMMA MakeDirFrames ==
  ASSUME Typed, MakeDir
  PROVE  Len(stack') \in Nat /\ Len(stack') <= Len(stack) + 1
<1>1. AtPath
  BY DEF MakeDir, AtPath
<1>2. \/ stack' = stack
      \/ stack' = Append(stack, [place |-> Place(arg), slot |-> FreeSlot,
                                 todo |-> NamesIn(cwd)])
  BY DEF MakeDir, Return
<1>3. [place |-> Place(arg), slot |-> FreeSlot, todo |-> NamesIn(cwd)] \in Frames
  BY <1>1, HereTyped, FreeSlotIsFree, NamesInAreNames DEF Frames
<1>4. \A frame \in Frames : Len(Append(stack, frame)) = Len(stack) + 1
  BY AppendProperties DEF Typed
<1>5. QED
  BY <1>2, <1>3, <1>4, DirectoriesAreSequences

\* What the directory above a node is a prefix of.
LEMMA PrefixAbove ==
  ASSUME NEW s \in Seq(Names), NEW t \in Seq(Names), IsPrefix(s, t)
  PROVE  IsPrefix(Front(s), t)
<1>1. CASE s = <<>>
  <2>1. Front(s) = <<>>
    BY <1>1 DEF Front
  <2>2. QED
    BY <1>1, <2>1
<1>2. CASE s # <<>>
  <2>1. /\ Len(s) \in Nat \ {0} /\ Front(s) \in Seq(Names) /\ Len(Front(s)) = Len(s) - 1
        /\ \A i \in 1 .. Len(s) - 1 : Front(s)[i] = s[i]
    BY <1>2, FrontAndLast
  <2>2. Len(s) <= Len(t) /\ Len(t) \in Nat /\ \A i \in 1 .. Len(s) : s[i] = t[i]
    BY PrefixAgrees, LenProperties
  <2>3. Len(Front(s)) <= Len(t) /\ \A i \in 1 .. Len(Front(s)) : Front(s)[i] = t[i]
    BY <2>1, <2>2
  <2>4. QED
    BY <2>1, <2>3, PrefixAgrees
<1>3. QED
  BY <1>1, <1>2

\* A sequence that has another as a prefix and is no longer is that other.
LEMMA PrefixOfSameLength ==
  ASSUME NEW s \in Seq(Names), NEW t \in Seq(Names), IsPrefix(s, t), Len(t) <= Len(s)
  PROVE  s = t
<1>1. Len(s) <= Len(t) /\ \A i \in 1 .. Len(s) : s[i] = t[i]
  BY PrefixAgrees
<1>2. Len(s) = Len(t)
  BY <1>1, LenProperties
<1>3. QED
  BY <1>1, <1>2, SeqEqual

\* Where a call goes down to is what fp was given, or one name further down.
LEMMA EnterDown ==
  ASSUME Typed, NoLinkedDirs, stack # <<>> => IsPrefix(start, cwd), EnterDir
  PROVE  \/ stack = <<>> /\ cwd' = start
         \/ stack # <<>> /\ arg \in Names /\ cwd' = Append(cwd, arg)
<1>1. CASE stack = <<>>
  BY <1>1 DEF EnterDir, Node
<1>2. CASE stack # <<>>
  <2>1. arg \in Names
    BY <1>2 DEF EnterDir, Typed, TypeOK
  <2>2. cwd' = Reached(Append(cwd, arg)) /\ cwd' \in Dirs \cup {<<>>}
    BY <1>2 DEF EnterDir, Node
  <2>3. Append(cwd, arg) \notin DOMAIN Links
    <3>1. IsPrefix(start, Append(cwd, arg))
      BY <1>2, <2>1, DirectoriesAreSequences, PrefixSteps
    <3>2. QED
      BY <2>2, <3>1 DEF NoLinkedDirs, Reached
  <2>4. QED
    BY <1>2, <2>1, <2>2, <2>3 DEF Reached
<1>3. QED
  BY <1>1, <1>2

LEMMA WithinEnterDir ==
  ASSUME Typed, Within, EnterDir
  PROVE  Within'
<1>0. start' = start
  BY DEF EnterDir
<1> SUFFICES ASSUME NoLinkedDirs PROVE Within'
  BY <1>0 DEF Within, NoLinkedDirs
<1>1. /\ cwd \in Seq(Names) /\ start \in Seq(Names) /\ Len(cwd) \in Nat
      /\ Len(start) \in Nat /\ Len(stack) \in Nat /\ Len(<<>>) = 0
  BY DirectoriesAreSequences, EmptySeq
<1>2. /\ pc = "enter" /\ pc' = "mkdir" /\ start' = start /\ stack' = stack
      /\ backup' = backup /\ pc \in FpSteps /\ Entered = 0 /\ Entered' = 1
  BY DEF EnterDir, command, FpSteps, Entered
<1>3. /\ cwd' \in Seq(Names)
      /\ IsPrefix(start, cwd') /\ Len(cwd') >= Len(start) + Len(stack)
  <2>1. CASE stack = <<>> /\ cwd' = start
    BY <1>1, <2>1 DEF IsPrefix
  <2>2. CASE stack # <<>> /\ arg \in Names /\ cwd' = Append(cwd, arg)
    <3>1. IsPrefix(start, cwd) /\ Len(cwd) >= Len(start) + Len(stack) - 1
      BY <1>1, <1>2, <2>2 DEF Within
    <3>2. IsPrefix(start, cwd')
      BY <1>1, <2>2, <3>1, PrefixSteps
    <3>3. Len(cwd') = Len(cwd) + 1 /\ cwd' \in Seq(Names)
      BY <1>1, <2>2, AppendProperties
    <3>4. QED
      BY <1>1, <3>1, <3>2, <3>3
  <2>3. stack # <<>> => IsPrefix(start, cwd)
    BY <1>2 DEF Within
  <2>4. QED
    BY <2>1, <2>2, <2>3, EnterDown
<1>4. IsPrefix(Front(start), cwd')
  BY <1>1, <1>3, PrefixAbove
<1>5. QED
  BY <1>1, <1>2, <1>3, <1>4 DEF Within

LEMMA WithinMakeDir ==
  ASSUME Typed, Within, MakeDir
  PROVE  Within'
<1>0. start' = start
  BY DEF MakeDir, Return
<1> SUFFICES ASSUME NoLinkedDirs PROVE Within'
  BY <1>0 DEF Within, NoLinkedDirs
<1>1. Len(cwd) \in Nat /\ Len(start) \in Nat /\ Len(stack) \in Nat
  BY DirectoriesAreSequences
<1>2. /\ pc = "mkdir" /\ pc' # "mkdir" /\ cwd' = cwd /\ backup' = backup /\ start' = start
      /\ pc \in FpSteps /\ Entered = 1 /\ Entered' = 0
  BY DEF MakeDir, Return, command, FpSteps, Entered
<1>3. /\ IsPrefix(start, cwd) /\ Len(cwd) >= Len(start) + Len(stack)
      /\ Front(start) = backup => IsPrefix(backup, cwd)
  BY <1>1, <1>2 DEF Within
<1>4. Len(stack') <= Len(stack) + 1 /\ Len(stack') \in Nat
  BY <1>1, MakeDirFrames
<1>5. QED
  BY <1>1, <1>2, <1>3, <1>4 DEF Within

\* A call that ends, and maybe goes up.
LEMMA WithinUp ==
  ASSUME Typed, Within, ScanFails \/ CloseFails \/ Leave
  PROVE  Within'
<1>0. start' = start
  BY DEF ScanFails, CloseFails, Leave, Return
<1> SUFFICES ASSUME NoLinkedDirs PROVE Within'
  BY <1>0 DEF Within, NoLinkedDirs
<1>1. /\ cwd \in Seq(Names) /\ start \in Seq(Names) /\ Len(cwd) \in Nat
      /\ Len(start) \in Nat /\ Len(stack) \in Nat
  BY DirectoriesAreSequences
<1>2. /\ pc = "scan" /\ pc' # "mkdir" /\ stack' = Front(stack) /\ backup' = backup
      /\ cwd' = cwd \/ cwd' = Front(cwd)
      /\ start' = start /\ pc \in FpSteps /\ Entered = 0 /\ Entered' = 0
  BY DEF ScanFails, CloseFails, Leave, Return, command, FpSteps, Entered
<1>3. Len(stack') = Len(stack) - 1 /\ Len(stack) \in Nat \ {0} /\ stack # <<>>
  BY <1>2, ShorterStack DEF Typed, TypeOK
<1>4. /\ IsPrefix(start, cwd) /\ Len(cwd) >= Len(start) + Len(stack) - 1
      /\ Front(start) = backup => IsPrefix(backup, cwd)
  BY <1>1, <1>2, <1>3 DEF Within
<1>5. CASE cwd' = cwd
  BY <1>1, <1>2, <1>3, <1>4, <1>5 DEF Within
<1>6. CASE cwd' = Front(cwd) /\ Len(cwd) > Len(start)
  <2>1. IsPrefix(start, cwd') /\ cwd # <<>>
    BY <1>1, <1>4, <1>6, PrefixSteps, EmptySeq
  <2>2. Len(cwd') = Len(cwd) - 1 /\ cwd' \in Seq(Names)
    BY <1>1, <1>6, <2>1, FrontAndLast
  <2>3. IsPrefix(Front(start), cwd')
    BY <1>1, <2>1, <2>2, PrefixAbove
  <2>4. QED
    BY <1>1, <1>2, <1>3, <1>4, <2>1, <2>2, <2>3 DEF Within
<1>7. CASE cwd' = Front(cwd) /\ ~ (Len(cwd) > Len(start))
  <2>1. cwd = start
    BY <1>1, <1>4, <1>7, PrefixOfSameLength
  <2>2. Len(stack') = 0 /\ stack' = <<>>
    <3>1. Len(stack') = 0
      BY <1>1, <1>3, <1>4, <1>7
    <3>2. stack' \in Seq(Frames)
      BY <1>2, <1>3, TopFrame
    <3>3. QED
      BY <3>1, <3>2, EmptySeq
  <2>3. Front(start) = backup => cwd' = backup
    BY <1>7, <2>1
  <2>4. backup \in Seq(Names)
    BY DirectoriesAreSequences
  <2>5. IsPrefix(backup, backup)
    BY <2>4 DEF IsPrefix
  <2>6. QED
    BY <1>2, <2>2, <2>3, <2>5 DEF Within
<1>8. QED
  BY <1>2, <1>5, <1>6, <1>7

\* A step of fp that leaves the working directory and the calls as they are.
LEMMA WithinKept ==
  ASSUME Typed, Within, pc \in FpSteps, pc' # "mkdir", cwd' = cwd, backup' = backup,
         start' = start, Len(stack') = Len(stack), stack' # <<>> => stack # <<>>
  PROVE  Within'
<1>1. Len(cwd) \in Nat /\ Len(start) \in Nat /\ Len(stack) \in Nat
  BY DirectoriesAreSequences
<1>2. Entered \in {0, 1} /\ Entered' = 0
  BY DEF Entered
<1>3. QED
  BY <1>1, <1>2 DEF Within, NoLinkedDirs

LEMMA WithinNext ==
  ASSUME Typed, Within, [Next]_vars
  PROVE  Within'
<1>2. CASE UNCHANGED vars
  BY <1>2 DEF vars, control, command, Within, Entered, NoLinkedDirs
<1>3. CASE Prompt \/ OtherReturns \/ StartOther \/ FpReturns
  BY <1>3 DEF Prompt, OtherReturns, StartOther, FpReturns, FpSteps, Within
<1>4. CASE SigInt
  BY <1>4 DEF SigInt, FpSteps, control, command, Within, Entered, NoLinkedDirs
<1>5. ASSUME NEW node \in Nodes, NEW depth \in Depths, StartFp(node, depth)
      PROVE  Within'
  <2>1. backup' = cwd /\ cwd' = cwd /\ stack' = <<>> /\ pc' = "enter"
    BY <1>5 DEF StartFp, Typed, FpSteps
  <2>2. cwd \in Seq(Names)
    BY DirectoriesAreSequences
  <2>3. IsPrefix(cwd, cwd)
    BY <2>2 DEF IsPrefix
  <2>4. QED
    BY <2>1, <2>3 DEF Within
<1>6. CASE EnterSpent \/ EnterFails
  BY <1>6, WithinKept DEF EnterSpent, EnterFails, Return, command, FpSteps
<1>7. CASE \E name \in Names : ScanName(name)
  <2>1. PICK name \in Names : ScanName(name)
    BY <1>7
  <2>2. stack' = [stack EXCEPT ![Len(stack)].todo = @ \ {name}]
    BY <2>1 DEF ScanName
  <2>3. Len(stack') = Len(stack)
    BY <2>2 DEF Typed
  <2>4. pc = "scan" /\ stack # <<>>
    BY <2>1 DEF ScanName, Typed, TypeOK
  <2>5. QED
    BY <2>1, <2>3, <2>4, WithinKept DEF ScanName, command, FpSteps
<1>8. CASE EnterFile \/ FileMade \/ FingerprintFile
  <2>1. /\ pc \in FpSteps /\ pc' # "mkdir" /\ cwd' = cwd /\ backup' = backup
        /\ stack' = stack /\ start' = start
    BY <1>8 DEF EnterFile, FileMade, FingerprintFile, OpenFile, ReadEmpty, ReadRefused,
       ReadWhole, Return, command, FpSteps
  <2>2. QED
    BY <2>1, WithinKept
<1>9. QED
  BY <1>2, <1>3, <1>4, <1>5, <1>6, <1>7, <1>8, Steps, WithinEnterDir, WithinMakeDir, WithinUp

\* Outside of fp only entries are lost, and the number of the call stays.
LEMMA WithinDepthOutside ==
  ASSUME Typed, WithinDepth, Prompt \/ OtherReturns \/ StartOther \/ FpReturns
  PROVE  WithinDepth'
<1>1. pc' \notin FpSteps /\ runs' = runs /\ entries' \subseteq entries
  BY DEF Prompt, OtherReturns, StartOther, FpReturns, CleanUp, FpSteps, command, tree
<1>2. QED
  BY <1>1 DEF WithinDepth

LEMMA WithinDepthStartFp ==
  ASSUME Typed, Nested, WithinDepth,
         NEW node \in Nodes, NEW depth \in Depths, StartFp(node, depth)
  PROVE  WithinDepth'
<1>1. /\ runs' = runs + 1 /\ entries' = entries /\ stack' = <<>> /\ pc' = "enter"
      /\ limit' = depth /\ rem' = depth /\ runs \in Nat
  BY DEF StartFp, Typed, FpSteps
<1>2. depth \in Nat \cup {NoDepth}
  BY FileSystem
<1>3. Len(<<>>) = 0
  BY EmptySeq
<1>4. \A e \in entries : e.run \in Nat /\ e.run < runs'
  BY <1>1 DEF Typed, TypeOK, Entries, WithinDepth
<1>5. QED
  BY <1>1, <1>2, <1>3, <1>4 DEF WithinDepth, Taken, NoDepth

\* A step of fp that makes no entry deeper than what it spends, and gives back no
\* more than it ends.
LEMMA WithinDepthKept ==
  ASSUME Typed, WithinDepth, pc \in FpSteps, limit' = limit, runs' = runs,
         limit = NoDepth => rem' = NoDepth,
         limit # NoDepth =>
           /\ rem' >= 0 /\ rem' + Len(stack') + Taken' <= limit
           /\ \A e \in entries' : e.run = runs => e \in entries \/ Len(e.place) < limit,
         \A e \in entries' : e \in entries \/ e.run = runs
  PROVE  WithinDepth'
<1>1. \A e \in entries' : e.run <= runs
  BY DEF WithinDepth, Typed
<1>2. QED
  BY <1>1 DEF WithinDepth

\* What is known inside fp about a limit.
LEMMA Limited ==
  ASSUME Typed, WithinDepth, pc \in FpSteps
  PROVE  /\ limit \in Nat \cup {NoDepth} /\ rem \in Nat \cup {NoDepth}
         /\ Len(stack) \in Nat
         /\ limit = NoDepth => rem = NoDepth
         /\ limit # NoDepth => rem \in Nat /\ rem + Len(stack) + Taken <= limit
BY DirectoriesAreSequences DEF Typed, TypeOK, WithinDepth, NoDepth

\* Where an entry made here stands is within the depth, when a depth is taken.
LEMMA EntryWithin ==
  ASSUME Typed, Nested, WithinDepth, AtPath, limit # NoDepth,
         Taken = 1 \/ rem # 0,
         NEW node, NEW made
  PROVE  Len(Entry(arg, node, made).place) < limit
<1>1. Len(Place(arg)) = Len(stack) /\ pc \in FpSteps
  BY PlaceLength DEF Typed, TypeOK, AtPath, FpSteps
<1>2. rem \in Nat /\ rem + Len(stack) + Taken <= limit /\ limit \in Nat /\ Len(stack) \in Nat
  BY <1>1, Limited DEF NoDepth
<1>3. Taken \in {0, 1}
  BY DEF Taken
<1>4. Len(stack) < limit
  BY <1>2, <1>3
<1>5. Entry(arg, node, made).place = Place(arg)
  BY DEF Entry
<1>6. QED
  BY <1>1, <1>4, <1>5

LEMMA WithinDepthEnter ==
  ASSUME Typed, Nested, WithinDepth, EnterSpent \/ EnterFails \/ EnterDir
  PROVE  WithinDepth'
<1>1. /\ pc = "enter" /\ pc \in FpSteps /\ limit' = limit /\ runs' = runs /\ entries' = entries
      /\ stack' = stack
  BY DEF EnterSpent, EnterFails, EnterDir, Return, tree, command, FpSteps
<1>2. \/ rem' = rem /\ Taken' = 0
      \/ rem # 0 /\ rem' = Spend /\ Taken' \in {0, 1}
  BY DEF EnterSpent, EnterFails, EnterDir, Return, Taken
<1>3. Taken = 0
  BY <1>1 DEF Taken
<1>4. /\ limit = NoDepth => rem' = NoDepth
      /\ limit # NoDepth => rem' >= 0 /\ rem' + Len(stack') + Taken' <= limit
  BY <1>1, <1>2, <1>3, Limited DEF Spend, NoDepth
<1>5. QED
  BY <1>1, <1>4, WithinDepthKept

LEMMA WithinDepthMakeDir ==
  ASSUME Typed, Nested, WithinDepth, MakeDir
  PROVE  WithinDepth'
<1>1. /\ pc = "mkdir" /\ pc \in FpSteps /\ limit' = limit /\ runs' = runs /\ rem' = rem
      /\ Taken = 1 /\ Taken' = 0 /\ AtPath
  BY DEF MakeDir, Return, command, FpSteps, Taken, AtPath
<1>2. Len(stack') \in Nat /\ Len(stack') <= Len(stack) + 1
  BY MakeDirFrames
<1>3. \A e \in entries' : e \in entries \/ \E made \in BOOLEAN : e = Entry(arg, cwd, made)
  BY DEF MakeDir
<1>4. \A made \in BOOLEAN : Entry(arg, cwd, made).run = runs
  BY DEF Entry
<1>5. limit # NoDepth => \A made \in BOOLEAN : Len(Entry(arg, cwd, made).place) < limit
  BY <1>1, EntryWithin
<1>6. /\ limit = NoDepth => rem' = NoDepth
      /\ limit # NoDepth => rem' >= 0 /\ rem' + Len(stack') + Taken' <= limit
  BY <1>1, <1>2, Limited
<1>7. QED
  BY <1>1, <1>3, <1>4, <1>5, <1>6, WithinDepthKept

LEMMA WithinDepthScan ==
  ASSUME Typed, Nested, WithinDepth,
         (\E name \in Names : ScanName(name)) \/ ScanFails \/ CloseFails \/ Leave
  PROVE  WithinDepth'
<1>1. /\ pc = "scan" /\ pc \in FpSteps /\ limit' = limit /\ runs' = runs /\ entries' = entries
      /\ Taken = 0 /\ Taken' = 0
  BY DEF ScanName, ScanFails, CloseFails, Leave, Return, tree, command, FpSteps, Taken
<1>2. /\ Len(stack') \in Nat
      /\ \/ rem' = rem /\ Len(stack') <= Len(stack)
         \/ rem' = GiveBack /\ Len(stack') = Len(stack) - 1
  <2>1. CASE \E name \in Names : ScanName(name)
    <3>1. PICK name \in Names : stack' = [stack EXCEPT ![Len(stack)].todo = @ \ {name}]
      BY <2>1 DEF ScanName
    <3>2. Len(stack') = Len(stack)
      BY <3>1 DEF Typed
    <3>3. QED
      BY <2>1, <3>2, DirectoriesAreSequences DEF ScanName
  <2>2. CASE ScanFails \/ CloseFails \/ Leave
    <3>1. stack' = Front(stack) /\ (rem' = rem \/ rem' = GiveBack)
      BY <2>2 DEF ScanFails, CloseFails, Leave, Return
    <3>2. QED
      BY <1>1, <3>1, ShorterStack
  <2>3. QED
    BY <2>1, <2>2
<1>3. /\ limit = NoDepth => rem' = NoDepth
      /\ limit # NoDepth => rem' >= 0 /\ rem' + Len(stack') + Taken' <= limit
  BY <1>1, <1>2, Limited DEF GiveBack, NoDepth
<1>4. QED
  BY <1>1, <1>3, WithinDepthKept

LEMMA WithinDepthFile ==
  ASSUME Typed, Nested, WithinDepth, EnterFile \/ FileMade \/ FingerprintFile
  PROVE  WithinDepth'
<1>1. /\ pc \in FpSteps /\ limit' = limit /\ runs' = runs /\ stack' = stack /\ AtPath
  BY DEF EnterFile, FileMade, FingerprintFile, OpenFile, ReadEmpty, ReadRefused, ReadWhole,
     Return, command, FpSteps, AtPath
<1>2. Taken = 1 \/ rem # 0
  BY DEF EnterFile, FileMade, FingerprintFile, OpenFile, ReadEmpty, ReadRefused, ReadWhole, Taken
<1>3. \/ rem' = rem /\ Taken' <= Taken
      \/ rem # 0 /\ Taken = 0 /\ rem' = Spend /\ Taken' <= 1
      \/ Taken = 1 /\ rem' = GiveBack /\ Taken' = 0
  <2>1. CASE EnterFile
    BY <2>1 DEF EnterFile, Return, Taken
  <2>2. CASE FileMade
    BY <2>2 DEF FileMade, Return, Taken
  <2>3. CASE FingerprintFile
    <3>1. Taken = 1 /\ rem' = rem
      BY <2>3 DEF FingerprintFile, OpenFile, ReadEmpty, ReadRefused, ReadWhole, Taken
    <3>2. Taken' \in {0, 1}
      BY DEF Taken
    <3>3. QED
      BY <3>1, <3>2
  <2>4. QED
    BY <2>1, <2>2, <2>3
<1>4. \A e \in entries' : \/ e \in entries
                          \/ \E made \in BOOLEAN : e = Entry(arg, Node(arg), made)
  BY DEF EnterFile, FileMade, FingerprintFile, OpenFile, ReadEmpty, ReadRefused, ReadWhole,
     Finish, tree
<1>5. \A made \in BOOLEAN : Entry(arg, Node(arg), made).run = runs
  BY DEF Entry
<1>6. limit # NoDepth =>
        \A made \in BOOLEAN : Len(Entry(arg, Node(arg), made).place) < limit
  BY <1>1, <1>2, EntryWithin
<1>7. Taken \in {0, 1} /\ Taken' \in {0, 1}
  BY DEF Taken
<1>8. /\ limit = NoDepth => rem' = NoDepth
      /\ limit # NoDepth => rem' >= 0 /\ rem' + Len(stack') + Taken' <= limit
  BY <1>1, <1>3, <1>7, Limited DEF Spend, GiveBack, NoDepth
<1>9. QED
  BY <1>1, <1>4, <1>5, <1>6, <1>8, WithinDepthKept

LEMMA WithinDepthNext ==
  ASSUME Typed, Nested, WithinDepth, [Next]_vars
  PROVE  WithinDepth'
<1>1. CASE UNCHANGED vars
  BY <1>1 DEF vars, control, tree, command, WithinDepth, Taken
<1>2. CASE SigInt
  BY <1>2 DEF SigInt, FpSteps, control, tree, command, WithinDepth, Taken
<1>3. QED
  BY <1>1, <1>2, Steps, WithinDepthOutside, WithinDepthStartFp, WithinDepthEnter,
     WithinDepthMakeDir, WithinDepthScan, WithinDepthFile

\* However often calls of gen_tree fail without going back up or giving back their
\* depth, and wherever the path given to fp leads: if no directory below it is listed
\* through a link, the working directory stays as far below it as there are
\* directories being read; with any links, neither the walk nor an entry goes beyond
\* --depth.
THEOREM StaysInsideAlways == Spec => []StaysInside
<1>1. Init => Typed /\ Nested /\ Within /\ WithinDepth
  BY TypedInit, EmptySeq DEF Init, Nested, Within, WithinDepth, FpSteps
<1>2. Typed /\ Nested /\ Within /\ WithinDepth /\ [Next]_vars
      => (Typed /\ Nested /\ Within /\ WithinDepth)'
  BY TypedNext, NestedNext, WithinNext, WithinDepthNext
<1>3. Typed /\ Nested /\ Within /\ WithinDepth => StaysInside
  <2>1. SUFFICES ASSUME Typed, Nested, Within, WithinDepth, pc \in FpSteps
                 PROVE  StaysInside
    BY DEF StaysInside
  <2>2. Entered \in {0, 1} /\ Taken \in {0, 1}
    BY DEF Entered, Taken
  <2>3. NoLinkedDirs =>
          /\ stack # <<>> =>
               IsPrefix(start, cwd) /\ Len(cwd) >= Len(start) + Len(stack) - 1
          /\ Front(start) = backup => IsPrefix(backup, cwd)
    BY <2>1, <2>2, DirectoriesAreSequences DEF Within
  <2>4. limit # NoDepth => rem >= 0 /\ rem + Len(stack) <= limit
    BY <2>1, <2>2, Limited
  <2>5. QED
    BY <2>1, <2>3, <2>4 DEF StaysInside, WithinDepth
<1>4. QED
  BY <1>1, <1>2, <1>3, PTL DEF Spec
-----------------------------------------------------------------------------
(* Open directories and their records                                      *)

\* The places the calls of gen_tree have still to look at.
Ahead == UNION {{Append(stack[k].place, n) : n \in stack[k].todo} : k \in 1 .. Len(stack)}

\* The directories there are records of.
Recorded == {r.dirp : r \in records} \ {None}

\* The current call has recorded no directory at or below a place that is ahead, is
\* in none, and has none at or below the one it looks at.
Fresh ==
  /\ \A d \in Recorded : d[1] <= runs
  /\ \A d \in Recorded : d[1] = runs => \A p \in Ahead : ~ IsPrefix(p, d[2])
  /\ \A j \in 1 .. Len(stack) : \A p \in Ahead : ~ IsPrefix(p, stack[j].place)
  /\ pc \in {"enter", "mkdir"} =>
       /\ \A p \in Ahead : ~ IsPrefix(p, Place(arg))
       /\ \A d \in Recorded : d[1] = runs => ~ IsPrefix(Place(arg), d[2])

\* A place ahead is one level below the call it is in.
LEMMA AheadPlaces ==
  ASSUME Typed, Nested, NEW p \in Ahead
  PROVE  \E k \in 1 .. Len(stack) : \E n \in stack[k].todo :
           /\ stack[k].place \in Seq(Names) /\ n \in Names /\ Len(stack[k].place) = k - 1
           /\ p = Append(stack[k].place, n)
           /\ p \in Seq(Names) /\ Len(p) = k
<1>5. PICK k \in 1 .. Len(stack) : p \in {Append(stack[k].place, n) : n \in stack[k].todo}
  BY DEF Ahead
<1>1. PICK n \in stack[k].todo : p = Append(stack[k].place, n)
  BY <1>5
<1>2. stack[k] \in Frames
  BY ElementOfSeq DEF Typed
<1>3. stack[k].place \in Seq(Names) /\ n \in Names /\ Len(stack[k].place) = k - 1
  BY <1>2 DEF Frames, Nested
<1>4. QED
  BY <1>1, <1>3, AppendProperties

\* Recorded directories are of a call and have a place.
LEMMA RecordedPlaces ==
  ASSUME Typed, NEW d \in Recorded
  PROVE  d[1] \in Nat /\ d[2] \in Seq(Names) /\ d = <<d[1], d[2]>>
<1>1. d \in Handles
  BY DEF Typed, Records, Recorded
<1>2. QED
  BY <1>1 DEF Handles

\* A longer sequence is no prefix, and what one name follows is one.
LEMMA PrefixFacts ==
  ASSUME NEW s \in Seq(Names), NEW t \in Seq(Names), NEW n \in Names
  PROVE  /\ IsPrefix(s, s)
         /\ Len(t) < Len(s) => ~ IsPrefix(s, t)
         /\ IsPrefix(Append(s, n), t) => IsPrefix(s, t)
         /\ Len(s) <= Len(t) /\ IsPrefix(s, Append(t, n)) => IsPrefix(s, t)
<1>1. Len(s) \in Nat /\ Len(t) \in Nat
  BY LenProperties
<1>2. IsPrefix(s, s) /\ (Len(t) < Len(s) => ~ IsPrefix(s, t))
  BY <1>1, PrefixAgrees
<1>3. ASSUME IsPrefix(Append(s, n), t)
      PROVE  IsPrefix(s, t)
  <2> DEFINE a == Append(s, n)
  <2>1. /\ a \in Seq(Names) /\ Len(a) = Len(s) + 1
        /\ \A i \in 1 .. Len(s) : a[i] = s[i]
    BY AppendProperties
  <2>5. IsPrefix(a, t)
    BY <1>3
  <2> HIDE DEF a
  <2>2. Len(s) + 1 <= Len(t) /\ \A i \in 1 .. Len(s) + 1 : a[i] = t[i]
    BY <2>1, <2>5, PrefixAgrees
  <2>3. Len(s) <= Len(t) /\ \A i \in 1 .. Len(s) : s[i] = t[i]
    BY <1>1, <2>1, <2>2
  <2>4. QED
    BY <2>3, PrefixAgrees
<1>4. ASSUME Len(s) <= Len(t), IsPrefix(s, Append(t, n))
      PROVE  IsPrefix(s, t)
  <2> DEFINE a == Append(t, n)
  <2>1. a \in Seq(Names) /\ \A i \in 1 .. Len(t) : a[i] = t[i]
    BY AppendProperties
  <2>5. IsPrefix(s, a)
    BY <1>4
  <2> HIDE DEF a
  <2>2. \A i \in 1 .. Len(s) : s[i] = a[i]
    BY <2>1, <2>5, PrefixAgrees
  <2>3. \A i \in 1 .. Len(s) : s[i] = t[i]
    BY <1>1, <1>4, <2>1, <2>2
  <2>4. QED
    BY <1>4, <2>3, PrefixAgrees
<1>5. QED
  BY <1>2, <1>3, <1>4

\* Closing the directories of some records and deleting these.
LEMMA RecordedAfterDeletion ==
  ASSUME DirpsRecorded, NEW X, X \subseteq records,
         records' = records \ X, openDirs' = openDirs \ {r.dirp : r \in X}
  PROVE  DirpsRecorded' /\ Recorded' \subseteq Recorded
<1>1. \A r, s \in records : r.dirp = s.dirp /\ r.dirp # None => r = s
  BY DEF DirpsRecorded
<1>2. openDirs = {r.dirp : r \in {x \in records : ~ x.shut}} \ {None}
  BY DEF DirpsRecorded
<1>3. openDirs' = {r.dirp : r \in {x \in records' : ~ x.shut}} \ {None}
  BY <1>1, <1>2
<1>4. \A r, s \in records' :
        (r.slot = s.slot \/ (r.dirp = s.dirp /\ r.dirp # None)) => r = s
  BY DEF DirpsRecorded
<1>5. QED
  BY <1>3, <1>4 DEF DirpsRecorded, Recorded

\* Recording one that no record has, in a slot that was free, or that none could be
\* opened.
LEMMA RecordedAfterAddition ==
  ASSUME DirpsRecorded, NEW slot, NEW dirp, dirp \notin Recorded,
         \A r \in records : r.slot # slot,
         records' = records \cup {[slot |-> slot, dirp |-> dirp, shut |-> FALSE]},
         openDirs' = openDirs \cup ({dirp} \ {None})
  PROVE  DirpsRecorded'
<1> DEFINE new == [slot |-> slot, dirp |-> dirp, shut |-> FALSE]
<1>1. openDirs = {r.dirp : r \in {x \in records : ~ x.shut}} \ {None}
  BY DEF DirpsRecorded
<1>2. new.slot = slot /\ new.dirp = dirp /\ ~ new.shut
  OBVIOUS
<1>3. records' = records \cup {new}
  OBVIOUS
<1> HIDE DEF new
<1>4. openDirs' = {r.dirp : r \in {x \in records' : ~ x.shut}} \ {None}
  BY <1>1, <1>2, <1>3
<1>5. \A r \in records : r.slot # new.slot /\ (r.dirp = new.dirp => r.dirp = None)
  BY <1>2 DEF Recorded
<1>6. \A r, s \in records' :
        (r.slot = s.slot \/ (r.dirp = s.dirp /\ r.dirp # None)) => r = s
  BY <1>3, <1>5 DEF DirpsRecorded
<1>7. QED
  BY <1>4, <1>6 DEF DirpsRecorded

\* A record that says its directory is closed is otherwise what it was.
LEMMA ShutRecords ==
  ASSUME Typed, CloseFails
  PROVE  \A r \in records' : \E s \in records :
           /\ r.slot = s.slot /\ r.dirp = s.dirp
           /\ r = IF s \in Mine THEN [s EXCEPT !.shut = TRUE] ELSE s
<1>1. Mine \subseteq records /\ \A s \in records : s \in Records
  BY DEF Mine, Typed
<1>2. TAKE r \in records'
<1>3. CASE r \in records \ Mine
  BY <1>3
<1>4. CASE r \in {[s EXCEPT !.shut = TRUE] : s \in Mine}
  BY <1>1, <1>4 DEF Records
<1>5. QED
  BY <1>3, <1>4 DEF CloseFails

LEMMA RecordedAfterShut ==
  ASSUME Typed, DirpsRecorded, CloseFails
  PROVE  DirpsRecorded' /\ Recorded' \subseteq Recorded
<1> DEFINE Shut(s) == IF s \in Mine THEN [s EXCEPT !.shut = TRUE] ELSE s
<1>1. \A s \in records : s \in Records
  BY DEF Typed
<1>2. \A s \in records : /\ Shut(s).slot = s.slot /\ Shut(s).dirp = s.dirp
                          /\ Shut(s).shut = (s.shut \/ s \in Mine)
  BY <1>1 DEF Records
<1>3. records' = {Shut(s) : s \in records}
  <2>1. Mine \subseteq records
    BY DEF Mine
  <2>2. QED
    BY <2>1 DEF CloseFails
<1> HIDE DEF Shut
<1>4. \A r \in records' : \E s \in records : r = Shut(s)
  BY <1>3
<1>5. \A r, s \in records' :
        (r.slot = s.slot \/ (r.dirp = s.dirp /\ r.dirp # None)) => r = s
  BY <1>2, <1>4 DEF DirpsRecorded
<1>6. Recorded' \subseteq Recorded
  BY <1>2, <1>4 DEF Recorded
<1>7. openDirs' = openDirs \ {r.dirp : r \in Mine}
  BY DEF CloseFails
<1>8. openDirs = {r.dirp : r \in {x \in records : ~ x.shut}} \ {None}
  BY DEF DirpsRecorded
<1>9. \A r, s \in records : r.dirp = s.dirp /\ r.dirp # None => r = s
  BY DEF DirpsRecorded
<1>10. Mine \subseteq records
  BY DEF Mine
<1>11. openDirs' = {r.dirp : r \in {x \in records : ~ x.shut /\ x \notin Mine}} \ {None}
  BY <1>7, <1>8, <1>9, <1>10
<1>14. \A s \in records : ~ s.shut /\ s \notin Mine => s \in records'
  BY <1>3 DEF Shut
<1>15. \A r \in records' : ~ r.shut =>
         \E s \in records : ~ s.shut /\ s \notin Mine /\ s.dirp = r.dirp
  <2>1. TAKE r \in records'
  <2>2. HAVE ~ r.shut
  <2>3. PICK s \in records : r = Shut(s)
    BY <1>4
  <2>4. ~ s.shut /\ s \notin Mine /\ s.dirp = r.dirp
    BY <1>2, <2>2, <2>3
  <2>5. QED
    BY <2>4
<1>12. {r.dirp : r \in {x \in records' : ~ x.shut}}
         = {r.dirp : r \in {x \in records : ~ x.shut /\ x \notin Mine}}
  BY <1>14, <1>15
<1>13. QED
  BY <1>5, <1>6, <1>11, <1>12 DEF DirpsRecorded

\* What a step does to the open directories and their records.
LEMMA RecordSteps ==
  ASSUME Typed, DirpsRecorded, [Next]_vars
  PROVE  \/ records' = records /\ openDirs' = openDirs
         \/ /\ DirpsRecorded' /\ Recorded' \subseteq Recorded
            /\ pc' \notin {"enter", "mkdir"} /\ runs' = runs
         \/ MakeDir
<1>1. CASE UNCHANGED vars
  BY <1>1 DEF vars, dirps
<1>2. CASE Prompt \/ OtherReturns \/ StartOther \/ SigInt
  BY <1>2 DEF Prompt, OtherReturns, StartOther, SigInt, dirps
<1>3. ASSUME NEW node \in Nodes, NEW depth \in Depths, StartFp(node, depth)
      PROVE  records' = records /\ openDirs' = openDirs
  BY <1>3 DEF StartFp
<1>4. CASE EnterSpent \/ EnterFails \/ EnterDir
  BY <1>4 DEF EnterSpent, EnterFails, EnterDir, dirps
<1>5. CASE (\E name \in Names : ScanName(name)) \/ ScanFails
  BY <1>5 DEF ScanName, ScanFails, dirps
<1>6. CASE Leave
  <2>1. Mine \subseteq records /\ records' = records \ Mine
        /\ openDirs' = openDirs \ {r.dirp : r \in Mine}
    BY <1>6 DEF Leave, Mine
  <2>2. DirpsRecorded' /\ Recorded' \subseteq Recorded
    BY <2>1, RecordedAfterDeletion
  <2>3. pc' \notin {"enter", "mkdir"} /\ runs' = runs
    BY <1>6 DEF Leave, Return, command
  <2>4. QED
    BY <2>2, <2>3
<1>10. CASE CloseFails
  <2>1. pc' \notin {"enter", "mkdir"} /\ runs' = runs
    BY <1>10 DEF CloseFails, Return, command
  <2>2. QED
    BY <1>10, <2>1, RecordedAfterShut
<1>7. CASE EnterFile \/ FileMade \/ FingerprintFile
  BY <1>7 DEF EnterFile, FileMade, FingerprintFile, OpenFile, ReadEmpty, ReadRefused,
     ReadWhole, dirps
<1>8. CASE FpReturns
  <2>1. CASE ret \/ CleanUpBreaks
    BY <1>8, <2>1 DEF FpReturns, dirps
  <2>2. CASE ~ (ret \/ CleanUpBreaks)
    <3>1. /\ records' = records \ BelowMax /\ openDirs' = openDirs \ {r.dirp : r \in BelowMax}
          /\ BelowMax \subseteq records
      BY <1>8, <2>2 DEF FpReturns, CleanUp, BelowMax
    <3>2. DirpsRecorded' /\ Recorded' \subseteq Recorded
      BY <3>1, RecordedAfterDeletion
    <3>3. pc' \notin {"enter", "mkdir"} /\ runs' = runs
      BY <1>8 DEF FpReturns, command
    <3>4. QED
      BY <3>2, <3>3
  <2>3. QED
    BY <2>1, <2>2
<1>9. QED
  BY <1>1, <1>2, <1>3, <1>4, <1>5, <1>6, <1>7, <1>8, <1>10, Steps

\* The directory MakeDir opens is not open yet: it is the one it looks at.
LEMMA MakeDirRecorded ==
  ASSUME Typed, DirpsRecorded, Fresh, MakeDir
  PROVE  DirpsRecorded'
<1>1. pc = "mkdir" /\ AtPath
  BY DEF MakeDir, AtPath
<1>2. Place(arg) \in Seq(Names)
  BY <1>1, HereTyped
<1>3. Here \notin Recorded
  <2>1. IsPrefix(Place(arg), Place(arg))
    BY <1>2 DEF IsPrefix
  <2>2. Here[1] = runs /\ Here[2] = Place(arg)
    BY DEF Here
  <2>3. QED
    BY <1>1, <2>1, <2>2 DEF Fresh
<1>4. None \notin Recorded
  BY DEF Recorded
<1>5. PICK dirp \in {Here, None} :
        /\ openDirs' = openDirs \cup ({dirp} \ {None})
        /\ records' = records \cup {[slot |-> FreeSlot, dirp |-> dirp, shut |-> FALSE]}
  BY DEF MakeDir
<1>6. dirp \notin Recorded
  BY <1>3, <1>4
<1>7. \A r \in records : r.slot # FreeSlot
  BY FreeSlotIsFree
<1>8. QED
  BY <1>5, <1>6, <1>7, RecordedAfterAddition
\* What a step that starts no call leaves of the calls and of what is ahead.
LEMMA FreshShrinks ==
  ASSUME Typed, Fresh, runs' = runs, Recorded' \subseteq Recorded,
         Len(stack') \in Nat, Len(stack') <= Len(stack),
         \A k \in 1 .. Len(stack') :
           stack'[k].place = stack[k].place /\ stack'[k].todo \subseteq stack[k].todo,
         pc' \in {"enter", "mkdir"} => pc \in {"enter", "mkdir"} /\ Place(arg)' = Place(arg)
  PROVE  Fresh'
<1>1. \A k \in 1 .. Len(stack') : k \in 1 .. Len(stack)
  BY DirectoriesAreSequences
<1>2. Ahead' \subseteq Ahead
  BY <1>1 DEF Ahead
<1>3. \A d \in Recorded' : d[1] <= runs'
  BY DEF Fresh
<1>4. \A d \in Recorded' : d[1] = runs' => \A p \in Ahead' : ~ IsPrefix(p, d[2])
  BY <1>2 DEF Fresh
<1>5. \A j \in 1 .. Len(stack') : \A p \in Ahead' : ~ IsPrefix(p, stack'[j].place)
  BY <1>1, <1>2 DEF Fresh
<1>6. pc' \in {"enter", "mkdir"} =>
        /\ \A p \in Ahead' : ~ IsPrefix(p, Place(arg)')
        /\ \A d \in Recorded' : d[1] = runs' => ~ IsPrefix(Place(arg)', d[2])
  BY <1>2 DEF Fresh
<1>7. QED
  BY <1>3, <1>4, <1>5, <1>6 DEF Fresh

LEMMA FreshIfSameCalls ==
  ASSUME Typed, Fresh, runs' = runs, Recorded' \subseteq Recorded,
         stack' = stack \/ stack' = <<>>,
         pc' \in {"enter", "mkdir"} => pc \in {"enter", "mkdir"} /\ arg' = arg /\ stack' = stack
  PROVE  Fresh'
<1>1. Len(stack) \in Nat /\ Len(<<>>) = 0
  BY DirectoriesAreSequences, EmptySeq
<1>2. pc' \in {"enter", "mkdir"} => Place(arg)' = Place(arg)
  BY DEF Place, Top
<1>3. Len(stack') \in Nat /\ Len(stack') <= Len(stack)
  BY <1>1
<1>4. \A k \in 1 .. Len(stack') :
        stack'[k].place = stack[k].place /\ stack'[k].todo \subseteq stack[k].todo
  BY <1>1
<1>5. QED
  BY <1>2, <1>3, <1>4, FreshShrinks

LEMMA FreshStartFp ==
  ASSUME Typed, Nested, Fresh,
         NEW node \in Nodes, NEW depth \in Depths, StartFp(node, depth)
  PROVE  Fresh'
<1>1. stack' = <<>> /\ runs' = runs + 1 /\ Recorded' = Recorded /\ runs \in Nat
  BY DEF StartFp, Typed, FpSteps, Recorded
<1>2. Len(stack') = 0
  BY <1>1, EmptySeq
<1>3. Ahead' = {}
  BY <1>2 DEF Ahead
<1>4. \A d \in Recorded' : d[1] < runs'
  BY <1>1, RecordedPlaces DEF Fresh
<1>5. \A d \in Recorded' : d[1] # runs' /\ d[1] <= runs'
  BY <1>1, <1>4, RecordedPlaces
<1>6. QED
  BY <1>2, <1>3, <1>5 DEF Fresh

\* The name taken from the last call is ahead no more, and is looked at.
LEMMA FreshScanName ==
  ASSUME Typed, Nested, Fresh, NEW name \in Names, ScanName(name)
  PROVE  Fresh'
<1> DEFINE c == Append(Top.place, name)
<1> DEFINE n == Len(stack)
<1> DEFINE frame == [Top EXCEPT !.todo = @ \ {name}]
<1>1. /\ pc = "scan" /\ pc' = "enter" /\ arg' = name /\ name \in Top.todo
      /\ runs' = runs /\ Recorded' = Recorded /\ stack # <<>>
  BY DEF ScanName, command, dirps, Typed, TypeOK, Recorded
<1>2. n \in Nat \ {0} /\ Top \in Frames /\ stack \in Seq(Frames) /\ Top = stack[n]
  BY <1>1, TopFrame DEF Typed, Top, Last
<1>3. frame \in Frames /\ frame.place = Top.place /\ frame.todo = Top.todo \ {name}
  BY <1>2 DEF Frames
<1>4. stack' = [stack EXCEPT ![n] = frame]
  BY DEF ScanName, Top, Last
<1> HIDE DEF frame
<1>5. /\ Len(stack') = n /\ stack' # <<>>
      /\ \A k \in 1 .. n : stack'[k] = IF k = n THEN frame ELSE stack[k]
  BY <1>2, <1>3, <1>4, ExceptSeq, EmptySeq
<1>6. Top.place \in Seq(Names) /\ Len(Top.place) = n - 1
  BY <1>2 DEF Frames, Nested
<1>7. c \in Seq(Names) /\ Len(c) = n /\ c \in Ahead
  <2>1. c \in Seq(Names) /\ Len(c) = n
    BY <1>2, <1>6, AppendProperties
  <2>2. c \in {Append(stack[n].place, m) : m \in stack[n].todo}
    BY <1>1, <1>2
  <2>3. n \in 1 .. Len(stack)
    BY <1>2
  <2> HIDE DEF c, n
  <2>4. QED
    BY <2>1, <2>2, <2>3 DEF Ahead
<1>8. Place(arg)' = c
  <2>1. Last(stack') = frame
    BY <1>2, <1>5 DEF Last
  <2>2. QED
    BY <1>1, <1>3, <1>5, <2>1 DEF Place, Top
<1>9. Ahead' \subseteq Ahead
  BY <1>2, <1>3, <1>5 DEF Ahead
<1>10. ASSUME NEW p \in Ahead'
       PROVE  ~ IsPrefix(p, c)
  <2>1. PICK k \in 1 .. n : p \in {Append(stack'[k].place, m) : m \in stack'[k].todo}
    BY <1>5 DEF Ahead
  <2>2. PICK m \in stack'[k].todo : p = Append(stack'[k].place, m)
    BY <2>1
  <2>3. p \in Ahead
    BY <1>9
  <2>4. p \in Seq(Names) /\ Len(p) \in Nat
    BY <2>3, AheadPlaces, LenProperties
  <2>5. /\ stack'[k].place = stack[k].place /\ stack[k].place \in Seq(Names)
        /\ Len(stack[k].place) = k - 1 /\ m \in Names
    <3>1. stack[k] \in Frames
      BY <1>2, ElementOfSeq
    <3>2. QED
      BY <1>2, <1>3, <1>5, <3>1 DEF Frames, Nested
  <2>6. Len(p) = k /\ p[k] = m
    <3>1. k - 1 + 1 = k
      OBVIOUS
    <3>2. QED
      BY <2>2, <2>5, <3>1, AppendProperties
  <2>7. CASE k = n
    <3>1. m # name /\ c[n] = name
      <4>1. n - 1 + 1 = n
        BY <1>2
      <4>2. QED
        BY <1>2, <1>3, <1>5, <1>6, <2>7, <4>1, AppendProperties
    <3>2. n \in 1 .. Len(p) /\ p[n] # c[n]
      BY <1>2, <2>6, <2>7, <3>1
    <3> HIDE DEF c, n
    <3>3. QED
      BY <1>7, <2>4, <3>2, PrefixAgrees
  <2>8. CASE k < n
    <3>1. Len(p) <= Len(Top.place)
      BY <1>2, <1>6, <2>6, <2>8
    <3>2. ~ IsPrefix(p, Top.place)
      BY <1>2, <2>3 DEF Fresh
    <3>3. QED
      BY <1>6, <2>4, <3>1, <3>2, PrefixFacts
  <2>9. QED
    BY <1>2, <2>7, <2>8
<1>11. \A d \in Recorded : d[1] = runs => ~ IsPrefix(c, d[2])
  BY <1>7 DEF Fresh
<1>12. \A j \in 1 .. n : stack'[j].place = stack[j].place
  BY <1>2, <1>3, <1>5
<1> HIDE DEF c, n
<1>13. \A j \in 1 .. Len(stack') : \A p \in Ahead' : ~ IsPrefix(p, stack'[j].place)
  BY <1>5, <1>9, <1>12 DEF Fresh, n
<1>14. QED
  BY <1>1, <1>8, <1>9, <1>10, <1>11, <1>13 DEF Fresh
\* Names of the directory that is opened are ahead, one level below it.
LEMMA FreshMakeDir ==
  ASSUME Typed, Nested, Fresh, MakeDir
  PROVE  Fresh'
<1> DEFINE c == Place(arg)
<1> DEFINE n == Len(stack)
<1> DEFINE frame == [place |-> c, slot |-> FreeSlot, todo |-> NamesIn(cwd)]
<1>1. /\ pc = "mkdir" /\ pc' \in {"scan", "done"} /\ runs' = runs /\ AtPath
      /\ stack = <<>> \/ arg \in Names
      /\ stack' = stack \/ stack' = Append(stack, frame)
  BY DEF MakeDir, Return, command, Typed, TypeOK, AtPath
<1>14. Recorded' \subseteq Recorded \cup {Here}
  <2>1. PICK dirp \in {Here, None} :
          records' = records \cup {[slot |-> FreeSlot, dirp |-> dirp, shut |-> FALSE]}
    BY DEF MakeDir
  <2>2. QED
    BY <2>1 DEF Recorded
<1>2. /\ c \in Seq(Names) /\ Len(c) = n /\ n \in Nat
      /\ frame \in Frames /\ frame.place = c /\ frame.todo \subseteq Names
      /\ stack \in Seq(Frames)
  BY <1>1, PlaceTyped, PlaceLength, FreeSlotIsFree, NamesInAreNames, DirectoriesAreSequences
     DEF Frames, Typed
<1>3. \A p \in Ahead : ~ IsPrefix(p, c)
  BY <1>1 DEF Fresh
<1>4. \A d \in Recorded : d[1] = runs => ~ IsPrefix(c, d[2])
  BY <1>1 DEF Fresh
<1>5. Here = <<runs, c>>
  BY DEF Here
<1> HIDE DEF c, frame
<1>6. /\ Len(stack') \in {n, n + 1}
      /\ \A k \in 1 .. n : stack'[k] = stack[k]
      /\ Len(stack') = n + 1 => stack'[n + 1] = frame
  BY <1>1, <1>2, AppendProperties
<1>7. \A k \in 1 .. Len(stack') : k \in 1 .. n \/ (k = n + 1 /\ stack'[k] = frame)
  BY <1>2, <1>6
<1>8. \A p \in Ahead' : p \in Ahead \/ \E m \in Names : p = Append(c, m)
  <2>1. TAKE p \in Ahead'
  <2>2. PICK k \in 1 .. Len(stack') : p \in {Append(stack'[k].place, m) : m \in stack'[k].todo}
    BY DEF Ahead
  <2>3. CASE k \in 1 .. n
    <3>1. stack'[k] = stack[k] /\ k \in 1 .. Len(stack)
      BY <1>6, <2>3
    <3>2. p \in {Append(stack[k].place, m) : m \in stack[k].todo}
      BY <2>2, <3>1
    <3>3. QED
      BY <3>1, <3>2 DEF Ahead
  <2>4. CASE k = n + 1 /\ stack'[k] = frame
    BY <1>2, <2>2, <2>4
  <2>5. QED
    BY <1>7, <2>3, <2>4
<1>9. \A m \in Names : Append(c, m) \in Seq(Names) /\ Len(Append(c, m)) = n + 1
  BY <1>2, AppendProperties
<1>10. ASSUME NEW p \in Ahead', NEW d \in Recorded', d[1] = runs
       PROVE  ~ IsPrefix(p, d[2])
  <2>1. CASE d \in Recorded
    <3>1. d[2] \in Seq(Names)
      BY <2>1, RecordedPlaces
    <3>2. CASE p \in Ahead
      BY <1>10, <2>1, <3>2 DEF Fresh
    <3>3. ASSUME NEW m \in Names, p = Append(c, m)
          PROVE  ~ IsPrefix(p, d[2])
      BY <1>2, <1>4, <1>10, <2>1, <3>1, <3>3, PrefixFacts
    <3>4. QED
      BY <1>8, <3>2, <3>3
  <2>2. CASE d = Here
    <3>1. d[2] = c
      BY <1>5, <2>2
    <3>2. \A m \in Names : ~ IsPrefix(Append(c, m), c)
      BY <1>2, <1>9 DEF IsPrefix
    <3>3. QED
      BY <1>3, <1>8, <3>1, <3>2
  <2>3. QED
    BY <1>1, <1>14, <2>1, <2>2
<1>11. ASSUME NEW j \in 1 .. Len(stack'), NEW p \in Ahead'
       PROVE  ~ IsPrefix(p, stack'[j].place)
  <2>1. /\ stack'[j].place \in Seq(Names) /\ Len(stack'[j].place) <= n
        /\ Len(stack'[j].place) \in Nat
    <3>1. CASE j \in 1 .. n
      <4>1. stack[j] \in Frames
        BY <1>2, <3>1, ElementOfSeq
      <4>2. QED
        BY <1>2, <1>6, <3>1, <4>1 DEF Frames, Nested
    <3>2. CASE j = n + 1 /\ stack'[j] = frame
      BY <1>2, <3>2
    <3>3. QED
      BY <1>7, <3>1, <3>2
  <2>2. CASE p \in Ahead
    BY <1>2, <1>3, <1>6, <1>7, <2>2 DEF Fresh
  <2>3. ASSUME NEW m \in Names, p = Append(c, m)
        PROVE  ~ IsPrefix(p, stack'[j].place)
    BY <1>2, <1>9, <2>1, <2>3 DEF IsPrefix
  <2>4. QED
    BY <1>8, <2>2, <2>3
<1>12. \A d \in Recorded' : d[1] <= runs
  BY <1>1, <1>2, <1>5, <1>14 DEF Fresh, Typed
<1>13. QED
  BY <1>1, <1>10, <1>11, <1>12 DEF Fresh

LEMMA FreshNext ==
  ASSUME Typed, Nested, Fresh, DirpsRecorded, [Next]_vars
  PROVE  Fresh'
<1>1. CASE MakeDir
  BY <1>1, FreshMakeDir
<1>2. CASE ~ MakeDir
  <2>1. Recorded' \subseteq Recorded
    BY <1>2, RecordSteps DEF Recorded
  <2>2. CASE UNCHANGED vars
    BY <2>1, <2>2, FreshIfSameCalls DEF vars, control, command
  <2>3. CASE Prompt \/ OtherReturns \/ StartOther
    BY <2>1, <2>3, FreshIfSameCalls DEF Prompt, OtherReturns, StartOther, command
  <2>4. CASE SigInt \/ FpReturns
    BY <2>1, <2>4, FreshIfSameCalls DEF SigInt, FpReturns, FrameGone, control, command
  <2>5. ASSUME NEW node \in Nodes, NEW depth \in Depths, StartFp(node, depth)
        PROVE  Fresh'
    BY <2>5, FreshStartFp
  <2>6. CASE EnterSpent \/ EnterFails \/ EnterDir
    BY <2>1, <2>6, FreshIfSameCalls DEF EnterSpent, EnterFails, EnterDir, Return, command
  <2>7. CASE \E name \in Names : ScanName(name)
    BY <2>7, FreshScanName
  <2>8. CASE ScanFails \/ CloseFails \/ Leave
    <3>1. /\ pc = "scan" /\ pc' \notin {"enter", "mkdir"} /\ stack' = Front(stack)
          /\ runs' = runs /\ stack # <<>>
      BY <2>8 DEF ScanFails, CloseFails, Leave, Return, command, Typed, TypeOK
    <3>2. /\ Len(stack') = Len(stack) - 1 /\ Len(stack) \in Nat \ {0}
          /\ \A k \in 1 .. Len(stack) - 1 : stack'[k] = stack[k]
      BY <3>1, FrontAndLast DEF Typed
    <3>3. QED
      BY <2>1, <3>1, <3>2, FreshShrinks
  <2>9. CASE EnterFile \/ FileMade \/ FingerprintFile
    BY <2>1, <2>9, FreshIfSameCalls DEF EnterFile, FileMade, FingerprintFile, OpenFile,
       ReadEmpty, ReadRefused, ReadWhole, Return, command
  <2>10. QED
    BY <1>2, <2>2, <2>3, <2>4, <2>5, <2>6, <2>7, <2>8, <2>9, Steps
<1>3. QED
  BY <1>1, <1>2

LEMMA RecordedNext ==
  ASSUME Typed, DirpsRecorded, Fresh, [Next]_vars
  PROVE  DirpsRecorded'
<1>1. CASE records' = records /\ openDirs' = openDirs
  BY <1>1 DEF DirpsRecorded
<1>2. QED
  BY <1>1, RecordSteps, MakeDirRecorded

\* Whatever fails and whenever SIGINT comes, no open directory is lost or recorded
\* twice, and none is closed while a record keeps it unless its closedir has failed.
THEOREM DirpsAlwaysRecorded == Spec => []DirpsRecorded
<1>1. Init => Typed /\ Nested /\ Fresh /\ DirpsRecorded
  <2>1. SUFFICES ASSUME Init
                 PROVE  Nested /\ Fresh /\ DirpsRecorded
    BY TypedInit
  <2>2. Len(stack) = 0
    BY <2>1, EmptySeq DEF Init
  <2>3. QED
    BY <2>1, <2>2 DEF Init, Nested, Fresh, DirpsRecorded, Recorded, Ahead, FpSteps
<1>2. Typed /\ Nested /\ Fresh /\ DirpsRecorded /\ [Next]_vars
      => (Typed /\ Nested /\ Fresh /\ DirpsRecorded)'
  BY TypedNext, NestedNext, FreshNext, RecordedNext
<1>3. QED
  BY <1>1, <1>2, PTL DEF Spec
-----------------------------------------------------------------------------
(* What a clean-up leaves                                                  *)

\* l2_dirp_record_arr is looked at up to the record of each directory that the
\* current call has open.
Marked ==
  pc \in FpSteps =>
    \A r \in records : r.dirp # None /\ r.dirp[1] = runs => r.slot <= maxRec

LEMMA MarkedNext ==
  ASSUME Typed, DirpsRecorded, Fresh, Marked, [Next]_vars
  PROVE  Marked'
<1>1. CASE UNCHANGED vars
  BY <1>1 DEF vars, control, dirps, command, Marked
<1>2. CASE Prompt \/ OtherReturns \/ StartOther \/ FpReturns
  BY <1>2 DEF Prompt, OtherReturns, StartOther, FpReturns, FpSteps, Marked
<1>3. CASE SigInt
  BY <1>3 DEF SigInt, FpSteps, control, dirps, command, Marked
<1>4. ASSUME NEW node \in Nodes, NEW depth \in Depths, StartFp(node, depth)
      PROVE  Marked'
  <2>1. records' = records /\ runs' = runs + 1 /\ runs \in Nat
    BY <1>4 DEF StartFp, Typed
  <2>2. ASSUME NEW r \in records, r.dirp # None
        PROVE  r.dirp[1] # runs + 1
    <3>1. r.dirp \in Recorded
      BY <2>2 DEF Recorded
    <3>2. r.dirp[1] \in Nat /\ r.dirp[1] <= runs
      BY <3>1, RecordedPlaces DEF Fresh
    <3>3. QED
      BY <2>1, <3>2
  <2>3. QED
    BY <2>1, <2>2 DEF Marked
<1>5. CASE MakeDir
  <2>1. /\ pc \in FpSteps /\ runs' = runs /\ maxRec \in Nat /\ FreeSlot \in Nat
        /\ maxRec' = IF maxRec < FreeSlot THEN FreeSlot ELSE maxRec
    BY <1>5, FreeSlotIsFree DEF MakeDir, FpSteps, command, Typed, TypeOK
  <2>2. \A r \in records' : r \in records \/ r.slot = FreeSlot
    BY <1>5 DEF MakeDir
  <2>3. \A r \in records : r.slot \in Nat
    BY DEF Typed, Records
  <2>4. FreeSlot <= maxRec' /\ maxRec <= maxRec'
    BY <2>1
  <2>5. QED
    BY <2>1, <2>2, <2>3, <2>4 DEF Marked
<1>6. CASE EnterSpent \/ EnterFails \/ EnterDir
  BY <1>6 DEF EnterSpent, EnterFails, EnterDir, FpSteps, dirps, command, Marked
<1>7. CASE (\E name \in Names : ScanName(name)) \/ ScanFails
  BY <1>7 DEF ScanName, ScanFails, FpSteps, dirps, command, Marked
<1>11. CASE CloseFails
  <2>1. /\ pc \in FpSteps /\ maxRec' = maxRec /\ runs' = runs
    BY <1>11 DEF CloseFails, FpSteps, command
  <2>2. \A r \in records' : \E s \in records : r.slot = s.slot /\ r.dirp = s.dirp
    BY <1>11, ShutRecords
  <2>3. QED
    BY <2>1, <2>2 DEF Marked
<1>8. CASE Leave
  <2>1. /\ pc \in FpSteps /\ records' \subseteq records /\ maxRec' = maxRec /\ runs' = runs
    BY <1>8 DEF Leave, FpSteps, command
  <2>2. QED
    BY <2>1 DEF Marked
<1>9. CASE EnterFile \/ FileMade \/ FingerprintFile
  <2>1. /\ pc \in FpSteps /\ records' = records /\ maxRec' = maxRec /\ runs' = runs
    BY <1>9 DEF EnterFile, FileMade, FingerprintFile, OpenFile, ReadEmpty, ReadRefused,
       ReadWhole, FpSteps, dirps, command
  <2>2. QED
    BY <2>1 DEF Marked
<1>10. QED
  BY <1>1, <1>2, <1>3, <1>4, <1>5, <1>6, <1>7, <1>8, <1>9, <1>11, Steps

\* fp_cleanup stops before the highest record, and only the directory of that one,
\* if any of the call's, is left open.
LEMMA OneIsLeft ==
  ASSUME Typed, DirpsRecorded, Marked, FpReturns, ~ ret, pc' # "undefined"
  PROVE  Cardinality({d \in openDirs' : d[1] = runs}) <= 1
<1> DEFINE X == {d \in openDirs' : d[1] = runs}
<1>1. pc \in FpSteps /\ openDirs' = openDirs \ {r.dirp : r \in BelowMax}
  BY DEF FpReturns, CleanUp, FpSteps
<1>2. ASSUME NEW d \in X
      PROVE  \E r \in records : r.dirp = d /\ r.slot = maxRec
  <2>1. d \in openDirs /\ d \notin {r.dirp : r \in BelowMax} /\ d[1] = runs
    BY <1>1
  <2>2. PICK r \in records : r.dirp = d /\ d # None
    BY <2>1 DEF DirpsRecorded
  <2>3. r \notin BelowMax
    BY <2>1, <2>2
  <2>4. r.slot \in Nat /\ maxRec \in Nat
    BY DEF Typed, TypeOK, Records
  <2>5. ~ (r.slot < maxRec)
    BY <2>3 DEF BelowMax
  <2>6. r.slot <= maxRec
    BY <1>1, <2>1, <2>2 DEF Marked
  <2>7. QED
    BY <2>2, <2>4, <2>5, <2>6
<1>3. \A d, e \in X : d = e
  <2> HIDE DEF X
  <2> QED
    BY <1>2 DEF DirpsRecorded
<1>4. CASE X = {}
  <2> HIDE DEF X
  <2>1. Cardinality(X) = 0
    BY <1>4, FS_EmptySet
  <2>2. QED
    BY <2>1 DEF X
<1>5. CASE X # {}
  <2> HIDE DEF X
  <2>1. PICK d \in X : TRUE
    BY <1>5
  <2>2. X = {d}
    BY <1>3, <2>1
  <2>3. Cardinality(X) = 1
    BY <2>2, FS_Singleton
  <2>4. QED
    BY <2>3 DEF X
<1>6. QED
  BY <1>4, <1>5

\* However deep fp was when it failed and whatever records earlier calls have left,
\* an fp_cleanup that gets through leaves at most one directory of the call open.
THEOREM CleanedUpAlways == Spec => CleanedUp
<1>1. Init => Typed /\ Nested /\ Fresh /\ DirpsRecorded /\ Marked
  <2>1. SUFFICES ASSUME Init
                 PROVE  Nested /\ Fresh /\ DirpsRecorded /\ Marked
    BY TypedInit
  <2>2. Len(stack) = 0
    BY <2>1, EmptySeq DEF Init
  <2>3. QED
    BY <2>1, <2>2 DEF Init, Nested, Fresh, DirpsRecorded, Marked, Recorded, Ahead, FpSteps
<1>2. Typed /\ Nested /\ Fresh /\ DirpsRecorded /\ Marked /\ [Next]_vars
      => (Typed /\ Nested /\ Fresh /\ DirpsRecorded /\ Marked)'
  BY TypedNext, NestedNext, FreshNext, RecordedNext, MarkedNext
<1>3. Typed /\ DirpsRecorded /\ Marked /\ [Next]_vars
      => [FpReturns /\ ~ ret /\ pc' # "undefined" =>
            Cardinality({d \in openDirs' : d[1] = runs}) <= 1]_vars
  BY OneIsLeft
<1>4. QED
  BY <1>1, <1>2, <1>3, PTL DEF Spec, CleanedUp
=============================================================================
