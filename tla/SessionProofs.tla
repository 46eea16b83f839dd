---------------------------- MODULE SessionProofs ----------------------------
(***************************************************************************)
(* Proofs that, for any number of handles, entries and locators, locators  *)
(* lead to what is there (until the current directory itself is gone), and *)
(* that no database is dropped without a question unless its data are in a *)
(* file or one of the named commands has lost them.                        *)
(***************************************************************************)
EXTENDS Session, FiniteSetTheorems, WellFoundedInduction, SequenceTheorems,
        TLAPS

-----------------------------------------------------------------------------
(* Facts about numbers the proofs rest on                                  *)

\* A non-empty set of natural numbers has a least element.
LEMMA LeastElement ==
  ASSUME NEW T, T \subseteq Nat, T # {}
  PROVE  \E m \in T : \A k \in T : m <= k
<1>1. PICK m \in T : \A k \in T : <<k, m>> \notin OpToRel(<, Nat)
  BY NatLessThanWellFounded, WFMin
<1>2. ASSUME NEW k \in T, k < m
      PROVE  FALSE
  <2>1. <<k, m>> \in OpToRel(<, Nat)
    BY <1>2 DEF OpToRel
  <2>2. QED
    BY <1>1, <2>1
<1>3. \A k \in T : ~(k < m)
  BY <1>2
<1>4. \A k \in T : k \in Nat /\ m \in Nat
  OBVIOUS
<1>5. \A k \in T : m <= k
  BY <1>3, <1>4
<1>6. QED
  BY <1>5

\* A set that has 0 and the successor of each of its numbers has them all.
LEMMA SetInduction ==
  ASSUME NEW S, 0 \in S, \A n \in Nat : n \in S => n + 1 \in S
  PROVE  Nat \subseteq S
<1>1. SUFFICES ASSUME Nat \ S # {}
               PROVE  FALSE
  OBVIOUS
<1>2. PICK m \in Nat \ S : \A k \in Nat \ S : m <= k
  BY <1>1, LeastElement
<1>3. m - 1 \in Nat /\ m - 1 \in S
  BY <1>2
<1>4. QED
  BY <1>2, <1>3

-----------------------------------------------------------------------------
(* The inductive invariant                                                 *)

\* The trees that ids can be in, and the data of a database.
Trees == UNION {[S -> Ids \cup {Top}] : S \in SUBSET Ids}
Datas == [tree : Trees, edited : SUBSET Ids]

\* Parents are there, and only what is there has been edited.
Closed(data) ==
  /\ \A e \in DOMAIN data.tree : data.tree[e] \in DOMAIN data.tree \cup {Top}
  /\ data.edited \subseteq DOMAIN data.tree

HeapOK ==
  /\ heap \in [Handles -> [name : Names \cup {NoName}, data : Datas, unsaved : BOOLEAN]]
  /\ \A h \in Handles : Closed(heap[h].data)

FilesOK ==
  /\ DOMAIN files = Files
  /\ files = [f \in Files |-> files[f]]
  /\ \A f \in Files : files[f] = Torn \/ (files[f] \in Datas /\ Closed(files[f]))

\* Handles are given out in order, and those in use have different names.
TableOK ==
  /\ table \subseteq Handles
  /\ \E n \in 0 .. MaxHandles : {h \in Handles : heap[h].name # NoName} = 1 .. n
  /\ \A h \in table : heap[h].name \in Names
  /\ \A h, g \in table : heap[h].name = heap[g].name => h = g

\* A directory is the root, or its handle had its name when it was made; while
\* that database is in use, the entry is one of the same database.
DirOK(dir) ==
  \/ dir = AtRoot
  \/ /\ dir \in [name : Names, id : Nat, dh : Handles, of : Handles]
     /\ heap[dir.dh].name = dir.name
     /\ dir.dh \in table => dir.of = dir.dh

\* A database that is not marked has been excused, is empty or is in a file.
Covered(h) ==
  \/ heap[h].unsaved \/ h \in excused \/ heap[h].data = Empty
  \/ \E f \in Files : files[f] = heap[h].data

RestOK ==
  /\ made \in 0 .. MaxIds
  /\ outcome \in {"ok", "refused", "gone"}
  /\ outcome = "gone" => Gone(cur)

IInv ==
  HeapOK /\ FilesOK /\ TableOK /\ DirOK(cur) /\ RestOK
  /\ \A h \in table : Covered(h)

\* The types follow.
LEMMA TypeFollows == IInv => TypeOK
<1>1. SUFFICES ASSUME IInv PROVE TypeOK
  OBVIOUS
<1> USE DEF IInv, Handles, Ids, Names, NoName, Top
<1>2. /\ table \subseteq Handles
      /\ \A h \in table : heap[h].name \in Names
      /\ \A h, g \in table : heap[h].name = heap[g].name => h = g
  BY <1>1 DEF TableOK
<1>3. ASSUME NEW h \in Handles, NEW e \in DOMAIN Tree(h)
      PROVE  e \in Ids /\ Tree(h)[e] \in DOMAIN Tree(h) \cup {Top}
  <2>1. heap[h].data \in Datas /\ Closed(heap[h].data)
    BY <1>1 DEF HeapOK
  <2>2. DOMAIN heap[h].data.tree \subseteq Ids
    BY <2>1 DEF Datas, Trees
  <2>3. QED
    BY <1>3, <2>1, <2>2 DEF Tree, Closed
<1>4. \A f \in Files : files[f] # Torn => files[f].edited \subseteq DOMAIN files[f].tree
  BY <1>1 DEF FilesOK, Closed
<1>5. cur.name = NoName <=> cur = AtRoot
  BY <1>1 DEF DirOK, AtRoot
<1>6. QED
  BY <1>1, <1>2, <1>3, <1>4, <1>5 DEF TypeOK, RestOK

-----------------------------------------------------------------------------
(* Where locators lead                                                     *)

\* The recursion of Reached has the solution it asks for.
LEMMA ReachedAt ==
  ASSUME NEW dir, NEW path, Len(path) \in Nat
  PROVE  /\ Reached(dir, path)[0] = {dir}
         /\ \A k \in 0 .. Len(path) - 1 : \A x \in Reached(dir, path)[k + 1] :
              \E d \in Reached(dir, path)[k] : x \in Step(d, path[k + 1])
<1> DEFINE Next1(k, s) == UNION {Step(d, path[k]) : d \in s}
           Solves(f, n) ==
             f = [k \in 0 .. n |-> IF k = 0 THEN {dir} ELSE Next1(k, f[k - 1])]
           S == {n \in Nat : \E f : Solves(f, n)}
<1>1. 0 \in S
  <2> DEFINE f == [k \in 0 .. 0 |-> {dir}]
  <2> HIDE DEF Next1
  <2>1. Solves(f, 0)
    OBVIOUS
  <2>2. QED
    BY <2>1
<1>2. ASSUME NEW n \in Nat, n \in S
      PROVE  n + 1 \in S
  <2>1. PICK f : Solves(f, n)
    BY <1>2
  <2> HIDE DEF Next1
  <2> DEFINE g == [k \in 0 .. n + 1 |-> IF k = n + 1 THEN Next1(k, f[n]) ELSE f[k]]
  <2>2. ASSUME NEW k \in 0 .. n + 1
        PROVE  g[k] = IF k = 0 THEN {dir} ELSE Next1(k, g[k - 1])
    <3>1. CASE k = n + 1
      BY <3>1
    <3>2. CASE k \in 0 .. n
      <4>1. f[k] = IF k = 0 THEN {dir} ELSE Next1(k, f[k - 1])
        BY <2>1, <3>2
      <4>2. g[k] = f[k] /\ (k # 0 => g[k - 1] = f[k - 1])
        BY <3>2
      <4>3. QED
        BY <4>1, <4>2
    <3>3. QED
      BY <3>1, <3>2
  <2>3. Solves(g, n + 1)
    BY <2>2
  <2>4. \E h : Solves(h, n + 1)
    <3> HIDE DEF Solves, g
    <3>1. QED
      BY <2>3
  <2>5. QED
    BY <2>4
<1>3. Len(path) \in S
  <2>1. Nat \subseteq S
    <3> HIDE DEF S
    <3>1. QED
      BY <1>1, <1>2, SetInduction
  <2>2. QED
    BY <2>1
<1>4. \E f : Solves(f, Len(path))
  BY <1>3
<1>5. Reached(dir, path) = CHOOSE f : Solves(f, Len(path))
  BY DEF Reached
<1>6. Solves(Reached(dir, path), Len(path))
  <2> HIDE DEF Solves
  <2>1. QED
    BY <1>4, <1>5
<1> DEFINE at == Reached(dir, path)
<1>7. \A k \in 0 .. Len(path) : at[k] = IF k = 0 THEN {dir} ELSE Next1(k, at[k - 1])
  <2> HIDE DEF Next1
  <2>1. QED
    BY <1>6
<1> HIDE DEF at
<1>8. at[0] = {dir}
  <2> HIDE DEF Next1
  <2>1. 0 \in 0 .. Len(path)
    OBVIOUS
  <2>2. QED
    BY <1>7, <2>1
<1>9. ASSUME NEW k \in 0 .. Len(path) - 1
      PROVE  at[k + 1] = Next1(k + 1, at[k])
  <2> HIDE DEF Next1
  <2>1. k + 1 \in 0 .. Len(path) /\ k + 1 # 0 /\ (k + 1) - 1 = k
    OBVIOUS
  <2>2. QED
    BY <1>7, <2>1
<1>10. \A k, s : \A x \in Next1(k, s) : \E d \in s : x \in Step(d, path[k])
  OBVIOUS
<1>11. \A k \in 0 .. Len(path) - 1 : \A x \in at[k + 1] :
         \E d \in at[k] : x \in Step(d, path[k + 1])
  <2> HIDE DEF Next1
  <2>1. QED
    BY <1>9, <1>10
<1>12. QED
  BY <1>8, <1>11 DEF at

\* A directory a path may go on from: its handle is in use, unless the current
\* directory is gone, from which it has then come.
From(d) ==
  DirOK(d) /\ (d = AtRoot \/ d.dh \in table \/ Gone(cur))

\* What a path leads to.
Led(d) ==
  /\ DirOK(d)
  /\ \/ d = AtRoot
     \/ Usable(d)
     \/ Gone(cur) /\ d.of \in table /\ d.id \in DOMAIN Tree(d.of)

LEMMA LedFrom == \A d : Led(d) => From(d)
BY DEF Led, From, Usable

\* The current directory is one to go on from; if it is not gone, its pointers
\* are good.
LEMMA CurFrom ==
  ASSUME IInv
  PROVE  /\ From(cur) /\ From(AtRoot)
         /\ Gone(cur) \/ cur = AtRoot \/ Usable(cur)
<1>1. DirOK(cur)
  BY DEF IInv
<1>2. cur = AtRoot \/ (cur.dh \in table /\ cur.id \in DOMAIN Tree(cur.dh) \cup {Top}) \/ Gone(cur)
  BY <1>1 DEF Gone, DirOK, Names, NoName
<1>3. From(AtRoot)
  BY DEF From, DirOK
<1>4. QED
  BY <1>1, <1>2, <1>3 DEF From, Usable, DirOK

\* Facts about the databases in use.
LEMMA InUse ==
  ASSUME IInv, NEW h \in table
  PROVE  /\ h \in Handles /\ heap[h].name \in Names
         /\ \A g \in table : heap[h].name = heap[g].name => h = g
         /\ DOMAIN Tree(h) \subseteq Nat /\ Top \in Nat
         /\ \A e \in DOMAIN Tree(h) : Tree(h)[e] \in DOMAIN Tree(h) \cup {Top}
<1>1. /\ h \in Handles /\ heap[h].name \in Names
      /\ \A g \in table : heap[h].name = heap[g].name => h = g
  BY DEF IInv, TableOK
<1>2. heap[h].data \in Datas /\ Closed(heap[h].data)
  BY <1>1 DEF IInv, HeapOK
<1>3. DOMAIN heap[h].data.tree \subseteq Nat
  BY <1>2 DEF Datas, Trees, Ids
<1>4. QED
  BY <1>1, <1>2, <1>3 DEF Closed, Tree, Top

\* To the head of a database in use.
LEMMA ToDhLed ==
  ASSUME IInv, NEW h \in table
  PROVE  Led(ToDh(h))
<1>1. h \in Handles /\ heap[h].name \in Names /\ Top \in Nat
  BY InUse
<1>2. QED
  BY <1>1 DEF Led, DirOK, ToDh, Usable

\* One name of a path.
LEMMA StepLed ==
  ASSUME IInv, NEW d, From(d), NEW step, NEW x \in Step(d, step)
  PROVE  Led(x)
<1>1. Led(AtRoot)
  BY DEF Led, DirOK
<1>2. CASE d.name = NoName
  <2>1. d = AtRoot
    BY <1>2 DEF From, DirOK, Names, NoName
  <2>2. \A h \in Matches(step.n) : h \in table
    BY DEF Matches, Named
  <2>3. x = d \/ \E h \in Matches(step.n) : x = ToDh(h)
    BY <1>2 DEF Step, None
  <2>4. QED
    BY <1>1, <2>1, <2>2, <2>3, ToDhLed
<1>3. CASE d.name # NoName
  <2>1. d # AtRoot
    BY <1>3 DEF AtRoot
  <2>2. /\ d \in [name : Names, id : Nat, dh : Handles, of : Handles]
        /\ heap[d.dh].name = d.name
        /\ d.dh \in table => d.of = d.dh
        /\ d.dh \in table \/ Gone(cur)
    BY <2>1 DEF From, DirOK
  <2>3. PICK now \in Update(d) :
          LET h == now.of
              e == now.id
              children == {c \in DOMAIN Tree(h) : Tree(h)[c] = e}
          IN \/ x = now
             \/ e = Top /\ x = AtRoot
             \/ e # Top /\ x = IF Tree(h)[e] = Top THEN ToDh(h) ELSE ToEntry(d, h, Tree(h)[e])
             \/ \E c \in children : x = ToEntry(d, h, c)
    BY <1>3 DEF Step, None
  <2>4. PICK h \in Named(d.name) : /\ d.id \in DOMAIN Tree(h) \cup {Top}
                                   /\ now = [d EXCEPT !.dh = h, !.of = h]
    BY DEF Update
  <2>5. h \in table /\ heap[h].name = d.name
    BY <2>4 DEF Named
  <2>6. h \in Handles /\ (d.dh \in table => d.dh = h)
    BY <2>2, <2>5, InUse
  <2>7. now = [name |-> d.name, id |-> d.id, dh |-> h, of |-> h]
    BY <2>2, <2>4
  <2>8. Led(now)
    BY <2>2, <2>4, <2>5, <2>6, <2>7 DEF Led, DirOK, Usable
  <2>9. ASSUME NEW e \in DOMAIN Tree(h)
        PROVE  Led(ToEntry(d, h, e))
    <3> DEFINE y == ToEntry(d, h, e)
    <3>1. e \in Nat
      BY <2>5, <2>9, InUse
    <3>2. y \in [name : Names, id : Nat, dh : Handles, of : Handles]
      BY <2>2, <2>6, <3>1 DEF ToEntry
    <3>3. y.name = d.name /\ y.id = e /\ y.dh = d.dh /\ y.of = h
      BY <2>2 DEF ToEntry
    <3> HIDE DEF y
    <3>4. Led(y)
      BY <2>2, <2>5, <2>6, <2>9, <3>1, <3>2, <3>3 DEF Led, DirOK, Usable
    <3>5. QED
      BY <3>4 DEF y
  <2>10. d.id # Top => Tree(h)[d.id] \in DOMAIN Tree(h) \cup {Top}
    BY <2>4, <2>5, InUse
  <2>11. QED
    BY <1>1, <2>3, <2>5, <2>7, <2>8, <2>9, <2>10, ToDhLed
<1>4. QED
  BY <1>2, <1>3

\* A path with at least one name.
LEMMA WalkLed ==
  ASSUME IInv, NEW dir, From(dir), NEW path \in Seq(Steps) \ {<<>>},
         NEW x \in Walk(dir, path)
  PROVE  Led(x)
<1> DEFINE at == Reached(dir, path)
           n == Len(path)
           S == {k \in Nat : k <= n => \A d \in at[k] : From(d) /\ (k # 0 => Led(d))}
<1>1. n \in Nat /\ n # 0
  BY EmptySeq, LenProperties
<1>2. /\ at[0] = {dir}
      /\ \A k \in 0 .. n - 1 : \A d \in at[k + 1] :
           \E c \in at[k] : d \in Step(c, path[k + 1])
  BY <1>1, ReachedAt
<1> HIDE DEF at, n
<1>3. 0 \in S
  BY <1>1, <1>2
<1>4. ASSUME NEW k \in Nat, k \in S
      PROVE  k + 1 \in S
  <2>1. SUFFICES ASSUME k + 1 <= n, NEW d \in at[k + 1]
                 PROVE  From(d) /\ Led(d)
    OBVIOUS
  <2>2. PICK c \in at[k] : d \in Step(c, path[k + 1])
    BY <1>1, <1>2, <2>1
  <2>3. From(c)
    BY <1>1, <1>4, <2>1, <2>2
  <2>4. Led(d)
    BY <2>2, <2>3, StepLed
  <2>5. QED
    BY <2>4, LedFrom
<1>5. Nat \subseteq S
  <2> HIDE DEF S
  <2>1. QED
    BY <1>3, <1>4, SetInduction
<1>6. x \in at[n]
  BY DEF Walk, at, n
<1>7. QED
  BY <1>1, <1>5, <1>6

\* Any locator.
LEMMA ResolveLed ==
  ASSUME IInv, NEW loc \in Locators, NEW dir \in Resolve(loc)
  PROVE  Led(dir)
<1>1. From(cur) /\ From(AtRoot)
  BY CurFrom
<1>2. loc \in PathLocators \/ loc \in PairLocators
  BY SessionAssumption
<1>3. CASE loc \in PathLocators
  <2>1. /\ loc.path \in Seq(Steps) \ {<<>>}
        /\ loc.kind = "absolute" \/ loc.kind = "relative"
    BY <1>3 DEF PathLocators
  <2>2. dir \in Walk(AtRoot, loc.path) \/ dir \in Walk(cur, loc.path)
    BY <2>1 DEF Resolve
  <2>3. QED
    BY <1>1, <2>1, <2>2, WalkLed
<1>4. CASE loc \in PairLocators
  <2>1. loc.kind = "pair" /\ loc.id \in Nat
    BY <1>4 DEF PairLocators
  <2>2. PICK h \in table : /\ loc.id \in DOMAIN Tree(h) \cup {Top}
                           /\ dir = [name |-> heap[h].name, id |-> loc.id, dh |-> h, of |-> h]
    BY <2>1 DEF Resolve, Named, Matches
  <2>3. h \in Handles /\ heap[h].name \in Names
    BY InUse
  <2>4. QED
    BY <2>1, <2>2, <2>3 DEF Led, DirOK, Usable
<1>5. QED
  BY <1>2, <1>3, <1>4

-----------------------------------------------------------------------------
(* Data                                                                    *)

LEMMA EmptyOK == Empty \in Datas /\ Closed(Empty)
<1>1. DOMAIN <<>> = {}
  OBVIOUS
<1>2. <<>> \in [{} -> Ids \cup {Top}]
  OBVIOUS
<1>3. <<>> \in Trees
  BY <1>2 DEF Trees
<1>4. QED
  BY <1>1, <1>3 DEF Empty, Datas, Closed

\* A new entry below one that is there.
LEMMA WithEntryOK ==
  ASSUME NEW data \in Datas, Closed(data), NEW e \in Ids,
         NEW p \in DOMAIN data.tree \cup {Top}
  PROVE  WithEntry(data, p, e) \in Datas /\ Closed(WithEntry(data, p, e))
<1> DEFINE S == DOMAIN data.tree \cup {e}
           tree == [x \in S |-> IF x = e THEN p ELSE data.tree[x]]
           new == WithEntry(data, p, e)
<1>1. /\ DOMAIN data.tree \in SUBSET Ids
      /\ \A x \in DOMAIN data.tree : data.tree[x] \in DOMAIN data.tree \cup {Top}
      /\ data.edited \subseteq DOMAIN data.tree
  BY DEF Datas, Trees, Closed
<1>2. S \in SUBSET Ids /\ \A x \in S : tree[x] \in S \cup {Top}
  BY <1>1
<1>3. tree \in [S -> Ids \cup {Top}]
  BY <1>2
<1>4. tree \in Trees
  BY <1>2, <1>3 DEF Trees
<1>5. new \in [tree : Trees, edited : SUBSET Ids] /\ new.tree = tree /\ new.edited = data.edited
  BY <1>4 DEF WithEntry, Datas
<1>6. DOMAIN new.tree = S
  BY <1>5
<1>7. QED
  BY <1>1, <1>2, <1>5, <1>6 DEF Datas, Closed

\* The children of what is below an entry are below it too.
LEMMA BelowClosed ==
  ASSUME NEW tree, NEW e, NEW x \in DOMAIN tree, tree[x] \in Below(tree, e)
  PROVE  x \in Below(tree, e)
<1>1. ASSUME NEW S, e \in S, \A c \in DOMAIN tree : tree[c] \in S => c \in S,
             S \in SUBSET (DOMAIN tree \cup {e})
      PROVE  x \in S
  <2>1. tree[x] \in S
    BY <1>1 DEF Below
  <2>2. QED
    BY <1>1, <2>1
<1>2. QED
  BY <1>1 DEF Below

\* Without an entry and what is below it no parent is missing.
LEMMA WithoutOK ==
  ASSUME NEW data \in Datas, Closed(data), NEW e
  PROVE  /\ Without(data, Below(data.tree, e)) \in Datas
         /\ Closed(Without(data, Below(data.tree, e)))
<1> DEFINE gone == Below(data.tree, e)
           S == DOMAIN data.tree \ gone
           tree == [x \in S |-> data.tree[x]]
           new == Without(data, gone)
<1>1. /\ DOMAIN data.tree \in SUBSET Ids
      /\ \A x \in DOMAIN data.tree : data.tree[x] \in DOMAIN data.tree \cup {Top}
      /\ data.edited \subseteq DOMAIN data.tree
  BY DEF Datas, Trees, Closed
<1>2. \A x \in S : data.tree[x] \notin gone
  BY BelowClosed
<1> HIDE DEF gone
<1>3. S \in SUBSET Ids /\ \A x \in S : tree[x] \in S \cup {Top}
  BY <1>1, <1>2
<1>4. tree \in [S -> Ids \cup {Top}]
  BY <1>3
<1>5. tree \in Trees
  BY <1>3, <1>4 DEF Trees
<1>6. new = [tree |-> tree, edited |-> data.edited \ gone]
  BY DEF Without
<1>7. data.edited \ gone \in SUBSET Ids /\ data.edited \ gone \subseteq S
  BY <1>1
<1>8. DOMAIN new.tree = S
  BY <1>6
<1>9. new \in Datas /\ Closed(new)
  BY <1>3, <1>5, <1>6, <1>7, <1>8 DEF Datas, Closed
<1>10. QED
  BY <1>9 DEF gone

-----------------------------------------------------------------------------
(* What changes of the heap preserve                                       *)

HeapRecord == [name : Names \cup {NoName}, data : Datas, unsaved : BOOLEAN]

LEMMA HeapAt ==
  ASSUME IInv, NEW h \in Handles
  PROVE  heap[h] \in HeapRecord /\ heap[h].data \in Datas /\ Closed(heap[h].data)
BY DEF IInv, HeapOK, HeapRecord

\* The current directory stays as good as it was: names stay, and no handle
\* comes back into use.
LEMMA DirKept ==
  ASSUME IInv, UNCHANGED cur,
         \A h \in Handles : heap[h].name # NoName => heap'[h].name = heap[h].name,
         \A h \in table' : heap[h].name # NoName => h \in table
  PROVE  DirOK(cur)'
<1>1. DirOK(cur)
  BY DEF IInv
<1>2. CASE cur = AtRoot
  BY <1>2 DEF DirOK, AtRoot
<1>3. CASE cur # AtRoot
  <2>1. /\ cur \in [name : Names, id : Nat, dh : Handles, of : Handles]
        /\ heap[cur.dh].name = cur.name
        /\ cur.dh \in table => cur.of = cur.dh
    BY <1>1, <1>3 DEF DirOK
  <2>2. heap[cur.dh].name # NoName /\ cur.dh \in Handles
    BY <2>1 DEF Names, NoName
  <2>3. QED
    BY <2>1, <2>2 DEF DirOK
<1>4. QED
  BY <1>2, <1>3

\* The table may lose handles.
LEMMA TableShrinks ==
  ASSUME IInv, UNCHANGED heap, table' \subseteq table
  PROVE  HeapOK' /\ TableOK' /\ (UNCHANGED cur => DirOK(cur)')
<1>1. HeapOK'
  BY DEF IInv, HeapOK
<1>2. TableOK'
  BY DEF IInv, TableOK
<1>3. QED
  BY <1>1, <1>2, DirKept

\* The next handle has not been given out.
LEMMA FreshIs ==
  ASSUME IInv, Fresh \in Handles
  PROVE  /\ heap[Fresh].name = NoName /\ Fresh \notin table
         /\ {h \in Handles : heap[h].name # NoName} \cup {Fresh} = 1 .. Fresh
         /\ Fresh \in 0 .. MaxHandles
<1> DEFINE Used == {h \in Handles : heap[h].name # NoName}
<1>1. PICK n \in 0 .. MaxHandles : Used = 1 .. n
  BY DEF IInv, TableOK
<1>2. n \in Nat /\ 1 \in Int /\ n \in Int
  BY <1>1, SessionAssumption
<1>0. Fresh = Cardinality(Used) + 1
  BY DEF Fresh
<1> HIDE DEF Used
<1>3. Cardinality(1 .. n) = IF 1 > n THEN 0 ELSE n - 1 + 1
  BY <1>2, FS_Interval
<1>4. Fresh = n + 1
  BY <1>0, <1>1, <1>2, <1>3
<1>5. Fresh \notin Used /\ Used \cup {Fresh} = 1 .. Fresh /\ Fresh \in 0 .. MaxHandles
  BY <1>1, <1>2, <1>4, SessionAssumption DEF Handles
<1>6. heap[Fresh].name = NoName
  BY <1>5 DEF Used
<1>7. Fresh \notin table
  BY <1>6, InUse DEF Names, NoName
<1>8. QED
  BY <1>5, <1>6, <1>7 DEF Used

\* newdb and loaddb: a database under a name that is not in use.
LEMMA AddHandle ==
  ASSUME IInv, NEW n \in Names, CanAdd(n), UNCHANGED cur,
         NEW hd \in HeapRecord, hd.name = n, Closed(hd.data),
         heap' = [heap EXCEPT ![Fresh] = hd], table' \subseteq table \cup {Fresh}
  PROVE  /\ HeapOK' /\ TableOK' /\ DirOK(cur)'
         /\ heap'[Fresh] = hd /\ \A h \in table : h # Fresh /\ heap'[h] = heap[h]
<1> DEFINE new == Fresh
<1>1. new \in Handles /\ \A h \in table : heap[h].name # n
  BY DEF CanAdd, Named
<1>2. /\ heap[new].name = NoName /\ new \notin table
      /\ {h \in Handles : heap[h].name # NoName} \cup {new} = 1 .. new
      /\ new \in 0 .. MaxHandles
  BY <1>1, FreshIs
<1> HIDE DEF new
<1>3. heap' = [heap EXCEPT ![new] = hd] /\ table' \subseteq table \cup {new}
  BY DEF new
<1>4. heap \in [Handles -> HeapRecord] /\ \A h \in Handles : Closed(heap[h].data)
  BY DEF IInv, HeapOK, HeapRecord
<1>5. /\ heap' \in [Handles -> HeapRecord]
      /\ heap'[new] = hd /\ \A h \in Handles : h # new => heap'[h] = heap[h]
  BY <1>1, <1>3, <1>4
<1>6. HeapOK'
  BY <1>4, <1>5 DEF HeapOK, HeapRecord
<1>7. table \subseteq Handles
  BY DEF IInv, TableOK
<1>8. TableOK'
  <2>1. table' \subseteq Handles
    BY <1>1, <1>3, <1>7
  <2>2. {h \in Handles : heap'[h].name # NoName} = 1 .. new
    BY <1>1, <1>2, <1>5 DEF Names, NoName
  <2>3. \A h \in table' : heap'[h].name \in Names
    BY <1>2, <1>3, <1>5, <1>7, InUse
  <2>4. ASSUME NEW h \in table', NEW g \in table', heap'[h].name = heap'[g].name
        PROVE  h = g
    BY <1>1, <1>2, <1>3, <1>5, <1>7, <2>4, InUse
  <2>5. QED
    BY <1>2, <2>1, <2>2, <2>3, <2>4 DEF TableOK
<1>9. DirOK(cur)'
  BY <1>2, <1>3, <1>5, DirKept
<1>10. QED
  BY <1>2, <1>5, <1>6, <1>7, <1>8, <1>9 DEF new

\* A change of one database that keeps its name.
LEMMA ChangeHandle ==
  ASSUME IInv, NEW k \in Handles, UNCHANGED <<table, cur>>,
         NEW hd \in HeapRecord, hd.name = heap[k].name, Closed(hd.data),
         heap' = [heap EXCEPT ![k] = hd]
  PROVE  /\ HeapOK' /\ TableOK' /\ DirOK(cur)'
         /\ heap'[k] = hd /\ \A h \in Handles : h # k => heap'[h] = heap[h]
<1>1. heap \in [Handles -> HeapRecord] /\ \A h \in Handles : Closed(heap[h].data)
  BY DEF IInv, HeapOK, HeapRecord
<1>2. /\ heap' \in [Handles -> HeapRecord]
      /\ heap'[k] = hd /\ \A h \in Handles : h # k => heap'[h] = heap[h]
  BY <1>1
<1>3. HeapOK'
  BY <1>1, <1>2 DEF HeapOK, HeapRecord
<1>4. \A h \in Handles : heap'[h].name = heap[h].name
  BY <1>2
<1>5. {h \in Handles : heap'[h].name # NoName} = {h \in Handles : heap[h].name # NoName}
  BY <1>4
<1>6. TableOK'
  BY <1>4, <1>5 DEF IInv, TableOK
<1>7. DirOK(cur)'
  BY <1>4, DirKept
<1>8. QED
  BY <1>2, <1>3, <1>6, <1>7

-----------------------------------------------------------------------------
(* The commands                                                            *)

\* A step that loses nothing that was to be asked for.
Asks ==
  \A h \in table \ table' :
    \/ asked' \/ h \in excused' \/ heap[h].data = Empty
    \/ \E f \in Files : files'[f] = heap[h].data

LEMMA RefusedOK ==
  ASSUME IInv, NEW loc \in Locators, Refused(loc)
  PROVE  IInv' /\ Asks
<1>1. outcome' = "refused" /\ UNCHANGED <<heap, table, files, cur, excused, made>>
  BY DEF Refused
<1>2. HeapOK' /\ TableOK' /\ DirOK(cur)'
  BY <1>1, TableShrinks
<1>3. FilesOK' /\ RestOK' /\ \A h \in table' : Covered(h)'
  BY <1>1 DEF IInv, FilesOK, RestOK, Covered
<1>4. QED
  BY <1>1, <1>2, <1>3 DEF IInv, Asks

LEMMA CdOK ==
  ASSUME IInv, NEW loc \in Locators, Cd(loc)
  PROVE  IInv' /\ Asks
<1>1. /\ outcome' = "ok" /\ UNCHANGED <<heap, table, files, excused, made>>
      /\ cur' \in Resolve(loc)
  BY DEF Cd
<1>2. HeapOK' /\ TableOK'
  BY <1>1, TableShrinks
<1>3. DirOK(cur)'
  <2>1. PICK d \in Resolve(loc) : cur' = d
    BY <1>1
  <2>2. DirOK(d)
    BY <2>1, ResolveLed DEF Led
  <2>3. QED
    BY <1>1, <2>1, <2>2 DEF DirOK
<1>4. FilesOK' /\ RestOK' /\ \A h \in table' : Covered(h)'
  BY <1>1 DEF IInv, FilesOK, RestOK, Covered
<1>5. QED
  BY <1>1, <1>2, <1>3, <1>4 DEF IInv, Asks

LEMMA NewDbOK ==
  ASSUME IInv, NEW k \in Args, NewDb(k)
  PROVE  IInv' /\ Asks
<1> DEFINE n == Stripped(k)
           hd == NewHandle(n)
<1>1. /\ CanAdd(n) /\ heap' = [heap EXCEPT ![Fresh] = hd] /\ table' = table \cup {Fresh}
      /\ outcome' = "ok" /\ UNCHANGED <<files, cur, excused, made>>
  BY DEF NewDb
<1>2. n \in Names
  BY DEF Stripped, Names, Args
<1>3. hd \in HeapRecord /\ hd.name = n /\ Closed(hd.data) /\ hd.data = Empty
  BY <1>2, EmptyOK DEF HeapRecord, NewHandle
<1> HIDE DEF n, hd
<1>4. /\ HeapOK' /\ TableOK' /\ DirOK(cur)'
      /\ heap'[Fresh] = hd /\ \A h \in table : h # Fresh /\ heap'[h] = heap[h]
  BY <1>1, <1>2, <1>3, AddHandle
<1>5. FilesOK' /\ RestOK'
  BY <1>1 DEF IInv, FilesOK, RestOK
<1>6. ASSUME NEW h \in table'
      PROVE  Covered(h)'
  <2>1. CASE h = Fresh
    BY <1>3, <1>4, <2>1 DEF Covered
  <2>2. CASE h \in table
    BY <1>1, <1>4, <2>2 DEF IInv, Covered
  <2>3. QED
    BY <1>1, <2>1, <2>2
<1>7. QED
  BY <1>1, <1>4, <1>5, <1>6 DEF IInv, Asks

LEMMA SaveDbOK ==
  ASSUME IInv, NEW k \in Names, NEW f \in Files, SaveDb(k, f)
  PROVE  IInv' /\ Asks
<1>1. PICK h \in Named(k) :
        /\ \E written \in Written(h, f) :
             /\ files' = [files EXCEPT ![f] = written]
             /\ excused' = {g \in table :
                  /\ \A x \in Files : files'[x] # heap[g].data
                  /\ g = h \/ g \in excused \/ files[f] = heap[g].data}
        /\ heap' = MarkSaved(h)
        /\ outcome' = "ok" /\ UNCHANGED <<table, cur, made>>
  BY DEF SaveDb
<1>2. PICK written \in Written(h, f) :
        /\ files' = [files EXCEPT ![f] = written]
        /\ excused' = {g \in table :
             /\ \A x \in Files : files'[x] # heap[g].data
             /\ g = h \/ g \in excused \/ files[f] = heap[g].data}
  BY <1>1
<1>3. h \in table /\ h \in Handles
  BY <1>1, InUse DEF Named
<1>4. heap[h] \in HeapRecord /\ heap[h].data \in Datas /\ Closed(heap[h].data)
  BY <1>3, HeapAt
<1> DEFINE hd == [heap[h] EXCEPT !.unsaved = FALSE]
<1>5. /\ hd \in HeapRecord /\ hd.name = heap[h].name /\ hd.data = heap[h].data
      /\ Closed(hd.data)
  BY <1>4 DEF HeapRecord
<1>6. heap' = [heap EXCEPT ![h] = hd]
  BY <1>1 DEF MarkSaved
<1> HIDE DEF hd
<1>7. /\ HeapOK' /\ TableOK' /\ DirOK(cur)'
      /\ heap'[h] = hd /\ \A g \in Handles : g # h => heap'[g] = heap[g]
  BY <1>1, <1>3, <1>5, <1>6, ChangeHandle
<1>8. FilesOK'
  <2>1. files = [x \in Files |-> files[x]]
    BY DEF IInv, FilesOK
  <2>2. written = Torn \/ (written \in Datas /\ Closed(written))
    BY <1>2, <1>4 DEF IInv, FilesOK, Written
  <2>3. files' = [x \in Files |-> IF x = f THEN written ELSE files[x]]
    BY <1>2, <2>1
  <2>4. QED
    BY <2>2, <2>3 DEF IInv, FilesOK
<1>9. RestOK'
  BY <1>1 DEF IInv, RestOK
<1>10. ASSUME NEW g \in table'
       PROVE  Covered(g)'
  <2>1. g \in table /\ g \in Handles /\ heap'[g].data = heap[g].data
    BY <1>1, <1>5, <1>7, InUse
  <2>2. CASE \E x \in Files : files'[x] = heap[g].data
    BY <2>1, <2>2 DEF Covered
  <2>3. CASE \A x \in Files : files'[x] # heap[g].data
    <3>1. CASE g = h \/ g \in excused \/ files[f] = heap[g].data
      BY <1>2, <2>1, <2>3, <3>1 DEF Covered
    <3>2. CASE ~(g = h \/ g \in excused \/ files[f] = heap[g].data)
      <4>1. heap'[g] = heap[g]
        BY <1>7, <2>1, <3>2
      <4>2. \A x \in Files : x # f => files'[x] = files[x]
        BY <1>2 DEF IInv, FilesOK
      <4>3. \A x \in Files : files[x] # heap[g].data
        BY <2>3, <3>2, <4>2
      <4>4. QED
        BY <2>1, <3>2, <4>1, <4>3 DEF IInv, Covered
    <3>3. QED
      BY <3>1, <3>2
  <2>4. QED
    BY <2>2, <2>3
<1>11. QED
  BY <1>1, <1>7, <1>8, <1>9, <1>10 DEF IInv, Asks

LEMMA LoadDbOK ==
  ASSUME IInv, NEW k \in Args, LoadDb(k)
  PROVE  IInv' /\ Asks
<1> DEFINE n == Stripped(k)
           f == Filed(k)
           loaded == [NewHandle(n) EXCEPT !.data = files[f]]
<1>1. n \in Names /\ f \in Files
  BY DEF Stripped, Filed, Names, Args, Files
<1>2. CanAdd(n) /\ UNCHANGED <<files, cur, made>>
  BY DEF LoadDb
<1>3. FilesOK'
  BY <1>2 DEF IInv, FilesOK
<1>4. CASE files[f] # Torn
  <2>1. /\ heap' = [heap EXCEPT ![Fresh] = loaded] /\ table' = table \cup {Fresh}
        /\ outcome' = "ok" /\ UNCHANGED excused
    BY <1>4 DEF LoadDb
  <2>2. files[f] \in Datas /\ Closed(files[f])
    BY <1>1, <1>4 DEF IInv, FilesOK
  <2>3. loaded \in HeapRecord /\ loaded.name = n /\ Closed(loaded.data) /\ loaded.data = files[f]
    BY <1>1, <2>2 DEF HeapRecord, NewHandle
  <2> HIDE DEF loaded, n, f
  <2>4. /\ HeapOK' /\ TableOK' /\ DirOK(cur)'
        /\ heap'[Fresh] = loaded /\ \A h \in table : h # Fresh /\ heap'[h] = heap[h]
    BY <1>1, <1>2, <2>1, <2>3, AddHandle
  <2>5. ASSUME NEW h \in table'
        PROVE  Covered(h)'
    <3>1. CASE h = Fresh
      BY <1>1, <1>2, <2>3, <2>4, <3>1 DEF Covered
    <3>2. CASE h \in table
      BY <1>2, <2>1, <2>4, <3>2 DEF IInv, Covered
    <3>3. QED
      BY <2>1, <3>1, <3>2
  <2>6. RestOK'
    BY <1>2, <2>1 DEF IInv, RestOK
  <2>7. QED
    BY <1>3, <2>1, <2>4, <2>5, <2>6 DEF IInv, Asks
<1>5. CASE files[f] = Torn
  <2> DEFINE hd == NewHandle(n)
  <2>1. /\ heap' = [heap EXCEPT ![Fresh] = hd]
        /\ table' = {h \in table \cup {Fresh} : heap'[h].name # k}
        /\ outcome' = "refused"
        /\ excused' = excused \cup Named(k)
    BY <1>5 DEF LoadDb
  <2>2. hd \in HeapRecord /\ hd.name = n /\ Closed(hd.data) /\ hd.data = Empty
    BY <1>1, EmptyOK DEF HeapRecord, NewHandle
  <2> HIDE DEF hd, n, f
  <2>3. table' \subseteq table \cup {Fresh}
    BY <2>1
  <2>4. /\ HeapOK' /\ TableOK' /\ DirOK(cur)'
        /\ heap'[Fresh] = hd /\ \A h \in table : h # Fresh /\ heap'[h] = heap[h]
    BY <1>1, <1>2, <2>1, <2>2, <2>3, AddHandle
  <2>5. ASSUME NEW h \in table'
        PROVE  Covered(h)'
    <3>1. CASE h = Fresh
      BY <2>2, <2>4, <3>1 DEF Covered
    <3>2. CASE h \in table
      BY <1>2, <2>1, <2>4, <3>2 DEF IInv, Covered
    <3>3. QED
      BY <2>1, <3>1, <3>2
  <2>6. RestOK'
    BY <1>2, <2>1 DEF IInv, RestOK
  <2>7. ASSUME NEW h \in table \ table'
        PROVE  h \in excused'
    BY <2>1, <2>4, <2>7 DEF Named
  <2>8. QED
    BY <1>3, <2>4, <2>5, <2>6, <2>7 DEF IInv, Asks
<1>6. QED
  BY <1>4, <1>5

LEMMA UnloadDbOK ==
  ASSUME IInv, NEW loc \in Locators, UnloadDb(loc)
  PROVE  IInv' /\ Asks
<1>1. PICK dir \in Resolve(loc) : table' = table \ {dir.dh} /\ asked' = heap[dir.dh].unsaved
  BY DEF UnloadDb
<1>2. outcome' = "ok" /\ UNCHANGED <<heap, files, cur, excused, made>>
  BY DEF UnloadDb
<1>3. HeapOK' /\ TableOK' /\ DirOK(cur)'
  BY <1>1, <1>2, TableShrinks
<1>4. FilesOK' /\ RestOK' /\ \A h \in table' : Covered(h)'
  BY <1>1, <1>2 DEF IInv, FilesOK, RestOK, Covered
<1>5. Asks
  BY <1>1, <1>2 DEF IInv, Covered, Asks
<1>6. QED
  BY <1>3, <1>4, <1>5 DEF IInv

LEMMA ExitOK ==
  ASSUME IInv, Exit
  PROVE  IInv' /\ Asks
<1>1. /\ asked' = (\E h \in table : heap[h].unsaved) /\ table' = {} /\ cur' = AtRoot
      /\ outcome' = "ok" /\ UNCHANGED <<heap, files, excused, made>>
  BY DEF Exit
<1>2. HeapOK' /\ TableOK'
  BY <1>1, TableShrinks
<1>3. DirOK(cur)'
  BY <1>1 DEF DirOK, AtRoot
<1>4. FilesOK' /\ RestOK' /\ \A h \in table' : Covered(h)'
  BY <1>1 DEF IInv, FilesOK, RestOK, Covered
<1>5. Asks
  BY <1>1 DEF IInv, Covered, Asks
<1>6. QED
  BY <1>2, <1>3, <1>4, <1>5 DEF IInv

\* The commands that change an entry.
LEMMA ChangeOK ==
  ASSUME IInv, NEW dir, NEW data, NEW marks \in BOOLEAN, Change(dir, data, marks),
         Usable(dir) => dir.of \in Handles /\ data \in Datas /\ Closed(data),
         ~Usable(dir) => Gone(cur),
         made' \in 0 .. MaxIds
  PROVE  IInv' /\ Asks
<1>1. UNCHANGED <<table, files, cur>>
  BY DEF Change
<1>2. FilesOK' /\ Asks
  BY <1>1 DEF IInv, FilesOK, Asks
<1>3. CASE Usable(dir)
  <2> DEFINE k == dir.of
             hd == [heap[k] EXCEPT !.data = data, !.unsaved = heap[k].unsaved \/ marks]
  <2>2. k \in Handles /\ heap[k] \in HeapRecord /\ heap \in [Handles -> HeapRecord]
    BY <1>3, HeapAt DEF IInv, HeapOK
  <2>1. heap' = [heap EXCEPT ![k] = hd] /\ outcome' = "ok"
        /\ excused' = IF marks THEN excused ELSE excused \cup {k}
    <3>1. heap' = Marked(dir.of, data, marks) /\ outcome' = "ok"
      BY <1>3 DEF Change
    <3>2. Marked(dir.of, data, marks) = [heap EXCEPT ![k] = hd]
      BY <2>2 DEF Marked, HeapRecord
    <3>3. excused' = IF marks \/ ~Usable(dir) THEN excused ELSE excused \cup {dir.of}
      BY DEF Change
    <3>4. QED
      BY <1>3, <3>1, <3>2, <3>3
  <2>3. /\ hd \in HeapRecord /\ hd.name = heap[k].name /\ hd.data = data
        /\ hd.unsaved = (heap[k].unsaved \/ marks)
    BY <1>3, <2>2 DEF HeapRecord
  <2> HIDE DEF hd, k
  <2>4. /\ HeapOK' /\ TableOK' /\ DirOK(cur)'
        /\ heap'[k] = hd /\ \A h \in Handles : h # k => heap'[h] = heap[h]
    BY <1>1, <1>3, <2>1, <2>2, <2>3, ChangeHandle
  <2>5. RestOK'
    BY <2>1 DEF RestOK
  <2>6. ASSUME NEW h \in table'
        PROVE  Covered(h)'
    <3>1. h \in table /\ h \in Handles
      BY <1>1, InUse
    <3>2. CASE h = k
      BY <2>1, <2>3, <2>4, <3>2 DEF Covered
    <3>3. CASE h # k
      BY <1>1, <2>1, <2>4, <3>1, <3>3 DEF IInv, Covered
    <3>4. QED
      BY <3>2, <3>3
  <2>7. QED
    BY <1>2, <2>4, <2>5, <2>6 DEF IInv
<1>4. CASE ~Usable(dir)
  <2>1. UNCHANGED heap /\ outcome' = "gone" /\ excused' = excused
    BY <1>4 DEF Change
  <2>2. HeapOK' /\ TableOK' /\ DirOK(cur)'
    BY <1>1, <2>1, TableShrinks
  <2>3. Gone(cur)'
    BY <1>1, <1>4, <2>1 DEF Gone, Tree
  <2>4. RestOK' /\ \A h \in table' : Covered(h)'
    BY <1>1, <2>1, <2>3 DEF IInv, RestOK, Covered
  <2>5. QED
    BY <1>2, <2>2, <2>4 DEF IInv
<1>5. QED
  BY <1>3, <1>4

\* A directory to work on is usable, or the current directory is gone.
LEMMA UsableOrGone ==
  ASSUME IInv, NEW loc \in Locators, NEW dir \in Resolve(loc), dir # AtRoot
  PROVE  Usable(dir) \/ Gone(cur)
BY ResolveLed DEF Led

\* A usable directory has data that are there.
LEMMA UsableData ==
  ASSUME IInv, NEW dir, Usable(dir)
  PROVE  /\ dir.of \in Handles /\ heap[dir.of].data \in Datas /\ Closed(heap[dir.of].data)
         /\ dir.id \in DOMAIN heap[dir.of].data.tree \cup {Top}
<1>1. dir.of \in Handles
  BY InUse DEF Usable
<1>2. QED
  BY <1>1, HeapAt DEF Usable, Tree

LEMMA MakeOK ==
  ASSUME IInv, NEW dir, Make(dir), Usable(dir) \/ Gone(cur)
  PROVE  IInv' /\ Asks
<1> DEFINE data == WithEntry(heap[dir.of].data, dir.id, made')
<1>1. made' = made + 1 /\ made < MaxIds /\ Change(dir, data, TRUE)
  BY DEF Make
<1>2. made' \in Ids /\ made' \in 0 .. MaxIds
  BY <1>1, SessionAssumption DEF IInv, RestOK, Ids
<1>3. Usable(dir) => dir.of \in Handles /\ data \in Datas /\ Closed(data)
  BY <1>2, UsableData, WithEntryOK
<1> HIDE DEF data
<1>4. QED
  BY <1>1, <1>2, <1>3, ChangeOK

LEMMA MakeHereOK ==
  ASSUME IInv, MakeHere
  PROVE  IInv' /\ Asks
<1>1. cur # AtRoot
  BY DEF MakeHere, Make, AtRoot
<1>2. Usable(cur) \/ Gone(cur)
  BY <1>1, CurFrom
<1>3. QED
  BY <1>2, MakeOK DEF MakeHere

LEMMA MakeAtOK ==
  ASSUME IInv, NEW loc \in Locators, MakeAt(loc)
  PROVE  IInv' /\ Asks
<1>1. PICK dir \in Resolve(loc) : Make(dir)
  BY DEF MakeAt
<1>2. dir # AtRoot
  BY <1>1 DEF Make, AtRoot
<1>3. QED
  BY <1>1, <1>2, UsableOrGone, MakeOK

LEMMA RmOK ==
  ASSUME IInv, NEW loc \in Locators, NEW recursive \in BOOLEAN, Rm(loc, recursive)
  PROVE  IInv' /\ Asks
<1> DEFINE Left(dir) == Without(heap[dir.of].data, Below(heap[dir.of].data.tree, dir.id))
<1>1. PICK dir \in Resolve(loc) : dir.id # Top /\ Change(dir, Left(dir), ~recursive)
  BY DEF Rm, Tree
<1>2. made' = made /\ made' \in 0 .. MaxIds
  BY DEF Rm, IInv, RestOK
<1>3. dir # AtRoot
  BY <1>1 DEF AtRoot
<1>4. Usable(dir) => dir.of \in Handles /\ Left(dir) \in Datas /\ Closed(Left(dir))
  BY UsableData, WithoutOK
<1>5. ~Usable(dir) => Gone(cur)
  BY <1>3, UsableOrGone
<1> HIDE DEF Left
<1>6. QED
  BY <1>1, <1>2, <1>4, <1>5, ChangeOK

LEMMA EditOK ==
  ASSUME IInv, NEW loc \in Locators, Edit(loc)
  PROVE  IInv' /\ Asks
<1> DEFINE New(dir) == [heap[dir.of].data EXCEPT !.edited = @ \cup {dir.id}]
<1>1. PICK dir \in Resolve(loc) : dir.id # Top /\ Change(dir, New(dir), FALSE)
  BY DEF Edit
<1>2. made' = made /\ made' \in 0 .. MaxIds
  BY DEF Edit, IInv, RestOK
<1>3. dir # AtRoot
  BY <1>1 DEF AtRoot
<1>4. Usable(dir) => dir.of \in Handles /\ New(dir) \in Datas /\ Closed(New(dir))
  <2>1. SUFFICES ASSUME Usable(dir)
                 PROVE  dir.of \in Handles /\ New(dir) \in Datas /\ Closed(New(dir))
    OBVIOUS
  <2>2. /\ dir.of \in Handles /\ heap[dir.of].data \in Datas /\ Closed(heap[dir.of].data)
        /\ dir.id \in DOMAIN heap[dir.of].data.tree
    BY <1>1, <2>1, UsableData
  <2>3. DOMAIN heap[dir.of].data.tree \subseteq Ids
    BY <2>2 DEF Datas, Trees
  <2>4. QED
    BY <2>2, <2>3 DEF Datas, Closed
<1>5. ~Usable(dir) => Gone(cur)
  BY <1>3, UsableOrGone
<1> HIDE DEF New
<1>6. QED
  BY <1>1, <1>2, <1>4, <1>5, ChangeOK

-----------------------------------------------------------------------------
(* The theorems                                                            *)

LEMMA InitOK == Init => IInv
<1>1. SUFFICES ASSUME Init PROVE IInv
  OBVIOUS
<1>2. HeapOK
  BY <1>1, EmptyOK DEF Init, HeapOK, NewHandle
<1>3. FilesOK
  BY <1>1 DEF Init, FilesOK
<1>4. TableOK
  <2>1. {h \in Handles : heap[h].name # NoName} = 1 .. 0
    BY <1>1 DEF Init, NewHandle
  <2>2. 0 \in 0 .. MaxHandles
    BY SessionAssumption
  <2>3. QED
    BY <1>1, <2>1, <2>2 DEF Init, TableOK
<1>5. DirOK(cur) /\ RestOK
  BY <1>1, SessionAssumption DEF Init, DirOK, RestOK
<1>6. QED
  BY <1>1, <1>2, <1>3, <1>4, <1>5 DEF Init, IInv

LEMMA NextOK ==
  ASSUME IInv, [Next]_vars
  PROVE  IInv' /\ [Asks]_vars
<1>1. CASE UNCHANGED vars
  <2>1. UNCHANGED <<heap, table, files, cur, outcome, excused, made>>
    BY <1>1 DEF vars
  <2>2. HeapOK' /\ TableOK' /\ DirOK(cur)'
    BY <2>1, TableShrinks
  <2>3. FilesOK' /\ RestOK' /\ \A h \in table' : Covered(h)'
    BY <2>1 DEF IInv, FilesOK, RestOK, Covered, Gone, Tree
  <2>4. QED
    BY <1>1, <2>2, <2>3 DEF IInv
<1>2. CASE \E loc \in Locators :
             \/ Refused(loc) \/ Cd(loc) \/ UnloadDb(loc) \/ MakeAt(loc)
             \/ \E recursive \in BOOLEAN : Rm(loc, recursive)
             \/ Edit(loc)
  BY <1>2, RefusedOK, CdOK, UnloadDbOK, MakeAtOK, RmOK, EditOK
<1>3. CASE MakeHere \/ Exit
  BY <1>3, MakeHereOK, ExitOK
<1>4. CASE \E k \in Args : NewDb(k) \/ LoadDb(k)
  BY <1>4, NewDbOK, LoadDbOK
<1>5. CASE \E k \in Names, f \in Files : SaveDb(k, f)
  BY <1>5, SaveDbOK
<1>6. QED
  BY <1>1, <1>2, <1>3, <1>4, <1>5 DEF Next

LEMMA Invariant == Spec => []IInv
<1>1. Init => IInv
  BY InitOK
<1>2. IInv /\ [Next]_vars => IInv'
  BY NextOK
<1>3. QED
  BY <1>1, <1>2, PTL DEF Spec

\* The databases in use have different names, their trees and those of the
\* files lead up to the head, whatever was saved, loaded, unloaded or removed.
THEOREM TypeCorrect == Spec => []TypeOK
<1>1. IInv => TypeOK
  BY TypeFollows
<1>2. QED
  BY <1>1, Invariant, PTL

\* Every locator, after any commands, leads to an entry that is there, with the
\* handle of its database, unless the current directory has been unloaded or
\* removed; and no command works on freed memory before that.
THEOREM OnlyGoneIsEverUsed == Spec => []OnlyGoneIsUsed
<1>1. IInv => OnlyGoneIsUsed
  <2>1. SUFFICES ASSUME IInv, NEW loc \in Locators, NEW dir \in Resolve(loc)
                 PROVE  \/ dir.name = NoName \/ Usable(dir)
                        \/ (Gone(cur) /\ dir.of \in table /\ dir.id \in DOMAIN Tree(dir.of))
    BY DEF OnlyGoneIsUsed, IInv, RestOK
  <2>2. Led(dir)
    BY <2>1, ResolveLed
  <2>3. QED
    BY <2>2 DEF Led, AtRoot
<1>2. QED
  BY <1>1, Invariant, PTL

\* A database that a command drops without having asked is empty or in a file
\* as it is, unless rm -r or edit left it unmarked, a savedb did not write it
\* or wrote another one over it, or a loaddb of its name failed.
THEOREM NothingIsLostUnasked == Spec => NothingLostUnasked
<1>1. IInv /\ [Next]_vars => [Asks]_vars
  BY NextOK
<1>2. [Asks]_vars
      => [\A h \in table \ table' :
            \/ asked' \/ h \in excused' \/ heap[h].data = Empty
            \/ \E f \in Files : files'[f] = heap[h].data]_vars
  BY DEF Asks
<1>3. QED
  BY <1>1, <1>2, Invariant, PTL DEF Spec, NothingLostUnasked
=============================================================================
