-------------------------- MODULE TransChainProofs --------------------------
(***************************************************************************)
(* Proofs about TransChain for any number of targets, nodes and strings:    *)
(* type correctness always, and, for as long as no rename has left stale    *)
(* links, no crash, links that are consistent, chains that have exactly the *)
(* targets that carry their string, and the index of NameIndex implemented. *)
(***************************************************************************)
EXTENDS TransChain, FiniteSetTheorems, WellFoundedInduction, SequenceTheorems,
        TLAPS

-----------------------------------------------------------------------------
(* Facts about numbers the proofs rest on                                  *)

\* A non-empty set of natural numbers has a least element.
LEMMA LeastElement ==
  ASSUME NEW T, T \subseteq Nat, T # {}
  PROVE  \E m \in T : \A k \in T : m <= k
<1>1. PICK m \in T : \A k \in T : <<k, m>> \notin OpToRel(<, Nat)
  BY NatLessThanWellFounded, WFMin
<1>2. ASSUME NEW k \in T, k < m
      PROVE  FALSE
  <2>1. <<k, m>> \in OpToRel(<, Nat)
    BY <1>2 DEF OpToRel
  <2>2. QED
    BY <1>1, <2>1
<1>3. \A k \in T : ~(k < m)
  BY <1>2
<1>4. \A k \in T : k \in Nat /\ m \in Nat
  OBVIOUS
<1>5. \A k \in T : m <= k
  BY <1>3, <1>4
<1>6. QED
  BY <1>5

\* A set that has 0 and the successor of each of its numbers has them all.
LEMMA SetInduction ==
  ASSUME NEW S, 0 \in S, \A n \in Nat : n \in S => n + 1 \in S
  PROVE  Nat \subseteq S
<1>1. SUFFICES ASSUME Nat \ S # {}
               PROVE  FALSE
  OBVIOUS
<1>2. PICK m \in Nat \ S : \A k \in Nat \ S : m <= k
  BY <1>1, LeastElement
<1>3. m - 1 \in Nat /\ m - 1 \in S
  BY <1>2
<1>4. QED
  BY <1>2, <1>3
\* f follows links from a start for n steps, or until a null pointer is met.
Chases(f, start, link, nil, n) ==
  f = [k \in 0 .. n |-> IF k = 0 THEN start
                        ELSE IF f[k - 1] = nil THEN nil ELSE link[f[k - 1]]]

\* The recursion has a solution.
LEMMA ChaseExists ==
  ASSUME NEW start, NEW link, NEW nil, NEW n \in Nat
  PROVE  \E f : Chases(f, start, link, nil, n)
<1> DEFINE Solves(f, m) == Chases(f, start, link, nil, m)
           S == {m \in Nat : \E f : Solves(f, m)}
<1>1. 0 \in S
  <2> DEFINE f == [k \in 0 .. 0 |-> start]
  <2>1. Solves(f, 0)
    BY DEF Chases
  <2>2. QED
    BY <2>1
<1>2. ASSUME NEW m \in Nat, m \in S
      PROVE  m + 1 \in S
  <2>1. PICK f : Solves(f, m)
    BY <1>2
  <2> DEFINE last == IF f[m] = nil THEN nil ELSE link[f[m]]
             g == [k \in 0 .. m + 1 |-> IF k = m + 1 THEN last ELSE f[k]]
  <2>2. ASSUME NEW k \in 0 .. m + 1
        PROVE  g[k] = IF k = 0 THEN start
                      ELSE IF g[k - 1] = nil THEN nil ELSE link[g[k - 1]]
    <3>1. CASE k = m + 1
      BY <3>1
    <3>2. CASE k \in 0 .. m
      <4>1. f[k] = IF k = 0 THEN start
                   ELSE IF f[k - 1] = nil THEN nil ELSE link[f[k - 1]]
        BY <2>1, <3>2 DEF Chases
      <4>2. g[k] = f[k] /\ (k # 0 => g[k - 1] = f[k - 1])
        BY <3>2
      <4>3. QED
        BY <4>1, <4>2
    <3>3. QED
      BY <3>1, <3>2
  <2>3. Solves(g, m + 1)
    BY <2>2 DEF Chases
  <2>4. \E h : Solves(h, m + 1)
    <3> HIDE DEF Solves, g
    <3>1. QED
      BY <2>3
  <2>5. QED
    BY <2>4
<1>3. Nat \subseteq S
  <2> HIDE DEF S
  <2>1. QED
    BY <1>1, <1>2, SetInduction
<1>4. QED
  BY <1>3

\* A node in the hash table has a head, be it stale.
HeadsSet(d) == \A t \in d.used : d.head[t] \in Targets

\* Along the members of a node, pos grows and next and prev name the nearest
\* neighbours in that order.  Without it the links alone would allow a ring of
\* members beside the chain that the node's head and tail delimit.
InOrder(d, pos, e, f) ==
  /\ pos[e] = pos[f] => e = f
  /\ pos[e] < pos[f] => /\ d.next[e] # Nil /\ pos[d.next[e]] <= pos[f]
                        /\ d.prev[f] # Nil /\ pos[e] <= pos[d.prev[f]]
  /\ d.next[e] = f => pos[e] < pos[f]

Ordered(d, on, pos) ==
  \A e, f \in on : d.tran[e] = d.tran[f] => InOrder(d, pos, e, f)

Linear(d, on) == \E pos \in [Targets -> Nat] : Ordered(d, on, pos)

\* The inductive invariant.
IInv ==
  /\ TypeOK
  /\ HeadsSet(db)
  /\ stale = 0 => Consistent(db, live) /\ Linear(db, live) /\ ~crashed

\* The addresses of targets, of nodes and the null pointer differ.
LEMMA Addresses ==
  /\ Nil \notin Targets /\ Nil \notin Nodes /\ Targets \cap Nodes = {}
  /\ Nil = 0
<1>1. MaxTargets \in Nat /\ MaxNodes \in Nat
  BY ChainAssumption
<1>2. QED
  BY <1>1 DEF Nil, Targets, Nodes

-----------------------------------------------------------------------------
(* What the chain operations do to the memory: d before, r after           *)

Wiped(d, r, e, s) ==
  /\ r \in Memory
  /\ r.str = [d.str EXCEPT ![e] = s]
  /\ r.prev = [d.prev EXCEPT ![e] = Nil]
  /\ r.next = [d.next EXCEPT ![e] = Nil]
  /\ r.tran = [d.tran EXCEPT ![e] = Nil]
  /\ r.used = d.used /\ r.key = d.key /\ r.head = d.head /\ r.tail = d.tail

OnlyGone(d, r, e, t) ==
  /\ r \in Memory
  /\ r.used = d.used \ {t}
  /\ r.key = [d.key EXCEPT ![t] = NoStr]
  /\ r.head = [d.head EXCEPT ![t] = Nil]
  /\ r.tail = [d.tail EXCEPT ![t] = Nil]
  /\ r.tran = [d.tran EXCEPT ![e] = Nil]
  /\ r.str = d.str /\ r.prev = d.prev /\ r.next = d.next

HeadGone(d, r, t, n) ==
  /\ r \in Memory
  /\ r.head = [d.head EXCEPT ![t] = n]
  /\ r.prev = [d.prev EXCEPT ![n] = Nil]
  /\ r.str = d.str /\ r.next = d.next /\ r.tran = d.tran
  /\ r.used = d.used /\ r.key = d.key /\ r.tail = d.tail

TailGone(d, r, t, p) ==
  /\ r \in Memory
  /\ r.tail = [d.tail EXCEPT ![t] = p]
  /\ r.next = [d.next EXCEPT ![p] = Nil]
  /\ r.str = d.str /\ r.prev = d.prev /\ r.tran = d.tran
  /\ r.used = d.used /\ r.key = d.key /\ r.head = d.head

MiddleGone(d, r, p, n) ==
  /\ r \in Memory
  /\ r.next = [d.next EXCEPT ![p] = n]
  /\ r.prev = [d.prev EXCEPT ![n] = p]
  /\ r.str = d.str /\ r.tran = d.tran
  /\ r.used = d.used /\ r.key = d.key /\ r.head = d.head /\ r.tail = d.tail

Alone(d, r, e, t) ==
  /\ r \in Memory
  /\ r.used = d.used \cup {t}
  /\ r.key = [d.key EXCEPT ![t] = d.str[e]]
  /\ r.head = [d.head EXCEPT ![t] = e]
  /\ r.tail = [d.tail EXCEPT ![t] = e]
  /\ r.tran = [d.tran EXCEPT ![e] = t]
  /\ r.str = d.str /\ r.prev = d.prev /\ r.next = d.next

Appended(d, r, e, t, last) ==
  /\ r \in Memory
  /\ r.tran = [d.tran EXCEPT ![e] = t]
  /\ r.prev = [d.prev EXCEPT ![e] = last]
  /\ r.next = [d.next EXCEPT ![last] = e, ![e] = Nil]
  /\ r.tail = [d.tail EXCEPT ![t] = e]
  /\ r.str = d.str /\ r.used = d.used /\ r.key = d.key /\ r.head = d.head

\* Wiping a target changes that target alone.
LEMMA WipeFields ==
  ASSUME NEW d \in Memory, NEW e \in Targets, NEW s \in Strs \cup {NoStr}
  PROVE  Wiped(d, WipeTarget(d, e, s), e, s)
<1> DEFINE str == [d.str EXCEPT ![e] = s]
           prev == [d.prev EXCEPT ![e] = Nil]
           next == [d.next EXCEPT ![e] = Nil]
           tran == [d.tran EXCEPT ![e] = Nil]
           r == [d EXCEPT !.str = str, !.prev = prev, !.next = next, !.tran = tran]
<1>1. WipeTarget(d, e, s) = r
  BY DEF WipeTarget, Memory
<1>2. /\ str \in [Targets -> Strs \cup {NoStr}]
      /\ prev \in [Targets -> Targets \cup {Nil}]
      /\ next \in [Targets -> Targets \cup {Nil}]
      /\ tran \in [Targets -> Nodes \cup {Nil}]
  BY DEF Memory
<1> HIDE DEF str, prev, next, tran
<1>3. /\ r \in Memory
      /\ r.str = str /\ r.prev = prev /\ r.next = next /\ r.tran = tran
      /\ r.used = d.used /\ r.key = d.key /\ r.head = d.head /\ r.tail = d.tail
  BY <1>2 DEF Memory
<1>4. QED
  BY <1>1, <1>3 DEF Wiped, str, prev, next, tran

\* Unlinking the only member of a chain drops its node.
LEMMA UnlinkOnlyFields ==
  ASSUME NEW d \in Memory, NEW e \in Targets, NEW t \in Nodes, t = d.tran[e],
         d.prev[e] = Nil, d.next[e] = Nil
  PROVE  OnlyGone(d, Unlink(d, e), e, t)
<1> DEFINE used == d.used \ {t}
           key == [d.key EXCEPT ![t] = NoStr]
           head == [d.head EXCEPT ![t] = Nil]
           tail == [d.tail EXCEPT ![t] = Nil]
           number == [d.number EXCEPT ![t] = 0]
           tran == [d.tran EXCEPT ![e] = Nil]
           r == [d EXCEPT !.used = used, !.key = key, !.head = head, !.tail = tail,
                          !.number = number, !.tran = tran]
<1>1. t # Nil
  BY Addresses
<1>2. Unlink(d, e) = [DropNode(d, t) EXCEPT !.tran[e] = Nil]
  BY <1>1 DEF Unlink
<1>3. DropNode(d, t) = [d EXCEPT !.used = used, !.key = key, !.head = head,
                                 !.tail = tail, !.number = number]
  BY DEF DropNode, Memory
<1>4. Unlink(d, e) = r
  BY <1>2, <1>3 DEF Memory
<1>5. /\ used \in SUBSET Nodes
      /\ key \in [Nodes -> Strs \cup {NoStr}]
      /\ head \in [Nodes -> Targets \cup {Nil}]
      /\ tail \in [Nodes -> Targets \cup {Nil}]
      /\ number \in [Nodes -> Nat]
      /\ tran \in [Targets -> Nodes \cup {Nil}]
  BY DEF Memory
<1> HIDE DEF used, key, head, tail, number, tran
<1>6. /\ r \in Memory
      /\ r.used = used /\ r.key = key /\ r.head = head /\ r.tail = tail
      /\ r.tran = tran
      /\ r.str = d.str /\ r.prev = d.prev /\ r.next = d.next
  BY <1>5 DEF Memory
<1>7. QED
  BY <1>4, <1>6 DEF OnlyGone, used, key, head, tail, number, tran

\* Unlinking the head of a chain makes its successor the head.
LEMMA UnlinkHeadFields ==
  ASSUME NEW d \in Memory, NEW e \in Targets, NEW t \in Nodes, t = d.tran[e],
         d.prev[e] = Nil, NEW n \in Targets, n = d.next[e]
  PROVE  HeadGone(d, Unlink(d, e), t, n)
<1> DEFINE head == [d.head EXCEPT ![t] = n]
           prev == [d.prev EXCEPT ![n] = Nil]
           r == [d EXCEPT !.head = head, !.prev = prev]
<1>1. t # Nil /\ n # Nil
  BY Addresses
<1>2. Unlink(d, e) = [d EXCEPT !.head[t] = n, !.prev[n] = Nil]
  BY <1>1 DEF Unlink
<1>3. Unlink(d, e) = r
  BY <1>2 DEF Memory
<1>4. head \in [Nodes -> Targets \cup {Nil}] /\ prev \in [Targets -> Targets \cup {Nil}]
  BY DEF Memory
<1> HIDE DEF head, prev
<1>5. /\ r \in Memory
      /\ r.head = head /\ r.prev = prev
      /\ r.str = d.str /\ r.next = d.next /\ r.tran = d.tran
      /\ r.used = d.used /\ r.key = d.key /\ r.tail = d.tail
  BY <1>4 DEF Memory
<1>6. QED
  BY <1>3, <1>5 DEF HeadGone, head, prev

\* Unlinking the tail of a chain makes its predecessor the tail.
LEMMA UnlinkTailFields ==
  ASSUME NEW d \in Memory, NEW e \in Targets, NEW t \in Nodes, t = d.tran[e],
         d.next[e] = Nil, NEW p \in Targets, p = d.prev[e]
  PROVE  TailGone(d, Unlink(d, e), t, p)
<1> DEFINE tail == [d.tail EXCEPT ![t] = p]
           next == [d.next EXCEPT ![p] = Nil]
           r == [d EXCEPT !.tail = tail, !.next = next]
<1>1. t # Nil /\ p # Nil
  BY Addresses
<1>2. Unlink(d, e) = [d EXCEPT !.tail[t] = p, !.next[p] = Nil]
  BY <1>1 DEF Unlink
<1>3. Unlink(d, e) = r
  BY <1>2 DEF Memory
<1>4. tail \in [Nodes -> Targets \cup {Nil}] /\ next \in [Targets -> Targets \cup {Nil}]
  BY DEF Memory
<1> HIDE DEF tail, next
<1>5. /\ r \in Memory
      /\ r.tail = tail /\ r.next = next
      /\ r.str = d.str /\ r.prev = d.prev /\ r.tran = d.tran
      /\ r.used = d.used /\ r.key = d.key /\ r.head = d.head
  BY <1>4 DEF Memory
<1>6. QED
  BY <1>3, <1>5 DEF TailGone, tail, next

\* Unlinking from the middle of a chain joins the two neighbours.
LEMMA UnlinkMiddleFields ==
  ASSUME NEW d \in Memory, NEW e \in Targets, d.tran[e] # Nil,
         NEW p \in Targets, p = d.prev[e], NEW n \in Targets, n = d.next[e]
  PROVE  MiddleGone(d, Unlink(d, e), p, n)
<1> DEFINE next == [d.next EXCEPT ![p] = n]
           prev == [d.prev EXCEPT ![n] = p]
           r == [d EXCEPT !.next = next, !.prev = prev]
<1>1. p # Nil /\ n # Nil
  BY Addresses
<1>2. Unlink(d, e) = [d EXCEPT !.next[p] = n, !.prev[n] = p]
  BY <1>1 DEF Unlink
<1>3. Unlink(d, e) = r
  BY <1>2 DEF Memory
<1>4. next \in [Targets -> Targets \cup {Nil}] /\ prev \in [Targets -> Targets \cup {Nil}]
  BY DEF Memory
<1> HIDE DEF next, prev
<1>5. /\ r \in Memory
      /\ r.next = next /\ r.prev = prev
      /\ r.str = d.str /\ r.tran = d.tran
      /\ r.used = d.used /\ r.key = d.key /\ r.head = d.head /\ r.tail = d.tail
  BY <1>4 DEF Memory
<1>6. QED
  BY <1>3, <1>5 DEF MiddleGone, next, prev

\* A node of its own for a target.
LEMMA LinkAloneFields ==
  ASSUME NEW d \in Memory, NEW e \in Targets, NEW t \in Nodes
  PROVE  Alone(d, LinkAlone(d, e, t), e, t)
<1> DEFINE used == d.used \cup {t}
           key == [d.key EXCEPT ![t] = d.str[e]]
           head == [d.head EXCEPT ![t] = e]
           tail == [d.tail EXCEPT ![t] = e]
           number == [d.number EXCEPT ![t] = 1]
           tran == [d.tran EXCEPT ![e] = t]
           r == [d EXCEPT !.used = used, !.key = key, !.head = head, !.tail = tail,
                          !.number = number, !.tran = tran]
<1>1. LinkAlone(d, e, t) = r
  BY DEF LinkAlone, Memory
<1>2. /\ used \in SUBSET Nodes
      /\ key \in [Nodes -> Strs \cup {NoStr}]
      /\ head \in [Nodes -> Targets \cup {Nil}]
      /\ tail \in [Nodes -> Targets \cup {Nil}]
      /\ number \in [Nodes -> Nat]
      /\ tran \in [Targets -> Nodes \cup {Nil}]
  BY DEF Memory
<1> HIDE DEF used, key, head, tail, number, tran
<1>3. /\ r \in Memory
      /\ r.used = used /\ r.key = key /\ r.head = head /\ r.tail = tail
      /\ r.tran = tran
      /\ r.str = d.str /\ r.prev = d.prev /\ r.next = d.next
  BY <1>2 DEF Memory
<1>4. QED
  BY <1>1, <1>3 DEF Alone, used, key, head, tail, number, tran

\* A target behind the tail of a chain.
LEMMA AppendFields ==
  ASSUME NEW d \in Memory, NEW e \in Targets, NEW t \in Nodes,
         NEW last \in Targets, last = d.tail[t]
  PROVE  Appended(d, AppendTo(d, e, t), e, t, last)
<1> DEFINE tran == [d.tran EXCEPT ![e] = t]
           prev == [d.prev EXCEPT ![e] = last]
           next == [d.next EXCEPT ![last] = e, ![e] = Nil]
           tail == [d.tail EXCEPT ![t] = e]
           number == [d.number EXCEPT ![t] = @ + 1]
           r == [d EXCEPT !.tran = tran, !.prev = prev, !.next = next,
                          !.tail = tail, !.number = number]
<1>1. AppendTo(d, e, t) = r
  BY DEF AppendTo, Memory
<1>2. /\ tran \in [Targets -> Nodes \cup {Nil}]
      /\ prev \in [Targets -> Targets \cup {Nil}]
      /\ next \in [Targets -> Targets \cup {Nil}]
      /\ tail \in [Nodes -> Targets \cup {Nil}]
      /\ number \in [Nodes -> Nat]
  BY DEF Memory
<1> HIDE DEF tran, prev, next, tail, number
<1>3. /\ r \in Memory
      /\ r.tran = tran /\ r.prev = prev /\ r.next = next /\ r.tail = tail
      /\ r.str = d.str /\ r.used = d.used /\ r.key = d.key /\ r.head = d.head
  BY <1>2 DEF Memory
<1>4. QED
  BY <1>1, <1>3 DEF Appended, tran, prev, next, tail, number

\* What is known of the fields unlink branches on.
LEMMA FieldTypes ==
  ASSUME NEW d \in Memory, NEW e \in Targets
  PROVE  /\ d.tran[e] \in Nodes \/ d.tran[e] = Nil
         /\ d.prev[e] \in Targets \/ d.prev[e] = Nil
         /\ d.next[e] \in Targets \/ d.next[e] = Nil
         /\ d.str[e] \in Strs \cup {NoStr}
  BY DEF Memory

-----------------------------------------------------------------------------
(* Types                                                                   *)

\* Unlinking keeps the memory well typed and every node provided with a head.
LEMMA UnlinkType ==
  ASSUME NEW d \in Memory, NEW e \in Targets
  PROVE  /\ Unlink(d, e) \in Memory
         /\ HeadsSet(d) => HeadsSet(Unlink(d, e))
         /\ Unlink(d, e).str = d.str
<1> DEFINE t == d.tran[e]
           p == d.prev[e]
           n == d.next[e]
<1>1. CASE t = Nil
  BY <1>1 DEF Unlink
<1>0. d.used \in SUBSET Nodes /\ d.head \in [Nodes -> Targets \cup {Nil}]
  BY DEF Memory
<1>2. CASE t \in Nodes /\ p = Nil /\ n = Nil
  <2>1. OnlyGone(d, Unlink(d, e), e, t)
    BY <1>2, UnlinkOnlyFields
  <2>2. QED
    BY <1>0, <2>1 DEF HeadsSet, OnlyGone
<1>3. CASE t \in Nodes /\ p = Nil /\ n \in Targets
  <2>1. HeadGone(d, Unlink(d, e), t, n)
    BY <1>3, UnlinkHeadFields
  <2>2. QED
    BY <1>0, <1>3, <2>1 DEF HeadsSet, HeadGone
<1>4. CASE t \in Nodes /\ p \in Targets /\ n = Nil
  <2>1. TailGone(d, Unlink(d, e), t, p)
    BY <1>4, UnlinkTailFields
  <2>2. QED
    BY <2>1 DEF HeadsSet, TailGone
<1>5. CASE t \in Nodes /\ p \in Targets /\ n \in Targets
  <2>1. t # Nil
    BY <1>5, Addresses
  <2>2. MiddleGone(d, Unlink(d, e), p, n)
    BY <1>5, <2>1, UnlinkMiddleFields
  <2>3. QED
    BY <2>2 DEF HeadsSet, MiddleGone
<1>6. QED
  BY <1>1, <1>2, <1>3, <1>4, <1>5, FieldTypes

\* The ways a target is linked.
LEMMA LinkCases ==
  ASSUME NEW d \in Memory, NEW e \in Targets, NEW d2, IsLinked(d, e, d2)
  PROVE  \/ /\ Found(d, d.str[e]) = {}
            /\ \E t \in Nodes \ d.used : d2 = LinkAlone(d, e, t)
         \/ /\ \E f \in Found(d, d.str[e]) : d.str[d.head[f]] # d.str[e]
            /\ d2 = d
         \/ \E f \in Found(d, d.str[e]) :
              LET t == d.tran[d.head[f]] IN
              t # Nil /\ d.tail[t] # Nil /\ d2 = AppendTo(d, e, t)
  BY DEF IsLinked, IsFreeNode

\* Linking keeps the memory well typed and every node provided with a head.
LEMMA LinkType ==
  ASSUME NEW d \in Memory, HeadsSet(d), NEW e \in Targets, NEW d2, IsLinked(d, e, d2)
  PROVE  d2 \in Memory /\ HeadsSet(d2)
<1>1. CASE \E t \in Nodes : d2 = LinkAlone(d, e, t)
  <2>1. PICK t \in Nodes : d2 = LinkAlone(d, e, t)
    BY <1>1
  <2>2. Alone(d, d2, e, t)
    BY <2>1, LinkAloneFields
  <2>3. d.used \in SUBSET Nodes /\ d.head \in [Nodes -> Targets \cup {Nil}]
    BY DEF Memory
  <2>4. QED
    BY <2>2, <2>3 DEF HeadsSet, Alone
<1>2. CASE d2 = d
  BY <1>2
<1>3. CASE \E f \in Found(d, d.str[e]) :
             LET t == d.tran[d.head[f]] IN
             t # Nil /\ d.tail[t] # Nil /\ d2 = AppendTo(d, e, t)
  <2>1. PICK f \in Found(d, d.str[e]) :
               LET t == d.tran[d.head[f]] IN
               t # Nil /\ d.tail[t] # Nil /\ d2 = AppendTo(d, e, t)
    BY <1>3
  <2> DEFINE t == d.tran[d.head[f]]
  <2>2. t \in Nodes
    BY <2>1 DEF HeadsSet, Memory, Found
  <2>3. d.tail[t] \in Targets
    BY <2>1, <2>2 DEF Memory
  <2>4. d2 = AppendTo(d, e, t)
    BY <2>1
  <2> HIDE DEF t
  <2>5. Appended(d, d2, e, t, d.tail[t])
    BY <2>2, <2>3, <2>4, AppendFields
  <2>6. QED
    BY <2>5 DEF HeadsSet, Appended
<1>4. QED
  BY <1>1, <1>2, <1>3, LinkCases

-----------------------------------------------------------------------------
(* Consistency                                                             *)

\* Changing the fields of a target outside the chains changes no chain.
LEMMA OutsideConsistent ==
  ASSUME NEW on \in SUBSET Targets, NEW d \in Memory, Consistent(d, on),
         Linear(d, on), NEW e \in Targets \ on, NEW r \in Memory,
         \A f \in Targets \ {e} : /\ r.str[f] = d.str[f] /\ r.tran[f] = d.tran[f]
                                  /\ r.prev[f] = d.prev[f] /\ r.next[f] = d.next[f],
         r.used = d.used, r.key = d.key, r.head = d.head, r.tail = d.tail
  PROVE  Consistent(r, on) /\ Linear(r, on)
<1>1. ASSUME NEW f \in on PROVE LinkOK(r, on, f)
  BY <1>1 DEF Consistent, LinkOK
<1>2. ASSUME NEW t \in r.used PROVE NodeOK(r, on, t)
  BY <1>2 DEF Consistent, NodeOK
<1>3. PICK pos \in [Targets -> Nat] : Ordered(d, on, pos)
  BY DEF Linear
<1>4. Ordered(r, on, pos)
  BY <1>3 DEF Ordered, InOrder
<1>5. QED
  BY <1>1, <1>2, <1>4 DEF Consistent, Linear

\* Changing the string of a target changes nothing else.
LEMMA SetStrFields ==
  ASSUME NEW d \in Memory, NEW e \in Targets, NEW s \in Strs
  PROVE  LET r == [d EXCEPT !.str[e] = s] IN
         /\ r \in Memory /\ r.str = [d.str EXCEPT ![e] = s]
         /\ r.prev = d.prev /\ r.next = d.next /\ r.tran = d.tran
         /\ r.used = d.used /\ r.key = d.key /\ r.head = d.head /\ r.tail = d.tail
  BY DEF Memory

\* Unlinking a target of a consistent chain leaves consistent chains without it.
LEMMA UnlinkConsistent ==
  ASSUME NEW on \in SUBSET Targets, NEW d \in Memory, Consistent(d, on),
         NEW pos \in [Targets -> Nat], Ordered(d, on, pos), NEW e \in on
  PROVE  /\ Consistent(Unlink(d, e), on \ {e})
         /\ Ordered(Unlink(d, e), on \ {e}, pos)
         /\ ~UnlinkUndefined(d, e)
<1> DEFINE t == d.tran[e]
           p == d.prev[e]
           n == d.next[e]
           r == Unlink(d, e)
           off == on \ {e}
<1>0. /\ Nil \notin Targets /\ d.used \in SUBSET Nodes
      /\ d.prev \in [Targets -> Targets \cup {Nil}]
      /\ d.next \in [Targets -> Targets \cup {Nil}]
      /\ d.tran \in [Targets -> Nodes \cup {Nil}]
      /\ d.head \in [Nodes -> Targets \cup {Nil}]
      /\ d.tail \in [Nodes -> Targets \cup {Nil}]
      /\ d.key \in [Nodes -> Strs \cup {NoStr}]
  BY Addresses DEF Memory
<1>1. /\ t \in d.used /\ t \in Nodes /\ t # Nil
      /\ LinkOK(d, on, e) /\ NodeOK(d, on, t)
  BY Addresses DEF Consistent, LinkOK, Memory
<1>2. ~UnlinkUndefined(d, e)
  BY <1>1 DEF UnlinkUndefined
<1>3. CASE p = Nil /\ n = Nil
  <2>1. OnlyGone(d, r, e, t)
    BY <1>1, <1>3, UnlinkOnlyFields
  <2>2. ASSUME NEW f \in off PROVE LinkOK(r, off, f)
    <3>1. LinkOK(d, on, f)
      BY DEF Consistent
    <3>2. QED
      BY <1>0, <1>1, <1>3, <2>1, <3>1 DEF LinkOK, NodeOK, OnlyGone, Ordered, InOrder
  <2>3. ASSUME NEW u \in r.used PROVE NodeOK(r, off, u)
    <3>1. u \in d.used /\ NodeOK(d, on, u)
      BY <2>1 DEF Consistent, OnlyGone
    <3>2. QED
      BY <1>0, <1>1, <1>3, <2>1, <3>1 DEF LinkOK, NodeOK, OnlyGone
  <2>4. ASSUME NEW f \in off, NEW h \in off, r.tran[f] = r.tran[h]
        PROVE  InOrder(r, pos, f, h)
    <3>1. LinkOK(d, on, f) /\ LinkOK(d, on, h)
      BY DEF Consistent
    <3>2. QED
      BY <1>0, <1>1, <1>3, <2>1, <2>4, <3>1 DEF LinkOK, Ordered, InOrder, OnlyGone
  <2>5. QED
    BY <1>2, <2>2, <2>3, <2>4 DEF Consistent, Ordered
<1>4. CASE p = Nil /\ n \in Targets
  <2>1. HeadGone(d, r, t, n)
    BY <1>1, <1>4, UnlinkHeadFields
  <2>2. ASSUME NEW f \in off PROVE LinkOK(r, off, f)
    <3>1. LinkOK(d, on, f)
      BY DEF Consistent
    <3>2. QED
      BY <1>0, <1>1, <1>4, <2>1, <3>1 DEF LinkOK, NodeOK, HeadGone
  <2>3. ASSUME NEW u \in r.used PROVE NodeOK(r, off, u)
    <3>1. u \in d.used /\ NodeOK(d, on, u)
      BY <2>1 DEF Consistent, HeadGone
    <3>2. QED
      BY <1>0, <1>1, <1>4, <2>1, <3>1 DEF LinkOK, NodeOK, HeadGone
  <2>4. ASSUME NEW f \in off, NEW h \in off, r.tran[f] = r.tran[h]
        PROVE  InOrder(r, pos, f, h)
    <3>1. LinkOK(d, on, f) /\ LinkOK(d, on, h)
      BY DEF Consistent
    <3>2. QED
      BY <1>0, <1>1, <1>4, <2>1, <2>4, <3>1 DEF LinkOK, Ordered, InOrder, HeadGone
  <2>5. QED
    BY <1>2, <2>2, <2>3, <2>4 DEF Consistent, Ordered
<1>5. CASE p \in Targets /\ n = Nil
  <2>1. TailGone(d, r, t, p)
    BY <1>1, <1>5, UnlinkTailFields
  <2>2. ASSUME NEW f \in off PROVE LinkOK(r, off, f)
    <3>1. LinkOK(d, on, f)
      BY DEF Consistent
    <3>2. QED
      BY <1>0, <1>1, <1>5, <2>1, <3>1 DEF LinkOK, NodeOK, TailGone
  <2>3. ASSUME NEW u \in r.used PROVE NodeOK(r, off, u)
    <3>1. u \in d.used /\ NodeOK(d, on, u)
      BY <2>1 DEF Consistent, TailGone
    <3>2. QED
      BY <1>0, <1>1, <1>5, <2>1, <3>1 DEF LinkOK, NodeOK, TailGone
  <2>4. ASSUME NEW f \in off, NEW h \in off, r.tran[f] = r.tran[h]
        PROVE  InOrder(r, pos, f, h)
    <3>1. LinkOK(d, on, f) /\ LinkOK(d, on, h)
      BY DEF Consistent
    <3>2. QED
      BY <1>0, <1>1, <1>5, <2>1, <2>4, <3>1 DEF LinkOK, Ordered, InOrder, TailGone
  <2>5. QED
    BY <1>2, <2>2, <2>3, <2>4 DEF Consistent, Ordered
<1>6. CASE p \in Targets /\ n \in Targets
  <2>1. MiddleGone(d, r, p, n)
    BY <1>1, <1>6, UnlinkMiddleFields
  <2>2. ASSUME NEW f \in off PROVE LinkOK(r, off, f)
    <3>1. LinkOK(d, on, f)
      BY DEF Consistent
    <3>2. QED
      BY <1>0, <1>1, <1>6, <2>1, <3>1 DEF LinkOK, NodeOK, MiddleGone
  <2>3. ASSUME NEW u \in r.used PROVE NodeOK(r, off, u)
    <3>1. u \in d.used /\ NodeOK(d, on, u)
      BY <2>1 DEF Consistent, MiddleGone
    <3>2. QED
      BY <1>0, <1>1, <1>6, <2>1, <3>1 DEF LinkOK, NodeOK, MiddleGone
  <2>4. ASSUME NEW f \in off, NEW h \in off, r.tran[f] = r.tran[h]
        PROVE  InOrder(r, pos, f, h)
    <3>1. /\ LinkOK(d, on, f) /\ LinkOK(d, on, h)
          /\ p \in on /\ n \in on /\ LinkOK(d, on, p) /\ LinkOK(d, on, n)
      BY <1>0, <1>1, <1>6 DEF Consistent, LinkOK
    <3>2. \/ /\ InOrder(d, pos, f, h)
             /\ InOrder(d, pos, f, e) /\ InOrder(d, pos, e, h)
          \/ d.tran[f] # t /\ InOrder(d, pos, f, h)
      BY <2>1, <2>4 DEF Ordered, MiddleGone
    <3>3. pos[f] = pos[h] => f = h
      BY <3>2 DEF InOrder
    <3>4. r.next[f] = h => pos[f] < pos[h]
      BY <1>0, <1>1, <1>6, <2>1, <3>1, <3>2 DEF InOrder, LinkOK, MiddleGone
    <3> /\ pos[f] \in Nat /\ pos[h] \in Nat /\ pos[e] \in Nat
        /\ pos[p] \in Nat /\ pos[n] \in Nat
      BY <1>6
    <3>5. pos[f] < pos[h] => r.next[f] # Nil /\ pos[r.next[f]] <= pos[h]
      <4>1. CASE f = p
        <5>1. d.next[f] = e /\ d.tran[f] = t /\ r.next[f] = n
          BY <1>0, <1>1, <1>6, <2>1, <4>1 DEF LinkOK, MiddleGone
        <5>2. pos[f] < pos[h] => pos[e] < pos[h]
          BY <3>2, <5>1 DEF InOrder
        <5>3. QED
          BY <1>0, <1>6, <3>2, <5>1, <5>2 DEF InOrder
      <4>2. CASE f # p
        BY <1>0, <1>6, <2>1, <3>2, <4>2 DEF InOrder, MiddleGone
      <4>3. QED
        BY <4>1, <4>2
    <3>6. pos[f] < pos[h] => r.prev[h] # Nil /\ pos[f] <= pos[r.prev[h]]
      <4>1. CASE h = n
        <5>1. d.prev[h] = e /\ d.tran[h] = t /\ r.prev[h] = p
          BY <1>0, <1>1, <1>6, <2>1, <4>1 DEF LinkOK, MiddleGone
        <5>2. d.tran[f] = t
          BY <2>1, <2>4, <5>1 DEF MiddleGone
        <5>3. pos[f] < pos[h] => pos[f] < pos[e]
          BY <3>2, <5>1, <5>2 DEF InOrder
        <5>4. QED
          BY <1>0, <1>6, <3>2, <5>1, <5>2, <5>3 DEF InOrder
      <4>2. CASE h # n
        BY <1>0, <1>6, <2>1, <3>2, <4>2 DEF InOrder, MiddleGone
      <4>3. QED
        BY <4>1, <4>2
    <3>7. QED
      BY <3>3, <3>4, <3>5, <3>6 DEF InOrder
  <2>5. QED
    BY <1>2, <2>2, <2>3, <2>4 DEF Consistent, Ordered
<1>7. QED
  BY <1>3, <1>4, <1>5, <1>6, FieldTypes

\* What linking a target finds among consistent chains.
LEMMA FoundConsistent ==
  ASSUME NEW on, NEW d \in Memory, Consistent(d, on), NEW s
  PROVE  \A f \in Found(d, s) :
           /\ f \in Nodes /\ f \in d.used /\ d.key[f] = s
           /\ d.head[f] \in on /\ d.str[d.head[f]] = s /\ d.tran[d.head[f]] = f
           /\ d.tail[f] \in on /\ d.tran[d.tail[f]] = f /\ d.next[d.tail[f]] = Nil
<1> SUFFICES ASSUME NEW f \in Found(d, s)
             PROVE  /\ f \in Nodes /\ f \in d.used /\ d.key[f] = s
                    /\ d.head[f] \in on /\ d.str[d.head[f]] = s /\ d.tran[d.head[f]] = f
                    /\ d.tail[f] \in on /\ d.tran[d.tail[f]] = f /\ d.next[d.tail[f]] = Nil
  OBVIOUS
<1>1. f \in Nodes /\ f \in d.used /\ d.key[f] = s
  BY DEF Found, Memory
<1>2. NodeOK(d, on, f)
  BY <1>1 DEF Consistent
<1>3. /\ d.head[f] \in on /\ d.tran[d.head[f]] = f
      /\ d.tail[f] \in on /\ d.tran[d.tail[f]] = f
  BY <1>2 DEF NodeOK
<1>4. LinkOK(d, on, d.head[f]) /\ LinkOK(d, on, d.tail[f])
  BY <1>3 DEF Consistent
<1>5. QED
  BY <1>1, <1>3, <1>4 DEF LinkOK

\* Linking among consistent chains never goes astray.
LEMMA LinkDefined ==
  ASSUME NEW on \in SUBSET Targets, NEW d \in Memory, Consistent(d, on),
         NEW e \in Targets, d.str[e] \in Strs
  PROVE  ~LinkUndefined(d, e)
<1> SUFFICES ASSUME NEW f \in Found(d, d.str[e])
             PROVE  d.tran[d.head[f]] # Nil /\ d.tail[d.tran[d.head[f]]] # Nil
  BY DEF LinkUndefined
<1>1. QED
  BY FoundConsistent, Addresses

\* A target without links joins consistent chains, at the end of its own.
LEMMA LinkConsistent ==
  ASSUME NEW on \in SUBSET Targets, NEW d \in Memory, Consistent(d, on),
         Linear(d, on), NEW e \in Targets \ on, d.str[e] \in Strs,
         Found(d, d.str[e]) = {} => d.prev[e] = Nil /\ d.next[e] = Nil,
         NEW d2, IsLinked(d, e, d2)
  PROVE  Consistent(d2, on \cup {e}) /\ Linear(d2, on \cup {e})
<1> DEFINE all == on \cup {e}
<1>0. /\ Nil \notin Targets /\ d.used \in SUBSET Nodes
      /\ d.prev \in [Targets -> Targets \cup {Nil}]
      /\ d.next \in [Targets -> Targets \cup {Nil}]
      /\ d.tran \in [Targets -> Nodes \cup {Nil}]
      /\ d.head \in [Nodes -> Targets \cup {Nil}]
      /\ d.tail \in [Nodes -> Targets \cup {Nil}]
      /\ d.key \in [Nodes -> Strs \cup {NoStr}]
  BY Addresses DEF Memory
<1>1. PICK pos \in [Targets -> Nat] : Ordered(d, on, pos)
  BY DEF Linear
<1>2. CASE /\ Found(d, d.str[e]) = {}
           /\ \E t \in Nodes \ d.used : d2 = LinkAlone(d, e, t)
  <2>1. PICK t \in Nodes \ d.used : d2 = LinkAlone(d, e, t)
    BY <1>2
  <2>2. Alone(d, d2, e, t)
    BY <2>1, LinkAloneFields
  <2>3. /\ d.prev[e] = Nil /\ d.next[e] = Nil
        /\ \A u \in d.used : d.key[u] # d.str[e]
    BY <1>2 DEF Found
  <2>4. \A f \in on : LinkOK(d, on, f) /\ d.tran[f] # t /\ f # e
    BY DEF Consistent, LinkOK
  <2>5. ASSUME NEW f \in all PROVE LinkOK(d2, all, f)
    <3>1. CASE f = e
      BY <1>0, <2>2, <2>3, <3>1 DEF LinkOK, Alone
    <3>2. CASE f \in on
      BY <1>0, <2>2, <2>4, <3>2 DEF LinkOK, Alone
    <3>3. QED
      BY <3>1, <3>2
  <2>6. ASSUME NEW u \in d2.used PROVE NodeOK(d2, all, u)
    <3>1. CASE u = t
      BY <1>0, <2>2, <2>3, <3>1 DEF NodeOK, Alone
    <3>2. CASE u \in d.used
      <4>1. NodeOK(d, on, u)
        BY <3>2 DEF Consistent
      <4>2. QED
        BY <1>0, <2>2, <2>3, <3>2, <4>1 DEF NodeOK, Alone
    <3>3. QED
      BY <2>2, <3>1, <3>2 DEF Alone
  <2>7. Ordered(d2, all, pos)
    BY <1>0, <1>1, <2>2, <2>3, <2>4 DEF Ordered, InOrder, Alone
  <2>8. QED
    BY <2>5, <2>6, <2>7 DEF Consistent, Linear
<1>3. ASSUME NEW f \in Found(d, d.str[e]), d2 = AppendTo(d, e, d.tran[d.head[f]])
      PROVE  Consistent(d2, on \cup {e}) /\ Linear(d2, on \cup {e})
  <2> DEFINE last == d.tail[f]
             pos2 == [pos EXCEPT ![e] = pos[last] + 1]
  <2>1. /\ f \in Nodes /\ f \in d.used /\ d.key[f] = d.str[e]
        /\ d.tran[d.head[f]] = f
        /\ last \in on /\ d.tran[last] = f /\ d.next[last] = Nil
    <3>1. d.str[e] \in Strs /\ f \in Found(d, d.str[e])
      OBVIOUS
    <3> HIDE DEF last
    <3> DEFINE s == d.str[e]
    <3> HIDE DEF s
    <3>2. /\ f \in Nodes /\ f \in d.used /\ d.key[f] = s
          /\ d.tran[d.head[f]] = f
          /\ d.tail[f] \in on /\ d.tran[d.tail[f]] = f /\ d.next[d.tail[f]] = Nil
      BY <3>1, FoundConsistent DEF s
    <3>3. QED
      BY <3>2 DEF s, last
  <2>2. Appended(d, d2, e, f, last)
    BY <1>3, <2>1, AppendFields
  <2> HIDE DEF last
  <2>3. \A g \in on : LinkOK(d, on, g) /\ g # e
    BY DEF Consistent
  <2>4. NodeOK(d, on, f) /\ d.tail[f] = last
    BY <2>1 DEF Consistent, last
  <2>5. ASSUME NEW g \in all PROVE LinkOK(d2, all, g)
    <3>1. CASE g = e
      BY <1>0, <2>1, <2>2, <2>3, <2>4, <3>1 DEF LinkOK, NodeOK, Appended
    <3>2. CASE g = last
      BY <1>0, <2>1, <2>2, <2>3, <2>4, <3>2 DEF LinkOK, NodeOK, Appended
    <3>3. CASE g \in on /\ g # last
      BY <1>0, <2>1, <2>2, <2>3, <2>4, <3>3 DEF LinkOK, NodeOK, Appended
    <3>4. QED
      BY <3>1, <3>2, <3>3
  <2>6. ASSUME NEW u \in d2.used PROVE NodeOK(d2, all, u)
    <3>1. u \in d.used /\ NodeOK(d, on, u)
      BY <2>2 DEF Consistent, Appended
    <3>2. QED
      BY <1>0, <2>1, <2>2, <2>3, <2>4, <3>1 DEF NodeOK, Appended
  <2>7. pos2 \in [Targets -> Nat]
    BY <2>1
  <2>8. ASSUME NEW g \in all, NEW h \in all, d2.tran[g] = d2.tran[h]
        PROVE  InOrder(d2, pos2, g, h)
    <3>1. \A k \in on : d.tran[k] = f => pos[k] <= pos[last]
      BY <1>0, <1>1, <2>1, <2>4 DEF Ordered, InOrder
    <3>2. CASE g = e /\ h = e
      BY <1>0, <2>1, <2>2, <3>2 DEF InOrder, Appended
    <3>3. CASE g = e /\ h \in on
      <4>1. d.tran[h] = f /\ pos2[h] < pos2[g] /\ d2.next[g] = Nil /\ h # e
        BY <1>0, <2>1, <2>2, <2>3, <2>8, <3>1, <3>3 DEF Appended
      <4>2. QED
        BY <1>0, <2>7, <4>1 DEF InOrder
    <3>4. CASE g \in on /\ h = e
      <4>1. /\ d.tran[g] = f /\ pos2[g] < pos2[h] /\ g # e
            /\ d2.prev[h] = last /\ pos[g] <= pos[last]
        BY <1>0, <2>1, <2>2, <2>3, <2>8, <3>1, <3>4 DEF Appended
      <4>2. g # last => pos[g] < pos[last]
        BY <1>1, <2>1, <3>4, <4>1 DEF Ordered, InOrder
      <4>3. d2.next[g] # Nil /\ pos2[d2.next[g]] <= pos2[h]
        <5>1. CASE g = last
          BY <1>0, <2>1, <2>2, <2>7, <3>4, <5>1 DEF Appended
        <5>2. CASE g # last
          <6>1. d2.next[g] = d.next[g]
            BY <1>0, <2>1, <2>2, <2>3, <3>4, <5>2 DEF Appended
          <6>2. d.next[g] # Nil /\ pos[d.next[g]] <= pos[last]
            BY <1>1, <2>1, <3>4, <4>1, <4>2, <5>2 DEF Ordered, InOrder
          <6>3. d.next[g] \in on /\ d.next[g] # e
            BY <2>3, <3>4, <6>2 DEF LinkOK
          <6>4. QED
            BY <2>1, <3>4, <6>1, <6>2, <6>3
        <5>3. QED
          BY <5>1, <5>2
      <4>4. QED
        BY <1>0, <2>1, <2>3, <2>7, <3>4, <4>1, <4>2, <4>3 DEF InOrder
    <3>5. CASE g \in on /\ h \in on
      <4>1. InOrder(d, pos, g, h)
        BY <1>0, <1>1, <2>2, <2>3, <2>8, <3>5 DEF Ordered, Appended
      <4>2. pos2[g] = pos[g] /\ pos2[h] = pos[h] /\ g # e /\ h # e
        BY <2>3, <3>5
      <4>3. d2.prev[h] = d.prev[h] /\ (g # last => d2.next[g] = d.next[g])
        BY <1>0, <2>1, <2>2, <3>5, <4>2 DEF Appended
      <4>4. g = last => d2.next[g] = e /\ d.next[g] = Nil
        BY <1>0, <2>1, <2>2, <3>5, <4>2 DEF Appended
      <4>5. /\ d.next[g] # Nil => pos2[d.next[g]] = pos[d.next[g]]
            /\ d.prev[h] # Nil => pos2[d.prev[h]] = pos[d.prev[h]]
        BY <2>3, <3>5 DEF LinkOK
      <4>6. QED
        BY <4>1, <4>2, <4>3, <4>4, <4>5 DEF InOrder
    <3>6. QED
      BY <3>2, <3>3, <3>4, <3>5
  <2>9. QED
    BY <2>5, <2>6, <2>7, <2>8 DEF Consistent, Linear, Ordered
<1>4. \A f \in Found(d, d.str[e]) : d.str[d.head[f]] = d.str[e]
  BY FoundConsistent
<1>5. QED
  BY <1>2, <1>3, <1>4, LinkCases

-----------------------------------------------------------------------------
(* The inductive invariant                                                 *)

\* It holds of empty memory.
LEMMA InitIInv == Init => IInv
<1> SUFFICES ASSUME Init PROVE IInv
  OBVIOUS
<1>1. /\ live = {} /\ crashed = FALSE /\ stale = 0 /\ db.used = {}
      /\ db \in Memory /\ MaxStale \in Nat
  BY ChainAssumption DEF Init, Memory
<1>2. TypeOK /\ HeadsSet(db)
  <2>1. stale \in 0 .. MaxStale
    BY <1>1
  <2>2. crashed \in BOOLEAN /\ live \in SUBSET Targets
    BY <1>1
  <2>3. QED
    BY <1>1, <2>1, <2>2 DEF TypeOK, HeadsSet
<1>3. Consistent(db, live)
  BY <1>1 DEF Consistent
<1>4. Linear(db, live)
  <2> DEFINE pos == [f \in Targets |-> 0]
  <2>1. pos \in [Targets -> Nat] /\ Ordered(db, live, pos)
    BY <1>1 DEF Ordered
  <2>2. QED
    BY <2>1 DEF Linear
<1>5. QED
  BY <1>1, <1>2, <1>3, <1>4 DEF IInv

\* A target that is added.
LEMMA AddIInv ==
  ASSUME IInv, NEW e \in Targets, NEW s \in Strs, Add(e, s)
  PROVE  IInv'
<1> DEFINE d == WipeTarget(db, e, s)
<1>1. /\ live \in SUBSET Targets /\ db \in Memory /\ HeadsSet(db)
      /\ stale \in 0 .. MaxStale /\ crashed \in BOOLEAN
  BY DEF IInv, TypeOK
<1>2. e \notin live /\ stale < MaxStale
  BY DEF Add, CountStale
<1>3. stale' \in 0 .. MaxStale /\ (stale' = 0 => stale = 0)
  BY <1>1, ChainAssumption DEF Add, CountStale
<1>4. Wiped(db, d, e, s)
  BY <1>1, WipeFields
<1>5. d \in Memory /\ HeadsSet(d) /\ d.str[e] \in Strs
  BY <1>1, <1>4 DEF Wiped, HeadsSet, Memory
<1>6. ASSUME stale = 0 PROVE Consistent(d, live) /\ Linear(d, live)
  <2>1. Consistent(db, live) /\ Linear(db, live) /\ e \in Targets \ live
    BY <1>2, <1>6 DEF IInv
  <2>2. \A f \in Targets \ {e} :
           /\ d.str[f] = db.str[f] /\ d.tran[f] = db.tran[f]
           /\ d.prev[f] = db.prev[f] /\ d.next[f] = db.next[f]
    BY <1>1, <1>4 DEF Wiped, Memory
  <2>3. d.used = db.used /\ d.key = db.key /\ d.head = db.head /\ d.tail = db.tail
    BY <1>4 DEF Wiped
  <2> HIDE DEF d
  <2>4. QED
    BY <1>1, <1>5, <2>1, <2>2, <2>3, OutsideConsistent
<1>7. d.prev[e] = Nil /\ d.next[e] = Nil
  BY <1>1, <1>4 DEF Wiped, Memory
<1>8. CASE LinkUndefined(d, e)
  <2>1. stale # 0
    BY <1>1, <1>5, <1>6, <1>8, LinkDefined
  <2>2. live' = live /\ db' = db /\ crashed' = TRUE
    BY <1>8 DEF Add
  <2>3. QED
    BY <1>1, <1>3, <2>1, <2>2 DEF IInv, TypeOK, HeadsSet
<1>9. CASE ~LinkUndefined(d, e)
  <2>1. IsLinked(d, e, db') /\ live' = live \cup {e} /\ crashed' = crashed
    BY <1>9 DEF Add
  <2> HIDE DEF d
  <2>2. db' \in Memory /\ HeadsSet(db')
    BY <1>5, <2>1, LinkType
  <2>3. ASSUME stale = 0 PROVE Consistent(db', live') /\ Linear(db', live')
    <3>1. Consistent(d, live) /\ Linear(d, live) /\ e \in Targets \ live
      BY <1>2, <1>6, <2>3
    <3>2. QED
      BY <1>1, <1>5, <1>7, <2>1, <3>1, LinkConsistent
  <2>4. QED
    BY <1>1, <1>3, <2>1, <2>2, <2>3 DEF IInv, TypeOK, HeadsSet
<1>10. QED
  BY <1>8, <1>9

\* A target that is deleted.
LEMMA DeleteIInv ==
  ASSUME IInv, NEW e \in live, Delete(e)
  PROVE  IInv'
<1> DEFINE d == Unlink(db, e)
<1>1. /\ live \in SUBSET Targets /\ db \in Memory /\ HeadsSet(db)
      /\ stale \in 0 .. MaxStale /\ crashed \in BOOLEAN /\ e \in Targets
  BY DEF IInv, TypeOK
<1>2. stale' \in 0 .. MaxStale /\ (stale' = 0 => stale = 0)
  BY <1>1, ChainAssumption DEF Delete, CountStale
<1>3. d \in Memory /\ HeadsSet(d)
  BY <1>1, UnlinkType
<1>4. ASSUME stale = 0
      PROVE  /\ Consistent(d, live \ {e}) /\ Linear(d, live \ {e})
             /\ ~UnlinkUndefined(db, e)
  <2>1. Consistent(db, live) /\ Linear(db, live)
    BY <1>4 DEF IInv
  <2>2. PICK pos \in [Targets -> Nat] : Ordered(db, live, pos)
    BY <2>1 DEF Linear
  <2>3. QED
    BY <1>1, <2>1, <2>2, UnlinkConsistent DEF Linear
<1> HIDE DEF d
<1>5. CASE UnlinkUndefined(db, e)
  <2>1. stale # 0 /\ live' = live /\ db' = db /\ crashed' = TRUE
    BY <1>4, <1>5 DEF Delete
  <2>2. QED
    BY <1>1, <1>2, <2>1 DEF IInv, TypeOK, HeadsSet
<1>6. CASE ~UnlinkUndefined(db, e)
  <2>1. db' = WipeTarget(d, e, NoStr) /\ live' = live \ {e} /\ crashed' = crashed
    BY <1>6 DEF Delete, d
  <2>2. Wiped(d, db', e, NoStr)
    BY <1>1, <1>3, <2>1, WipeFields
  <2>3. db' \in Memory /\ HeadsSet(db')
    BY <1>3, <2>2 DEF Wiped, HeadsSet
  <2>4. ASSUME stale = 0 PROVE Consistent(db', live') /\ Linear(db', live')
    <3>1. \A f \in Targets \ {e} :
             /\ db'.str[f] = d.str[f] /\ db'.tran[f] = d.tran[f]
             /\ db'.prev[f] = d.prev[f] /\ db'.next[f] = d.next[f]
      BY <1>3, <2>2 DEF Wiped, Memory
    <3>2. /\ db'.used = d.used /\ db'.key = d.key
          /\ db'.head = d.head /\ db'.tail = d.tail
      BY <2>2 DEF Wiped
    <3>3. live' \in SUBSET Targets /\ e \in Targets \ live'
      BY <1>1, <2>1
    <3>4. Consistent(d, live') /\ Linear(d, live')
      BY <1>4, <2>1, <2>4
    <3>5. QED
      BY <1>3, <2>3, <3>1, <3>2, <3>3, <3>4, OutsideConsistent
  <2>5. QED
    BY <1>1, <1>2, <2>1, <2>3, <2>4 DEF IInv, TypeOK, HeadsSet
<1>7. QED
  BY <1>5, <1>6

\* A target that is renamed, without leaving stale links if none were left.
LEMMA RenameIInv ==
  ASSUME IInv, NEW e \in live, NEW s \in Strs, Rename(e, s)
  PROVE  IInv'
<1> DEFINE c == Unlink(db, e)
           d == [c EXCEPT !.str[e] = s]
<1>1. /\ live \in SUBSET Targets /\ db \in Memory /\ HeadsSet(db)
      /\ stale \in 0 .. MaxStale /\ crashed \in BOOLEAN /\ e \in Targets
  BY DEF IInv, TypeOK
<1>2. /\ stale' \in 0 .. MaxStale
      /\ stale' = 0 => stale = 0 /\ ~LeavesStaleLinks(e, s)
  BY <1>1, ChainAssumption DEF Rename, CountStale
<1>3. c \in Memory /\ HeadsSet(c)
  BY <1>1, UnlinkType
<1>4. ASSUME stale = 0
      PROVE  /\ Consistent(c, live \ {e}) /\ Linear(c, live \ {e})
             /\ ~UnlinkUndefined(db, e)
  <2>1. Consistent(db, live) /\ Linear(db, live)
    BY <1>4 DEF IInv
  <2>2. PICK pos \in [Targets -> Nat] : Ordered(db, live, pos)
    BY <2>1 DEF Linear
  <2>3. QED
    BY <1>1, <2>1, <2>2, UnlinkConsistent DEF Linear
<1>5. LeavesStaleLinks(e, s) <=>
        /\ db.prev[e] # Nil \/ db.next[e] # Nil
        /\ Found(c, s) = {}
  BY DEF LeavesStaleLinks
<1>6. ASSUME db.prev[e] = Nil, db.next[e] = Nil
      PROVE  c.prev[e] = Nil /\ c.next[e] = Nil
  <2>1. CASE db.tran[e] = Nil
    BY <1>6, <2>1 DEF Unlink
  <2>2. CASE db.tran[e] \in Nodes
    <3>1. OnlyGone(db, c, e, db.tran[e])
      BY <1>1, <1>6, <2>2, UnlinkOnlyFields
    <3>2. QED
      BY <1>6, <3>1 DEF OnlyGone
  <2>3. QED
    BY <1>1, <2>1, <2>2, FieldTypes
<1> HIDE DEF c
<1>7. /\ d \in Memory /\ d.str = [c.str EXCEPT ![e] = s]
      /\ d.prev = c.prev /\ d.next = c.next /\ d.tran = c.tran
      /\ d.used = c.used /\ d.key = c.key /\ d.head = c.head /\ d.tail = c.tail
  BY <1>1, <1>3, SetStrFields
<1>8. HeadsSet(d) /\ d.str[e] = s
  BY <1>1, <1>3, <1>7 DEF HeadsSet, Memory
<1> HIDE DEF d
<1>9. ASSUME stale = 0
      PROVE  Consistent(d, live \ {e}) /\ Linear(d, live \ {e})
  <2>1. \A f \in Targets \ {e} :
           /\ d.str[f] = c.str[f] /\ d.tran[f] = c.tran[f]
           /\ d.prev[f] = c.prev[f] /\ d.next[f] = c.next[f]
    BY <1>3, <1>7 DEF Memory
  <2>2. live \ {e} \in SUBSET Targets /\ e \in Targets \ (live \ {e})
    BY <1>1
  <2>3. QED
    BY <1>3, <1>4, <1>7, <1>9, <2>1, <2>2, OutsideConsistent
<1>10. Found(d, s) = Found(c, s)
  BY <1>7 DEF Found
<1>11. CASE UnlinkUndefined(db, e) \/ LinkUndefined(d, e)
  <2>1. stale # 0
    <3>1. live \ {e} \in SUBSET Targets
      BY <1>1
    <3>2. QED
      BY <1>1, <1>4, <1>7, <1>8, <1>9, <1>11, <3>1, LinkDefined
  <2>2. live' = live /\ db' = db /\ crashed' = TRUE
    BY <1>11 DEF Rename, c, d
  <2>3. QED
    BY <1>1, <1>2, <2>1, <2>2 DEF IInv, TypeOK, HeadsSet
<1>12. CASE ~(UnlinkUndefined(db, e) \/ LinkUndefined(d, e))
  <2>1. IsLinked(d, e, db') /\ live' = live /\ crashed' = crashed
    BY <1>12 DEF Rename, c, d
  <2>2. db' \in Memory /\ HeadsSet(db')
    BY <1>1, <1>7, <1>8, <2>1, LinkType
  <2>3. ASSUME stale' = 0 PROVE Consistent(db', live') /\ Linear(db', live')
    <3> DEFINE off == live \ {e}
    <3>1. off \in SUBSET Targets /\ e \in Targets \ off /\ live' = off \cup {e}
      BY <1>1, <2>1
    <3>2. Found(d, d.str[e]) = {} => d.prev[e] = Nil /\ d.next[e] = Nil
      BY <1>2, <1>5, <1>6, <1>7, <1>8, <1>10, <2>3
    <3>3. Consistent(d, off) /\ Linear(d, off)
      BY <1>2, <1>9, <2>3
    <3>4. d \in Memory /\ d.str[e] \in Strs
      BY <1>7, <1>8
    <3> HIDE DEF off
    <3>5. QED
      BY <2>1, <3>1, <3>2, <3>3, <3>4, LinkConsistent
  <2>4. QED
    BY <1>1, <1>2, <2>1, <2>2, <2>3 DEF IInv, TypeOK, HeadsSet
<1>13. QED
  BY <1>11, <1>12

\* Every step keeps it.
LEMMA StepIInv == IInv /\ [Next]_vars => IInv'
<1> SUFFICES ASSUME IInv, [Next]_vars PROVE IInv'
  OBVIOUS
<1>1. CASE UNCHANGED vars
  BY <1>1 DEF vars, IInv, TypeOK, HeadsSet, Consistent, LinkOK, NodeOK, Found,
              Linear, Ordered, InOrder
<1>2. QED
  BY <1>1, AddIInv, DeleteIInv, RenameIInv DEF Next

\* The invariant holds throughout.
LEMMA Invariance == Spec => []IInv
<1>1. QED
  BY InitIInv, StepIInv, PTL DEF Spec

-----------------------------------------------------------------------------
(* The properties                                                          *)

\* Whatever is added, deleted and renamed, even after stale links, the memory
\* holds what its C types say.
THEOREM TypeCorrect == Spec => []TypeOK
<1>1. IInv => TypeOK
  BY DEF IInv
<1>2. QED
  BY <1>1, Invariance, PTL

\* For any number of targets, nodes and strings, the links, ends and nodes of
\* every chain agree until a rename leaves stale links.
THEOREM LinksAreConsistent == Spec => []LinksConsistent
<1>1. IInv => LinksConsistent
  BY DEF IInv, LinksConsistent
<1>2. QED
  BY <1>1, Invariance, PTL

\* For any number of targets, nodes and strings, no chain operation follows a
\* null pointer or drops a node twice until a rename leaves stale links.
THEOREM NeverCrashes == Spec => []NoCrash
<1>1. IInv => NoCrash
  BY DEF IInv, NoCrash
<1>2. QED
  BY <1>1, Invariance, PTL

-----------------------------------------------------------------------------
(* Following links                                                         *)

\* The recursion of Steps has the solution it asks for.
LEMMA StepsExist ==
  ASSUME NEW start, NEW link
  PROVE  Chases(Steps(start, link), start, link, Nil, MaxTargets)
<1>1. \E f : Chases(f, start, link, Nil, MaxTargets)
  BY ChaseExists, ChainAssumption
<1>2. Steps(start, link) = CHOOSE f : Chases(f, start, link, Nil, MaxTargets)
  BY DEF Steps, Chases
<1>3. QED
  BY <1>1, <1>2

\* One place after the other.
LEMMA StepsAt ==
  ASSUME NEW start, NEW link, NEW at, at = Steps(start, link)
  PROVE  \A k \in 0 .. MaxTargets :
           at[k] = IF k = 0 THEN start
                   ELSE IF at[k - 1] = Nil THEN Nil ELSE link[at[k - 1]]
<1>1. at = [k \in 0 .. MaxTargets |->
              IF k = 0 THEN start
              ELSE IF at[k - 1] = Nil THEN Nil ELSE link[at[k - 1]]]
  BY StepsExist DEF Chases
<1>2. QED
  BY <1>1

\* A sequence goes from start along link to the null pointer.
Leads(start, link, w) ==
  /\ w \in Seq(Targets) /\ Len(w) \in 1 .. MaxTargets
  /\ w[1] = start
  /\ \A i \in 1 .. Len(w) - 1 : link[w[i]] = w[i + 1]
  /\ link[w[Len(w)]] = Nil

\* Then it is what following the link meets.
LEMMA FollowIs ==
  ASSUME NEW start, NEW link, NEW w, Leads(start, link, w)
  PROVE  Follow(start, link) = w
<1> DEFINE at == Steps(start, link)
           n == Len(w)
           S == {k \in Nat : k <= MaxTargets =>
                               at[k] = IF k < n THEN w[k + 1] ELSE Nil}
<1>1. /\ MaxTargets \in Nat /\ n \in 1 .. MaxTargets
      /\ w \in [1 .. n -> Targets] /\ Nil \notin Targets
  BY ChainAssumption, Addresses DEF Leads
<1>2. /\ w[1] = start /\ link[w[n]] = Nil
      /\ \A i \in 1 .. n - 1 : link[w[i]] = w[i + 1]
  BY DEF Leads
<1>3. \A k \in 0 .. MaxTargets :
        at[k] = IF k = 0 THEN start
                ELSE IF at[k - 1] = Nil THEN Nil ELSE link[at[k - 1]]
  <2>1. at = Steps(start, link)
    OBVIOUS
  <2> HIDE DEF at
  <2>2. QED
    BY <2>1, StepsAt
<1> HIDE DEF at, n
<1>4. 0 \in S
  BY <1>1, <1>2, <1>3
<1>5. ASSUME NEW k \in Nat, k \in S
      PROVE  k + 1 \in S
  <2>1. SUFFICES ASSUME k + 1 <= MaxTargets
                 PROVE  at[k + 1] = IF k + 1 < n THEN w[k + 2] ELSE Nil
    BY <1>1
  <2>2. at[k] = IF k < n THEN w[k + 1] ELSE Nil
    BY <1>1, <1>5, <2>1
  <2>3. at[k + 1] = IF at[k] = Nil THEN Nil ELSE link[at[k]]
    BY <1>1, <1>3, <2>1
  <2>4. CASE k >= n
    BY <1>1, <2>2, <2>3, <2>4
  <2>5. CASE k + 1 < n
    <3>1. w[k + 1] \in Targets /\ link[w[k + 1]] = w[k + 2]
      BY <1>1, <1>2, <2>5
    <3>2. QED
      BY <1>1, <2>2, <2>3, <2>5, <3>1
  <2>6. CASE k + 1 = n
    BY <1>1, <1>2, <2>2, <2>3, <2>6
  <2>7. QED
    BY <1>1, <2>4, <2>5, <2>6
<1>6. \A k \in 0 .. MaxTargets : at[k] = IF k < n THEN w[k + 1] ELSE Nil
  <2>1. Nat \subseteq S
    <3> HIDE DEF S
    <3>1. QED
      BY <1>4, <1>5, SetInduction
  <2>2. QED
    BY <1>1, <2>1
<1>7. ASSUME NEW j \in 1 .. MaxTargets + 1
      PROVE  /\ at[j - 1] # Nil <=> j \in 1 .. n
             /\ j \in 1 .. n => at[j - 1] = w[j]
  BY <1>1, <1>6
<1>8. {j \in 1 .. MaxTargets + 1 : at[j - 1] # Nil} = 1 .. n
  BY <1>1, <1>7
<1>9. Follow(start, link) = [k \in 1 .. n |-> at[k - 1]]
  BY <1>8 DEF Follow, at
<1>10. QED
  BY <1>1, <1>7, <1>9

-----------------------------------------------------------------------------
(* The chain of a node                                                     *)

\* The members of the chain of a node.
Members(d, on, t) == {e \in on : d.tran[e] = t}

\* w is the chain of node t, from its head to its tail.
IsChain(d, on, t, w) ==
  /\ w \in Seq(on) /\ Len(w) \in 1 .. MaxTargets
  /\ Range(w) = Members(d, on, t)
  /\ IsInjective(w)
  /\ w[1] = d.head[t] /\ w[Len(w)] = d.tail[t]
  /\ \A i \in 1 .. Len(w) - 1 : d.next[w[i]] = w[i + 1] /\ d.prev[w[i + 1]] = w[i]

\* What the consistency of the links and the order of pos say of the members of
\* one node.
LEMMA MemberFacts ==
  ASSUME NEW on \in SUBSET Targets, NEW d \in Memory, Consistent(d, on),
         NEW pos \in [Targets -> Nat], Ordered(d, on, pos),
         NEW t \in d.used, NEW e \in Members(d, on, t)
  PROVE  LET M == Members(d, on, t) IN
         /\ e \in Targets /\ e # Nil
         /\ d.head[t] \in M
         /\ d.prev[e] = Nil => d.head[t] = e
         /\ d.next[e] = Nil => d.tail[t] = e
         /\ d.prev[e] # Nil => /\ d.prev[e] \in M /\ d.next[d.prev[e]] = e
                               /\ pos[d.prev[e]] < pos[e]
         /\ d.next[e] # Nil => /\ d.next[e] \in M /\ d.prev[d.next[e]] = e
                               /\ pos[e] < pos[d.next[e]]
<1>1. e \in on /\ d.tran[e] = t /\ e \in Targets /\ e # Nil
  BY Addresses DEF Members
<1>2. NodeOK(d, on, t) /\ LinkOK(d, on, e)
  BY <1>1 DEF Consistent
<1>3. \A f, g \in Members(d, on, t) : d.next[f] = g => pos[f] < pos[g]
  BY DEF Ordered, InOrder, Members
<1>4. d.head[t] \in Members(d, on, t)
  BY <1>2 DEF NodeOK, Members
<1>5. d.prev[e] # Nil => d.prev[e] \in Members(d, on, t) /\ d.next[d.prev[e]] = e
  BY <1>1, <1>2 DEF LinkOK, Members
<1>6. d.next[e] # Nil => d.next[e] \in Members(d, on, t) /\ d.prev[d.next[e]] = e
  BY <1>1, <1>2 DEF LinkOK, Members
<1>7. QED
  BY <1>1, <1>2, <1>3, <1>4, <1>5, <1>6 DEF LinkOK

\* Following next from the head of a node goes once through each of its members, in
\* the order of pos, and ends at the tail.
LEMMA ChainExists ==
  ASSUME NEW on \in SUBSET Targets, NEW d \in Memory, Consistent(d, on),
         Linear(d, on), NEW t \in d.used
  PROVE  \E w : IsChain(d, on, t, w)
<1> DEFINE M == Members(d, on, t)
           at == Steps(d.head[t], d.next)
<1>1. PICK pos \in [Targets -> Nat] : Ordered(d, on, pos)
  BY DEF Linear
<1>2. MaxTargets \in Nat /\ M \subseteq Targets /\ M \subseteq on /\ Nil \notin M
  BY ChainAssumption, Addresses DEF Members
<1>3. /\ d.head[t] \in M /\ d.tail[t] \in M
      /\ \A e \in M : d.prev[e] = Nil => d.head[t] = e
      /\ \A e \in M : d.next[e] = Nil => d.tail[t] = e
  <2>1. NodeOK(d, on, t)
    BY DEF Consistent
  <2>2. d.head[t] \in M /\ d.tail[t] \in M
    BY <2>1 DEF NodeOK, Members
  <2>3. \A e \in M : (d.prev[e] = Nil => d.head[t] = e) /\ (d.next[e] = Nil => d.tail[t] = e)
    BY <1>1, MemberFacts
  <2>4. QED
    BY <2>2, <2>3
<1>4. \A e \in M : d.next[e] # Nil =>
        d.next[e] \in M /\ d.prev[d.next[e]] = e /\ pos[e] < pos[d.next[e]]
  BY <1>1, MemberFacts
<1>5. \A e \in M : d.prev[e] # Nil =>
        d.prev[e] \in M /\ d.next[d.prev[e]] = e /\ pos[d.prev[e]] < pos[e]
  BY <1>1, MemberFacts
<1>6. \A k \in 0 .. MaxTargets :
        at[k] = IF k = 0 THEN d.head[t]
                ELSE IF at[k - 1] = Nil THEN Nil ELSE d.next[at[k - 1]]
  <2>1. at = Steps(d.head[t], d.next)
    OBVIOUS
  <2> HIDE DEF at
  <2>2. QED
    BY <2>1, StepsAt
<1> HIDE DEF M, at
<1>7. \A k \in 0 .. MaxTargets :
        at[k] # Nil => /\ at[k] \in M
                       /\ \A j \in 0 .. k - 1 : at[j] \in M /\ pos[at[j]] < pos[at[k]]
  <2> DEFINE S == {k \in Nat : k <= MaxTargets /\ at[k] # Nil =>
                     /\ at[k] \in M
                     /\ \A j \in 0 .. k - 1 : at[j] \in M /\ pos[at[j]] < pos[at[k]]}
  <2>1. 0 \in S
    BY <1>2, <1>3, <1>6
  <2>2. ASSUME NEW k \in Nat, k \in S
        PROVE  k + 1 \in S
    <3>1. SUFFICES ASSUME k + 1 <= MaxTargets, at[k + 1] # Nil
                   PROVE  /\ at[k + 1] \in M
                          /\ \A j \in 0 .. k : at[j] \in M /\ pos[at[j]] < pos[at[k + 1]]
      OBVIOUS
    <3>2. at[k] # Nil /\ at[k + 1] = d.next[at[k]]
      BY <1>2, <1>6, <3>1
    <3>3. /\ at[k] \in M
          /\ \A j \in 0 .. k - 1 : at[j] \in M /\ pos[at[j]] < pos[at[k]]
      BY <1>2, <2>2, <3>1, <3>2
    <3>4. at[k + 1] \in M /\ pos[at[k]] < pos[at[k + 1]]
      BY <1>4, <3>1, <3>2, <3>3
    <3>5. \A j \in 0 .. k : j = k \/ j \in 0 .. k - 1
      OBVIOUS
    <3>6. \A e \in M : pos[e] \in Nat
      BY <1>1, <1>2
    <3>7. QED
      BY <3>3, <3>4, <3>5, <3>6
  <2>3. Nat \subseteq S
    <3> HIDE DEF S
    <3>1. QED
      BY <2>1, <2>2, SetInduction
  <2>4. QED
    BY <1>2, <2>3
<1>8. \A e \in M : pos[e] \in Nat
  BY <1>1, <1>2
<1>9. at[MaxTargets] = Nil
  <2>1. SUFFICES ASSUME at[MaxTargets] # Nil PROVE FALSE
    OBVIOUS
  <2> DEFINE f == [k \in 0 .. MaxTargets |-> at[k]]
  <2>2. \A k \in 0 .. MaxTargets : at[k] \in M
    BY <1>2, <1>7, <2>1
  <2>3. \A k \in 0 .. MaxTargets : \A j \in 0 .. k - 1 : pos[at[j]] < pos[at[k]]
    BY <1>2, <1>7, <2>2
  <2>4. f \in [0 .. MaxTargets -> Targets]
    BY <1>2, <2>2
  <2>5. /\ IsFiniteSet(0 .. MaxTargets) /\ Cardinality(0 .. MaxTargets) = MaxTargets + 1
        /\ IsFiniteSet(Targets) /\ Cardinality(Targets) = MaxTargets
    BY <1>2, FS_Interval DEF Targets
  <2>6. Cardinality(Targets) < Cardinality(0 .. MaxTargets)
    BY <1>2, <2>5
  <2>7. PICK x, y \in 0 .. MaxTargets : x # y /\ f[x] = f[y]
    <3> HIDE DEF f
    <3>1. QED
      BY <2>4, <2>5, <2>6, FS_PigeonHole
  <2>8. x \in 0 .. y - 1 \/ y \in 0 .. x - 1
    BY <1>2, <2>7
  <2>9. pos[at[x]] < pos[at[y]] \/ pos[at[y]] < pos[at[x]]
    BY <2>3, <2>8
  <2>10. at[x] = at[y] /\ pos[at[x]] \in Nat
    BY <1>8, <2>2, <2>7
  <2>11. QED
    BY <2>9, <2>10
<1>10. PICK n \in 1 .. MaxTargets : at[n] = Nil /\ \A k \in 0 .. n - 1 : at[k] # Nil
  <2> DEFINE N == {k \in 0 .. MaxTargets : at[k] = Nil}
  <2>1. MaxTargets \in N /\ N \subseteq Nat
    BY <1>2, <1>9
  <2>2. PICK n \in N : \A k \in N : n <= k
    <3> HIDE DEF N
    <3>1. QED
      BY <2>1, LeastElement
  <2>3. n # 0
    BY <1>2, <1>3, <1>6, <2>2
  <2>4. \A k \in 0 .. n - 1 : at[k] # Nil
    BY <1>2, <2>2
  <2>5. QED
    BY <1>2, <2>2, <2>3, <2>4
<1> DEFINE w == [i \in 1 .. n |-> at[i - 1]]
<1>11. /\ w \in [1 .. n -> M] /\ w \in Seq(M) /\ Len(w) = n
       /\ w \in Seq(on)
  <2>1. \A i \in 1 .. n : at[i - 1] \in M
    BY <1>2, <1>7, <1>10
  <2>2. w \in [1 .. n -> M]
    BY <2>1
  <2> HIDE DEF w
  <2>3. QED
    BY <1>2, <1>10, <2>2
<1>12. IsInjective(w)
  <2> SUFFICES ASSUME NEW i \in 1 .. n, NEW j \in 1 .. n, w[i] = w[j]
               PROVE  i = j
    BY DEF IsInjective
  <2>1. at[i - 1] = at[j - 1] /\ at[i - 1] \in M
    BY <1>11
  <2>2. ~ (i - 1 \in 0 .. (j - 1) - 1)
    BY <1>2, <1>7, <1>8, <1>10, <2>1
  <2>3. ~ (j - 1 \in 0 .. (i - 1) - 1)
    BY <1>2, <1>7, <1>8, <1>10, <2>1
  <2>4. QED
    BY <1>2, <2>2, <2>3
<1>13. \A i \in 1 .. n - 1 : d.next[w[i]] = w[i + 1] /\ d.prev[w[i + 1]] = w[i]
  <2> SUFFICES ASSUME NEW i \in 1 .. n - 1
               PROVE  d.next[w[i]] = w[i + 1] /\ d.prev[w[i + 1]] = w[i]
    OBVIOUS
  <2>1. w[i] = at[i - 1] /\ w[i + 1] = at[i] /\ at[i - 1] # Nil /\ at[i] # Nil
    BY <1>2, <1>10
  <2>2. at[i] = d.next[at[i - 1]]
    BY <1>2, <1>6, <1>10, <2>1
  <2>3. w[i] \in M
    BY <1>2, <1>11
  <2>4. QED
    BY <1>4, <2>1, <2>2, <2>3
<1>14. w[1] = d.head[t] /\ d.next[w[n]] = Nil /\ w[n] = d.tail[t]
  <2>1. w[1] = d.head[t]
    BY <1>2, <1>6, <1>10
  <2>2. w[n] = at[n - 1] /\ at[n - 1] # Nil /\ w[n] \in M
    BY <1>2, <1>10, <1>11
  <2>3. at[n] = d.next[at[n - 1]]
    BY <1>2, <1>6, <1>10, <2>2
  <2>4. QED
    BY <1>3, <1>10, <2>1, <2>2, <2>3
<1>15. M \subseteq Range(w)
  <2> DEFINE P == {pos[e] : e \in M \ Range(w)}
  <2>1. SUFFICES ASSUME P # {} PROVE FALSE
    OBVIOUS
  <2>2. P \subseteq Nat
    BY <1>8
  <2>3. PICK m \in P : \A k \in P : m <= k
    <3> HIDE DEF P
    <3>1. QED
      BY <2>1, <2>2, LeastElement
  <2>4. PICK e \in M \ Range(w) : m = pos[e]
    BY <2>3
  <2>5. \A i \in 1 .. n : w[i] # e
    BY <2>4 DEF Range
  <2>6. d.prev[e] # Nil
    BY <1>2, <1>3, <1>10, <1>14, <2>4, <2>5
  <2>7. /\ d.prev[e] \in M /\ d.next[d.prev[e]] = e
        /\ pos[d.prev[e]] < pos[e]
    BY <1>5, <2>4, <2>6
  <2> HIDE DEF w
  <2>8. d.prev[e] \in Range(w)
    <3>1. SUFFICES ASSUME d.prev[e] \notin Range(w) PROVE FALSE
      OBVIOUS
    <3>2. pos[d.prev[e]] \in P
      BY <2>7, <3>1
    <3> HIDE DEF P
    <3>3. m <= pos[d.prev[e]] /\ m = pos[e]
      BY <2>3, <2>4, <3>2
    <3>4. pos[d.prev[e]] \in Nat /\ pos[e] \in Nat /\ pos[d.prev[e]] < pos[e]
      BY <1>8, <2>4, <2>7
    <3>5. QED
      BY <3>3, <3>4
  <2>9. PICK i \in 1 .. n : w[i] = d.prev[e]
    BY <1>11, <2>8 DEF Range
  <2>10. CASE i = n
    BY <1>2, <1>14, <2>4, <2>7, <2>9, <2>10
  <2>11. CASE i # n
    <3>1. i \in 1 .. n - 1 /\ i + 1 \in 1 .. n
      BY <1>2, <2>9, <2>11
    <3>2. QED
      BY <1>13, <2>5, <2>7, <2>9, <3>1
  <2>12. QED
    BY <2>10, <2>11
<1>16. Range(w) = M
  BY <1>11, <1>15 DEF Range
<1> HIDE DEF w
<1>17. QED
  BY <1>10, <1>11, <1>12, <1>13, <1>14, <1>16 DEF IsChain, M

-----------------------------------------------------------------------------
(* The walk of a string                                                    *)

\* Walk and WalkBack in any memory.
WalkOf(d, s) ==
  IF Found(d, s) = {} THEN <<>>
  ELSE Follow(d.head[CHOOSE t \in Found(d, s) : TRUE], d.next)

WalkBackOf(d, s) ==
  IF Found(d, s) = {} THEN <<>>
  ELSE Follow(d.tail[CHOOSE t \in Found(d, s) : TRUE], d.prev)

\* The targets that carry a string.
Carriers(d, on, s) == {e \in on : d.str[e] = s}

\* The members of a node carry its string, and only they do.
LEMMA MembersCarry ==
  ASSUME NEW on \in SUBSET Targets, NEW d \in Memory, Consistent(d, on), NEW s \in Strs
  PROVE  /\ Found(d, s) = {} => Carriers(d, on, s) = {}
         /\ \A t \in Found(d, s) : /\ Found(d, s) = {t} /\ t \in d.used
                                   /\ Carriers(d, on, s) = Members(d, on, t)
<1>1. \A e \in on : d.tran[e] \in d.used /\ d.key[d.tran[e]] = d.str[e]
  BY DEF Consistent, LinkOK
<1>2. \A t, u \in d.used : d.key[u] = d.key[t] => u = t
  BY DEF Consistent, NodeOK
<1>3. QED
  BY <1>1, <1>2 DEF Found, Members, Carriers

\* Turned round, a chain leads from the tail back to the head.
LEMMA ChainLeads ==
  ASSUME NEW on \in SUBSET Targets, NEW d \in Memory, Consistent(d, on),
         NEW t \in d.used, NEW w, IsChain(d, on, t, w)
  PROVE  /\ Leads(d.head[t], d.next, w)
         /\ Leads(d.tail[t], d.prev, Reverse(w))
<1> DEFINE n == Len(w)
<1>1. /\ w \in Seq(on) /\ n \in 1 .. MaxTargets /\ MaxTargets \in Nat
      /\ w[1] = d.head[t] /\ w[n] = d.tail[t]
      /\ \A i \in 1 .. n - 1 : d.next[w[i]] = w[i + 1] /\ d.prev[w[i + 1]] = w[i]
      /\ Range(w) = Members(d, on, t)
  BY ChainAssumption DEF IsChain
<1>2. w \in Seq(Targets) /\ w \in [1 .. n -> Targets]
  BY <1>1
<1>3. w[1] \in on /\ d.tran[w[1]] = t /\ w[n] \in on /\ d.tran[w[n]] = t
  <2>1. w[1] \in Range(w) /\ w[n] \in Range(w)
    BY <1>1, <1>2 DEF Range
  <2>2. QED
    BY <1>1, <2>1 DEF Members
<1>4. d.prev[w[1]] = Nil /\ d.next[w[n]] = Nil
  BY <1>1, <1>3 DEF Consistent, LinkOK
<1>5. Leads(d.head[t], d.next, w)
  BY <1>1, <1>2, <1>4 DEF Leads
<1> DEFINE r == Reverse(w)
<1>6. r = [i \in 1 .. n |-> w[(n - i) + 1]]
  BY DEF Reverse
<1>7. r \in [1 .. n -> Targets]
  BY <1>1, <1>2, <1>6
<1> HIDE DEF r
<1>8. r \in Seq(Targets) /\ Len(r) = n
  BY <1>1, <1>7
<1>9. r[1] = d.tail[t] /\ d.prev[r[n]] = Nil
  BY <1>1, <1>4, <1>6
<1>10. ASSUME NEW i \in 1 .. n - 1
       PROVE  d.prev[r[i]] = r[i + 1]
  <2>1. n - i \in 1 .. n - 1 /\ r[i] = w[(n - i) + 1] /\ r[i + 1] = w[n - i]
    BY <1>1, <1>6
  <2>2. QED
    BY <1>1, <2>1
<1>11. QED
  BY <1>1, <1>5, <1>8, <1>9, <1>10 DEF Leads, r

\* The walks of a string whose node is known.
LEMMA WalkIs ==
  ASSUME NEW on \in SUBSET Targets, NEW d \in Memory, Consistent(d, on),
         NEW s \in Strs, NEW t \in Found(d, s), NEW w, IsChain(d, on, t, w)
  PROVE  WalkOf(d, s) = w /\ WalkBackOf(d, s) = Reverse(w)
<1>1. Found(d, s) = {t} /\ t \in d.used
  BY MembersCarry
<1>2. (CHOOSE u \in Found(d, s) : TRUE) = t
  BY <1>1
<1>3. Leads(d.head[t], d.next, w) /\ Leads(d.tail[t], d.prev, Reverse(w))
  BY <1>1, ChainLeads
<1>4. QED
  BY <1>1, <1>2, <1>3, FollowIs DEF WalkOf, WalkBackOf

\* In a consistent memory the walk of a string meets its carriers once each, and
\* from the tail the same ones backwards.
LEMMA WalksExact ==
  ASSUME NEW on \in SUBSET Targets, NEW d \in Memory, Consistent(d, on),
         Linear(d, on), NEW s \in Strs
  PROVE  /\ Carriers(d, on, s) = Range(WalkOf(d, s))
         /\ IsInjective(WalkOf(d, s))
         /\ WalkBackOf(d, s) = Reverse(WalkOf(d, s))
         /\ WalkOf(d, s) \in Seq(on)
<1>1. CASE Found(d, s) = {}
  <2>1. WalkOf(d, s) = <<>> /\ WalkBackOf(d, s) = <<>>
    BY <1>1 DEF WalkOf, WalkBackOf
  <2>2. Carriers(d, on, s) = {}
    BY <1>1, MembersCarry
  <2>3. Range(<<>>) = {} /\ IsInjective(<<>>) /\ Reverse(<<>>) = <<>>
    BY DEF Range, IsInjective, Reverse
  <2>4. QED
    BY <2>1, <2>2, <2>3
<1>2. CASE Found(d, s) # {}
  <2>1. PICK t \in Found(d, s) : TRUE
    BY <1>2
  <2>2. t \in d.used /\ Carriers(d, on, s) = Members(d, on, t)
    BY MembersCarry
  <2>3. PICK w : IsChain(d, on, t, w)
    BY <2>2, ChainExists
  <2>4. WalkOf(d, s) = w /\ WalkBackOf(d, s) = Reverse(w)
    BY <2>3, WalkIs
  <2>5. QED
    BY <2>2, <2>3, <2>4 DEF IsChain
<1>3. QED
  BY <1>1, <1>2

\* For any number of targets, nodes and strings, and any additions, deletions and
\* renames until a rename leaves stale links: whoever follows the chain of a string
\* meets every live target that carries it once and nobody else.
THEOREM ChainsAreExact == Spec => []ChainsExact
<1>1. IInv => ChainsExact
  <2> SUFFICES ASSUME IInv, stale = 0, NEW s \in Strs
               PROVE  /\ {e \in live : db.str[e] = s} = Range(Walk(s))
                      /\ IsInjective(Walk(s))
                      /\ WalkBack(s) = Reverse(Walk(s))
    BY DEF ChainsExact
  <2>1. /\ live \in SUBSET Targets /\ db \in Memory
        /\ Consistent(db, live) /\ Linear(db, live)
    BY DEF IInv, TypeOK
  <2>2. /\ Walk(s) = WalkOf(db, s) /\ WalkBack(s) = WalkBackOf(db, s)
        /\ {e \in live : db.str[e] = s} = Carriers(db, live, s)
    BY DEF Walk, WalkBack, WalkOf, WalkBackOf, Carriers
  <2>3. QED
    BY <2>1, <2>2, WalksExact
<1>2. QED
  BY <1>1, Invariance, PTL

-----------------------------------------------------------------------------
(* What the operations do to the walks                                     *)

\* A sequence of different targets has room in the memory.
LEMMA ShortSeq ==
  ASSUME NEW on \in SUBSET Targets, NEW w \in Seq(on), IsInjective(w)
  PROVE  Len(w) <= MaxTargets
<1>1. MaxTargets \in Nat /\ Len(w) \in Nat /\ w \in [1 .. Len(w) -> Targets]
  BY ChainAssumption
<1>2. SUFFICES ASSUME Len(w) > MaxTargets PROVE FALSE
  BY <1>1
<1>3. /\ IsFiniteSet(1 .. Len(w)) /\ Cardinality(1 .. Len(w)) = Len(w)
      /\ IsFiniteSet(Targets) /\ Cardinality(Targets) = MaxTargets
  <2>1. ASSUME NEW n \in Nat
        PROVE  IsFiniteSet(1 .. n) /\ Cardinality(1 .. n) = n
    BY FS_Interval
  <2>2. QED
    BY <1>1, <2>1 DEF Targets
<1>4. PICK x, y \in 1 .. Len(w) : x # y /\ w[x] = w[y]
  BY <1>1, <1>2, <1>3, FS_PigeonHole
<1>5. QED
  BY <1>1, <1>4 DEF IsInjective

\* A chain whose ends, members and links stay is the chain it was.
LEMMA SameChain ==
  ASSUME NEW on, NEW d, NEW t, NEW w, IsChain(d, on, t, w), NEW on2, NEW r,
         r.head[t] = d.head[t], r.tail[t] = d.tail[t],
         Members(r, on2, t) = Members(d, on, t),
         \A e \in Members(d, on, t) : r.next[e] = d.next[e] /\ r.prev[e] = d.prev[e]
  PROVE  IsChain(r, on2, t, w)
<1>1. /\ w \in Seq(on) /\ Len(w) \in 1 .. MaxTargets
      /\ Range(w) = Members(d, on, t)
      /\ IsInjective(w)
      /\ w[1] = d.head[t] /\ w[Len(w)] = d.tail[t]
      /\ \A i \in 1 .. Len(w) - 1 : d.next[w[i]] = w[i + 1] /\ d.prev[w[i + 1]] = w[i]
  BY DEF IsChain
<1>2. MaxTargets \in Nat /\ Len(w) \in Nat
  BY ChainAssumption, <1>1
<1>3. \A i \in 1 .. Len(w) : w[i] \in Members(d, on, t)
  BY <1>1, <1>2 DEF Range
<1>4. w \in Seq(on2)
  <2>1. \A i \in 1 .. Len(w) : w[i] \in on2
    BY <1>3 DEF Members
  <2>2. w \in [1 .. Len(w) -> on2]
    BY <1>1, <2>1
  <2>3. QED
    BY <1>2, <2>2
<1>5. \A i \in 1 .. Len(w) - 1 : r.next[w[i]] = w[i + 1] /\ r.prev[w[i + 1]] = w[i]
  BY <1>1, <1>2, <1>3
<1>6. QED
  BY <1>1, <1>4, <1>5 DEF IsChain

\* So is the walk of its string.
LEMMA SameWalk ==
  ASSUME NEW on \in SUBSET Targets, NEW d \in Memory, Consistent(d, on), Linear(d, on),
         NEW on2 \in SUBSET Targets, NEW r \in Memory, Consistent(r, on2),
         NEW u \in Strs, Found(r, u) = Found(d, u),
         \A t \in Found(d, u) :
           /\ r.head[t] = d.head[t] /\ r.tail[t] = d.tail[t]
           /\ Members(r, on2, t) = Members(d, on, t)
           /\ \A e \in Members(d, on, t) : r.next[e] = d.next[e] /\ r.prev[e] = d.prev[e]
  PROVE  WalkOf(r, u) = WalkOf(d, u)
<1>1. CASE Found(d, u) = {}
  BY <1>1 DEF WalkOf
<1>2. CASE Found(d, u) # {}
  <2>1. PICK t \in Found(d, u) : TRUE
    BY <1>2
  <2>2. t \in d.used
    BY DEF Found
  <2>3. PICK w : IsChain(d, on, t, w)
    BY <2>2, ChainExists
  <2>4. IsChain(r, on2, t, w)
    BY <2>3, SameChain
  <2>5. WalkOf(d, u) = w
    BY <2>3, WalkIs
  <2>6. WalkOf(r, u) = w
    BY <2>4, WalkIs
  <2>7. QED
    BY <2>5, <2>6
<1>3. QED
  BY <1>1, <1>2

\* Changing a target outside the chains changes no walk.
LEMMA OutsideWalk ==
  ASSUME NEW on \in SUBSET Targets, NEW d \in Memory, Consistent(d, on), Linear(d, on),
         NEW e \in Targets \ on, NEW r \in Memory, Consistent(r, on),
         \A f \in Targets \ {e} : /\ r.tran[f] = d.tran[f]
                                  /\ r.prev[f] = d.prev[f] /\ r.next[f] = d.next[f],
         r.used = d.used, r.key = d.key, r.head = d.head, r.tail = d.tail,
         NEW u \in Strs
  PROVE  WalkOf(r, u) = WalkOf(d, u)
<1>1. Found(r, u) = Found(d, u)
  BY DEF Found
<1>2. \A t : Members(r, on, t) = Members(d, on, t)
  BY DEF Members
<1>3. \A t : \A f \in Members(d, on, t) : r.next[f] = d.next[f] /\ r.prev[f] = d.prev[f]
  BY DEF Members
<1>4. QED
  BY <1>1, <1>2, <1>3, SameWalk

\* Target e joins the walk of s at its end, every other walk stays.
JoinsWalk(d, r, e, s, u) ==
  WalkOf(r, u) = IF u = s THEN Append(WalkOf(d, u), e) ELSE WalkOf(d, u)

\* The walk of a string whose only carrier got a node of its own.
LEMMA AloneWalk ==
  ASSUME NEW on \in SUBSET Targets, NEW d \in Memory, Consistent(d, on),
         Linear(d, on), NEW e \in Targets \ on, NEW s \in Strs, d.str[e] = s,
         Found(d, s) = {}, NEW t \in Nodes \ d.used, NEW r, Alone(d, r, e, t),
         Consistent(r, on \cup {e}), NEW u \in Strs
  PROVE  JoinsWalk(d, r, e, s, u)
<1>1. /\ d.key \in [Nodes -> Strs \cup {NoStr}] /\ d.head \in [Nodes -> Targets \cup {Nil}]
      /\ d.tail \in [Nodes -> Targets \cup {Nil}] /\ d.tran \in [Targets -> Nodes \cup {Nil}]
      /\ d.used \in SUBSET Nodes /\ r \in Memory /\ on \cup {e} \in SUBSET Targets
  BY DEF Memory, Alone
<1>2. /\ r.used = d.used \cup {t} /\ r.key = [d.key EXCEPT ![t] = s]
      /\ r.head = [d.head EXCEPT ![t] = e] /\ r.tail = [d.tail EXCEPT ![t] = e]
      /\ r.tran = [d.tran EXCEPT ![e] = t]
      /\ r.prev = d.prev /\ r.next = d.next
  BY DEF Alone
<1>3. \A f \in on : d.tran[f] \in d.used
  BY DEF Consistent, LinkOK
<1>4. CASE u = s
  <2>1. t \in Found(r, s)
    BY <1>1, <1>2 DEF Found
  <2>2. Members(r, on \cup {e}, t) = {e}
    BY <1>1, <1>2, <1>3 DEF Members
  <2>3. 1 <= MaxTargets /\ MaxTargets \in Nat
    BY ChainAssumption DEF Targets
  <2>4. IsChain(r, on \cup {e}, t, <<e>>)
    <3>1. /\ <<e>> \in Seq(on \cup {e}) /\ Len(<<e>>) = 1 /\ <<e>>[1] = e
          /\ DOMAIN <<e>> = {1}
      OBVIOUS
    <3>2. Range(<<e>>) = {e} /\ IsInjective(<<e>>)
      BY <3>1 DEF Range, IsInjective
    <3>3. r.head[t] = e /\ r.tail[t] = e
      BY <1>1, <1>2
    <3>4. 1 .. Len(<<e>>) - 1 = {}
      BY <3>1
    <3>5. QED
      BY <2>2, <2>3, <3>1, <3>2, <3>3, <3>4 DEF IsChain
  <2>5. WalkOf(r, s) = <<e>>
    BY <1>1, <2>1, <2>4, WalkIs
  <2>6. WalkOf(d, s) = <<>>
    BY DEF WalkOf
  <2>7. QED
    BY <1>4, <2>5, <2>6 DEF JoinsWalk
<1>5. CASE u # s
  <2>1. Found(r, u) = Found(d, u)
    BY <1>1, <1>2, <1>5 DEF Found
  <2>2. ASSUME NEW v \in Found(d, u)
        PROVE  /\ r.head[v] = d.head[v] /\ r.tail[v] = d.tail[v]
               /\ Members(r, on \cup {e}, v) = Members(d, on, v)
    <3>1. v \in Nodes /\ v # t
      BY <1>1 DEF Found
    <3>2. QED
      BY <1>1, <1>2, <3>1 DEF Members
  <2> DEFINE all == on \cup {e}
  <2>3. all \in SUBSET Targets /\ Consistent(r, all) /\ r \in Memory
    BY <1>1
  <2>4. \A v : Members(r, all, v) = Members(r, on \cup {e}, v)
    OBVIOUS
  <2> HIDE DEF all
  <2>5. \A v \in Found(d, u) :
          /\ r.head[v] = d.head[v] /\ r.tail[v] = d.tail[v]
          /\ Members(r, all, v) = Members(d, on, v)
          /\ \A f \in Members(d, on, v) : r.next[f] = d.next[f] /\ r.prev[f] = d.prev[f]
    BY <1>2, <2>2, <2>4
  <2>6. WalkOf(r, u) = WalkOf(d, u)
    BY <2>1, <2>3, <2>5, SameWalk
  <2>7. QED
    BY <1>5, <2>6 DEF JoinsWalk
<1>6. QED
  BY <1>4, <1>5

\* The chain of a node with one more target behind its tail.
LEMMA AppendedChain ==
  ASSUME NEW on \in SUBSET Targets, NEW d \in Memory, NEW e \in Targets \ on,
         NEW t \in Nodes, NEW w, IsChain(d, on, t, w), NEW r, Appended(d, r, e, t, d.tail[t])
  PROVE  IsChain(r, on \cup {e}, t, Append(w, e))
<1> DEFINE n == Len(w)
           v == Append(w, e)
           all == on \cup {e}
<1>1. /\ w \in Seq(on) /\ n \in 1 .. MaxTargets
      /\ Range(w) = Members(d, on, t)
      /\ IsInjective(w)
      /\ w[1] = d.head[t] /\ w[n] = d.tail[t]
      /\ \A i \in 1 .. n - 1 : d.next[w[i]] = w[i + 1] /\ d.prev[w[i + 1]] = w[i]
  BY DEF IsChain
<1>2. /\ r.tran = [d.tran EXCEPT ![e] = t]
      /\ r.prev = [d.prev EXCEPT ![e] = w[n]]
      /\ r.next = [d.next EXCEPT ![w[n]] = e, ![e] = Nil]
      /\ r.tail = [d.tail EXCEPT ![t] = e]
      /\ r.head = d.head
  BY <1>1 DEF Appended
<1>3. /\ d.prev \in [Targets -> Targets \cup {Nil}] /\ d.next \in [Targets -> Targets \cup {Nil}]
      /\ d.tran \in [Targets -> Nodes \cup {Nil}] /\ d.tail \in [Nodes -> Targets \cup {Nil}]
  BY DEF Memory
<1>4. /\ MaxTargets \in Nat /\ w \in [1 .. n -> on] /\ n \in Nat /\ n >= 1
  BY <1>1, ChainAssumption
<1>5. /\ v \in Seq(all) /\ Len(v) = n + 1 /\ v[n + 1] = e
      /\ \A i \in 1 .. n : v[i] = w[i]
      /\ DOMAIN v = 1 .. n + 1
  <2>1. w \in Seq(all) /\ e \in all
    BY <1>1
  <2>2. QED
    BY <1>4, <2>1
<1> HIDE DEF n, v
<1>6. \A i \in 1 .. n : w[i] \in on /\ w[i] # e /\ w[i] \in Targets
  BY <1>4
<1>7. \A i, j \in 1 .. n : w[i] = w[j] => i = j
  BY <1>1, <1>4 DEF IsInjective
<1>8. IsInjective(v)
  <2> SUFFICES ASSUME NEW i \in 1 .. n + 1, NEW j \in 1 .. n + 1, v[i] = v[j]
               PROVE  i = j
    BY <1>5 DEF IsInjective
  <2>1. CASE i = n + 1 /\ j \in 1 .. n
    BY <1>5, <1>6, <2>1
  <2>2. CASE j = n + 1 /\ i \in 1 .. n
    BY <1>5, <1>6, <2>2
  <2>3. CASE i \in 1 .. n /\ j \in 1 .. n
    BY <1>5, <1>7, <2>3
  <2>4. QED
    BY <1>4, <2>1, <2>2, <2>3
<1>9. Len(v) \in 1 .. MaxTargets
  <2>1. all \in SUBSET Targets
    OBVIOUS
  <2>2. Len(v) <= MaxTargets
    <3> HIDE DEF all
    <3>1. QED
      BY <1>5, <1>8, <2>1, ShortSeq
  <2>3. QED
    BY <1>4, <1>5, <2>2
<1>10. Range(v) = Members(r, all, t)
  <2>1. Range(v) = Range(w) \cup {e}
    <3>1. Range(w) = {w[i] : i \in 1 .. n} /\ Range(v) = {v[i] : i \in 1 .. n + 1}
      BY <1>4, <1>5 DEF Range
    <3>2. QED
      BY <1>4, <1>5, <3>1
  <2>2. Members(r, all, t) = Members(d, on, t) \cup {e}
    BY <1>2, <1>3 DEF Members
  <2>3. QED
    BY <1>1, <2>1, <2>2
<1>11. v[1] = r.head[t] /\ v[Len(v)] = r.tail[t]
  BY <1>1, <1>2, <1>3, <1>4, <1>5
<1>12. ASSUME NEW i \in 1 .. n
       PROVE  r.next[v[i]] = v[i + 1] /\ r.prev[v[i + 1]] = v[i]
  <2>1. w[n] \in Targets /\ w[n] # e /\ w[i] \in Targets /\ w[i] # e
    BY <1>4, <1>6
  <2>2. CASE i = n
    BY <1>2, <1>3, <1>4, <1>5, <2>1, <2>2
  <2>3. CASE i # n
    <3>1. i \in 1 .. n - 1 /\ i + 1 \in 1 .. n
      BY <1>4, <2>3
    <3>2. w[i] # w[n] /\ w[i + 1] # e /\ w[i + 1] \in Targets
      BY <1>4, <1>6, <1>7, <2>3, <3>1
    <3>3. d.next[w[i]] = w[i + 1] /\ d.prev[w[i + 1]] = w[i]
      BY <1>1, <3>1 DEF n
    <3>4. QED
      BY <1>2, <1>3, <1>5, <2>1, <3>1, <3>2, <3>3
  <2>4. QED
    BY <2>2, <2>3
<1>13. QED
  <2>1. \A i \in 1 .. Len(v) - 1 : r.next[v[i]] = v[i + 1] /\ r.prev[v[i + 1]] = v[i]
    BY <1>4, <1>5, <1>12
  <2>2. IsChain(r, all, t, v)
    BY <1>5, <1>8, <1>9, <1>10, <1>11, <2>1 DEF IsChain
  <2>3. QED
    BY <2>2 DEF v

\* The walk of a string one more target of which joins its node.
LEMMA AppendWalk ==
  ASSUME NEW on \in SUBSET Targets, NEW d \in Memory, Consistent(d, on),
         Linear(d, on), NEW e \in Targets \ on, NEW s \in Strs,
         NEW t \in Found(d, s), NEW r, Appended(d, r, e, t, d.tail[t]),
         Consistent(r, on \cup {e}), NEW u \in Strs
  PROVE  JoinsWalk(d, r, e, s, u)
<1> DEFINE all == on \cup {e}
           last == d.tail[t]
<1>1. /\ t \in Nodes /\ t \in d.used /\ d.key[t] = s
      /\ last \in on /\ d.tran[last] = t
  BY FoundConsistent
<1>2. /\ r.tran = [d.tran EXCEPT ![e] = t]
      /\ r.prev = [d.prev EXCEPT ![e] = last]
      /\ r.next = [d.next EXCEPT ![last] = e, ![e] = Nil]
      /\ r.tail = [d.tail EXCEPT ![t] = e]
      /\ r.used = d.used /\ r.key = d.key /\ r.head = d.head
      /\ r \in Memory
  BY DEF Appended
<1>3. /\ d.prev \in [Targets -> Targets \cup {Nil}] /\ d.next \in [Targets -> Targets \cup {Nil}]
      /\ d.tran \in [Targets -> Nodes \cup {Nil}] /\ d.tail \in [Nodes -> Targets \cup {Nil}]
  BY DEF Memory
<1>4. Found(r, u) = Found(d, u) /\ Found(r, s) = Found(d, s)
  BY <1>2 DEF Found
<1>5. all \in SUBSET Targets /\ Consistent(r, all)
  OBVIOUS
<1>6. CASE u = s
  <2>1. PICK w : IsChain(d, on, t, w)
    BY <1>1, ChainExists
  <2>2. IsChain(r, all, t, Append(w, e))
    BY <1>1, <2>1, AppendedChain
  <2>3. WalkOf(d, s) = w
    BY <2>1, WalkIs
  <2> HIDE DEF all
  <2>4. WalkOf(r, s) = Append(w, e)
    BY <1>2, <1>4, <1>5, <2>2, WalkIs
  <2>5. QED
    BY <1>6, <2>3, <2>4 DEF JoinsWalk
<1>7. CASE u # s
  <2>1. ASSUME NEW v \in Found(d, u)
        PROVE  /\ r.head[v] = d.head[v] /\ r.tail[v] = d.tail[v]
               /\ Members(r, all, v) = Members(d, on, v)
               /\ \A f \in Members(d, on, v) : r.next[f] = d.next[f] /\ r.prev[f] = d.prev[f]
    <3>1. v \in Nodes /\ v # t
      BY <1>1, <1>7, FoundConsistent
    <3>2. r.head[v] = d.head[v] /\ r.tail[v] = d.tail[v]
      BY <1>1, <1>2, <1>3, <3>1
    <3>3. Members(r, all, v) = Members(d, on, v)
      BY <1>2, <1>3, <3>1 DEF Members
    <3>4. ASSUME NEW f \in Members(d, on, v)
          PROVE  r.next[f] = d.next[f] /\ r.prev[f] = d.prev[f]
      <4>1. f \in on /\ f # e /\ f # last /\ f \in Targets
        BY <1>1, <3>1 DEF Members
      <4>2. QED
        BY <1>2, <1>3, <4>1
    <3>5. QED
      BY <3>2, <3>3, <3>4
  <2>2. r \in Memory /\ Found(r, u) = Found(d, u)
    BY <1>2, <1>4
  <2> HIDE DEF all, last
  <2>3. WalkOf(r, u) = WalkOf(d, u)
    BY <1>5, <2>1, <2>2, SameWalk
  <2>4. QED
    BY <1>7, <2>3 DEF JoinsWalk
<1>8. QED
  BY <1>6, <1>7

\* Linking a target puts it at the end of the walk of its string.
LEMMA LinkWalks ==
  ASSUME NEW on \in SUBSET Targets, NEW d \in Memory, Consistent(d, on),
         Linear(d, on), NEW e \in Targets \ on, NEW s \in Strs, d.str[e] = s,
         Found(d, s) = {} => d.prev[e] = Nil /\ d.next[e] = Nil,
         NEW r, IsLinked(d, e, r), NEW u \in Strs
  PROVE  JoinsWalk(d, r, e, s, u)
<1>1. Consistent(r, on \cup {e})
  BY LinkConsistent
<1>2. CASE /\ Found(d, s) = {}
           /\ \E t \in Nodes \ d.used : r = LinkAlone(d, e, t)
  <2>1. PICK t \in Nodes \ d.used : r = LinkAlone(d, e, t)
    BY <1>2
  <2>2. Alone(d, r, e, t)
    BY <2>1, LinkAloneFields
  <2>3. QED
    BY <1>1, <1>2, <2>2, AloneWalk
<1>3. CASE \E f \in Found(d, s) : d.str[d.head[f]] # s
  BY <1>3, FoundConsistent
<1>4. CASE \E f \in Found(d, s) :
             LET t == d.tran[d.head[f]] IN
             t # Nil /\ d.tail[t] # Nil /\ r = AppendTo(d, e, t)
  <2>1. PICK f \in Found(d, s) : r = AppendTo(d, e, d.tran[d.head[f]])
    BY <1>4
  <2>2. d.tran[d.head[f]] = f /\ f \in Nodes /\ d.tail[f] \in Targets
    BY FoundConsistent
  <2>3. Appended(d, r, e, f, d.tail[f])
    BY <2>1, <2>2, AppendFields
  <2>4. QED
    BY <1>1, <2>3, AppendWalk
<1>5. QED
  BY <1>2, <1>3, <1>4, LinkCases

\* A sequence without its place i.
LEMMA RemoveAtIs ==
  ASSUME NEW S, NEW w \in Seq(S), NEW i \in 1 .. Len(w)
  PROVE  /\ RemoveAt(w, i) \in Seq(S) /\ Len(RemoveAt(w, i)) = Len(w) - 1
         /\ \A j \in 1 .. Len(w) - 1 :
              RemoveAt(w, i)[j] = IF j < i THEN w[j] ELSE w[j + 1]
<1>1. Len(w) \in Nat /\ i \in Nat /\ i >= 1 /\ i <= Len(w)
  OBVIOUS
<1> DEFINE a == SubSeq(w, 1, i - 1)
           b == SubSeq(w, i + 1, Len(w))
<1>2. a \in Seq(S) /\ Len(a) = i - 1 /\ \A j \in 1 .. i - 1 : a[j] = w[j]
  BY <1>1
<1>3. b \in Seq(S) /\ Len(b) = Len(w) - i /\ \A j \in 1 .. Len(w) - i : b[j] = w[i + j]
  BY <1>1
<1>4. RemoveAt(w, i) = a \o b
  BY DEF RemoveAt
<1> HIDE DEF a, b
<1>5. /\ a \o b \in Seq(S) /\ Len(a \o b) = Len(a) + Len(b)
      /\ \A j \in 1 .. Len(a) + Len(b) :
           (a \o b)[j] = IF j <= Len(a) THEN a[j] ELSE b[j - Len(a)]
  BY <1>2, <1>3, ConcatProperties
<1>6. ASSUME NEW j \in 1 .. Len(w) - 1
      PROVE  (a \o b)[j] = IF j < i THEN w[j] ELSE w[j + 1]
  <2>1. (a \o b)[j] = IF j <= i - 1 THEN a[j] ELSE b[j - (i - 1)]
    <3>1. j \in 1 .. Len(a) + Len(b)
      BY <1>1, <1>2, <1>3
    <3>2. QED
      BY <1>2, <1>5, <3>1
  <2>2. CASE j < i
    BY <1>1, <1>2, <2>1, <2>2
  <2>3. CASE j >= i
    <3>1. (a \o b)[j] = b[j - (i - 1)]
      BY <1>1, <2>1, <2>3
    <3>2. j - (i - 1) \in 1 .. Len(w) - i /\ i + (j - (i - 1)) = j + 1
      BY <1>1, <2>3
    <3>3. QED
      BY <1>1, <1>3, <2>3, <3>1, <3>2
  <2>4. j < i \/ j >= i
    <3>1. j \in Nat /\ i \in Nat
      BY <1>1
    <3>2. QED
      BY <3>1
  <2>5. QED
    BY <2>2, <2>3, <2>4
<1>7. Len(a) + Len(b) = Len(w) - 1
  BY <1>1, <1>2, <1>3
<1>8. QED
  BY <1>4, <1>5, <1>6, <1>7

\* Unlinking a target that is not alone joins its neighbours, or moves the end of
\* the chain to its neighbour.
Joined(d, r, e, t) ==
  LET p == d.prev[e]  q == d.next[e] IN
  /\ r \in Memory
  /\ r.next = IF p = Nil THEN d.next ELSE [d.next EXCEPT ![p] = q]
  /\ r.prev = IF q = Nil THEN d.prev ELSE [d.prev EXCEPT ![q] = p]
  /\ r.head = IF p = Nil THEN [d.head EXCEPT ![t] = q] ELSE d.head
  /\ r.tail = IF q = Nil THEN [d.tail EXCEPT ![t] = p] ELSE d.tail
  /\ r.tran = d.tran /\ r.used = d.used /\ r.key = d.key

LEMMA UnlinkJoins ==
  ASSUME NEW d \in Memory, NEW e \in Targets, NEW t \in Nodes, t = d.tran[e],
         ~ (d.prev[e] = Nil /\ d.next[e] = Nil)
  PROVE  Joined(d, Unlink(d, e), e, t)
<1> DEFINE r == Unlink(d, e)
<1>1. CASE d.prev[e] = Nil
  <2>1. d.next[e] \in Targets /\ d.next[e] # Nil
    BY <1>1, FieldTypes
  <2>2. HeadGone(d, r, t, d.next[e])
    BY <1>1, <2>1, UnlinkHeadFields
  <2> HIDE DEF r
  <2>3. Joined(d, r, e, t)
    BY <1>1, <2>1, <2>2 DEF Joined, HeadGone
  <2>4. QED
    BY <2>3 DEF r
<1>2. CASE d.next[e] = Nil
  <2>1. d.prev[e] \in Targets /\ d.prev[e] # Nil
    BY <1>2, FieldTypes
  <2>2. TailGone(d, r, t, d.prev[e])
    BY <1>2, <2>1, UnlinkTailFields
  <2> HIDE DEF r
  <2>3. Joined(d, r, e, t)
    BY <1>2, <2>1, <2>2 DEF Joined, TailGone
  <2>4. QED
    BY <2>3 DEF r
<1>3. CASE d.prev[e] # Nil /\ d.next[e] # Nil
  <2>1. d.prev[e] \in Targets /\ d.next[e] \in Targets /\ t # Nil
    BY <1>3, FieldTypes, Addresses
  <2>2. MiddleGone(d, r, d.prev[e], d.next[e])
    BY <2>1, UnlinkMiddleFields
  <2> HIDE DEF r
  <2>3. Joined(d, r, e, t)
    BY <1>3, <2>1, <2>2 DEF Joined, MiddleGone
  <2>4. QED
    BY <2>3 DEF r
<1>4. QED
  BY <1>1, <1>2, <1>3

\* The chain of a node without one of several members.
LEMMA UnlinkedChain ==
  ASSUME NEW on \in SUBSET Targets, NEW d \in Memory, Consistent(d, on),
         NEW t \in d.used, NEW w, IsChain(d, on, t, w), Len(w) > 1,
         NEW i \in 1 .. Len(w), NEW r, Joined(d, r, w[i], t)
  PROVE  IsChain(r, on \ {w[i]}, t, RemoveAt(w, i))
<1> DEFINE n == Len(w)
           e == w[i]
           p == d.prev[e]
           q == d.next[e]
           off == on \ {e}
           v == RemoveAt(w, i)
<1>1. /\ w \in Seq(on) /\ n \in 1 .. MaxTargets
      /\ Range(w) = Members(d, on, t)
      /\ IsInjective(w)
      /\ w[1] = d.head[t] /\ w[n] = d.tail[t]
      /\ \A j \in 1 .. n - 1 : d.next[w[j]] = w[j + 1] /\ d.prev[w[j + 1]] = w[j]
  BY DEF IsChain
<1>2. /\ MaxTargets \in Nat /\ w \in [1 .. n -> on] /\ n \in Nat /\ n > 1
      /\ i \in 1 .. n /\ t \in Nodes
  BY <1>1, ChainAssumption DEF Memory
<1>3. d.prev[w[1]] = Nil /\ d.next[w[n]] = Nil
  BY ChainLeads, Addresses, <1>1, <1>2 DEF Consistent, LinkOK, IsChain, Members, Range
<1>4. \A j \in 1 .. n : w[j] \in on /\ w[j] \in Targets /\ w[j] # Nil
  BY <1>2, Addresses
<1>5. \A j, k \in 1 .. n : w[j] = w[k] => j = k
  BY <1>1, <1>2 DEF IsInjective
<1>6. v \in Seq(on) /\ Len(v) = n - 1
      /\ \A j \in 1 .. n - 1 : v[j] = IF j < i THEN w[j] ELSE w[j + 1]
  BY <1>1, <1>2, RemoveAtIs
<1>7. p = IF i = 1 THEN Nil ELSE w[i - 1]
  BY <1>1, <1>2, <1>3
<1>8. q = IF i = n THEN Nil ELSE w[i + 1]
  <2>1. CASE i = n
    BY <1>3, <2>1
  <2>2. CASE i # n
    <3>1. i \in 1 .. n - 1
      <4>1. n \in Nat /\ i \in 1 .. n
        BY <1>2
      <4> HIDE DEF n
      <4>2. QED
        BY <4>1, <2>2
    <3>2. d.next[w[i]] = w[i + 1]
      BY <1>1, <3>1
    <3>3. QED
      BY <2>2, <3>2
  <2>3. QED
    BY <2>1, <2>2
<1>9. /\ d.prev \in [Targets -> Targets \cup {Nil}] /\ d.next \in [Targets -> Targets \cup {Nil}]
      /\ d.head \in [Nodes -> Targets \cup {Nil}] /\ d.tail \in [Nodes -> Targets \cup {Nil}]
  BY DEF Memory
<1>10. /\ r.next = IF p = Nil THEN d.next ELSE [d.next EXCEPT ![p] = q]
       /\ r.prev = IF q = Nil THEN d.prev ELSE [d.prev EXCEPT ![q] = p]
       /\ r.head = IF p = Nil THEN [d.head EXCEPT ![t] = q] ELSE d.head
       /\ r.tail = IF q = Nil THEN [d.tail EXCEPT ![t] = p] ELSE d.tail
       /\ r.tran = d.tran
  BY DEF Joined
<1> HIDE DEF n, p, q, v
<1>11. ASSUME NEW j \in 1 .. n - 1
       PROVE  v[j] \in off
  <2>1. CASE j < i
    BY <1>2, <1>4, <1>5, <1>6, <2>1
  <2>2. CASE j >= i
    <3>1. j + 1 \in 1 .. n /\ j + 1 # i
      BY <1>2, <2>2
    <3>2. QED
      BY <1>2, <1>4, <1>5, <1>6, <2>2, <3>1
  <2>3. QED
    BY <1>2, <2>1, <2>2
<1>12. v \in Seq(off)
  <2>1. v \in [1 .. n - 1 -> off]
    BY <1>2, <1>6, <1>11
  <2> HIDE DEF off
  <2>2. QED
    BY <1>2, <2>1
<1>13. IsInjective(v)
  <2> SUFFICES ASSUME NEW j \in 1 .. n - 1, NEW k \in 1 .. n - 1, v[j] = v[k]
               PROVE  j = k
    BY <1>2, <1>6 DEF IsInjective
  <2> DEFINE at(m) == IF m < i THEN m ELSE m + 1
  <2>1. at(j) \in 1 .. n /\ at(k) \in 1 .. n /\ (at(j) = at(k) => j = k)
    BY <1>2
  <2>2. v[j] = w[at(j)] /\ v[k] = w[at(k)]
    BY <1>6
  <2> HIDE DEF at
  <2>3. QED
    BY <1>5, <2>1, <2>2
<1>14. Range(v) = Members(r, off, t)
  <2>1. Members(r, off, t) = Range(w) \ {e}
    BY <1>1, <1>10 DEF Members
  <2>2. Range(v) \subseteq Range(w) \ {e}
    <3> SUFFICES ASSUME NEW j \in 1 .. n - 1 PROVE v[j] \in Range(w) /\ v[j] # e
      BY <1>2, <1>6 DEF Range
    <3>1. v[j] # e
      BY <1>11
    <3>2. \E k \in 1 .. n : v[j] = w[k]
      <4>1. CASE j < i
        BY <1>2, <1>6, <4>1
      <4>2. CASE j >= i
        <5>1. j + 1 \in 1 .. n
          BY <1>2
        <5>2. QED
          BY <1>2, <1>6, <4>2, <5>1
      <4>3. QED
        BY <1>2, <4>1, <4>2
    <3>3. QED
      BY <1>2, <3>1, <3>2 DEF Range
  <2>3. Range(w) \ {e} \subseteq Range(v)
    <3> SUFFICES ASSUME NEW k \in 1 .. n, w[k] # e PROVE w[k] \in Range(v)
      BY <1>2 DEF Range
    <3>1. \E j \in 1 .. n - 1 : v[j] = w[k]
      <4>1. CASE k < i
        <5>1. k \in 1 .. n - 1
          BY <1>2, <4>1
        <5>2. QED
          BY <1>6, <4>1, <5>1
      <4>2. CASE k > i
        <5>1. k - 1 \in 1 .. n - 1 /\ ~ (k - 1 < i) /\ (k - 1) + 1 = k
          BY <1>2, <4>2
        <5>2. v[k - 1] = w[k]
          BY <1>6, <5>1
        <5>3. QED
          BY <5>1, <5>2
      <4>3. QED
        BY <1>2, <4>1, <4>2
    <3>2. QED
      BY <1>2, <1>6, <3>1 DEF Range
  <2>4. QED
    BY <2>1, <2>2, <2>3
<1>15. v[1] = r.head[t] /\ v[n - 1] = r.tail[t]
  <2>1. v[1] = IF i = 1 THEN w[2] ELSE w[1]
    BY <1>2, <1>6
  <2>2. v[n - 1] = IF i = n THEN w[n - 1] ELSE w[n]
    BY <1>2, <1>6
  <2>3. r.head[t] = IF i = 1 THEN w[2] ELSE w[1]
    BY <1>1, <1>2, <1>4, <1>7, <1>8, <1>9, <1>10 DEF n
  <2>4. r.tail[t] = IF i = n THEN w[n - 1] ELSE w[n]
    BY <1>1, <1>2, <1>4, <1>7, <1>8, <1>9, <1>10 DEF n
  <2>5. QED
    BY <2>1, <2>2, <2>3, <2>4
<1>16. ASSUME NEW j \in 1 .. n - 1, j # i, j + 1 # i
       PROVE  r.next[w[j]] = w[j + 1] /\ r.prev[w[j + 1]] = w[j]
  <2>1. j \in 1 .. n /\ j + 1 \in 1 .. n /\ w[j] \in Targets /\ w[j + 1] \in Targets
    BY <1>2, <1>4
  <2>2. d.next[w[j]] = w[j + 1] /\ d.prev[w[j + 1]] = w[j]
    BY <1>1 DEF n
  <2>3. p # Nil => p # w[j]
    BY <1>2, <1>5, <1>7, <1>16, <2>1
  <2>4. q # Nil => q # w[j + 1]
    BY <1>2, <1>5, <1>8, <1>16, <2>1
  <2>5. QED
    BY <1>9, <1>10, <2>1, <2>2, <2>3, <2>4
<1>17. ASSUME NEW j \in 1 .. n - 2
       PROVE  r.next[v[j]] = v[j + 1] /\ r.prev[v[j + 1]] = v[j]
  <2>1. j \in 1 .. n - 1 /\ j + 1 \in 1 .. n - 1
    BY <1>2
  <2>2. CASE j + 1 < i
    <3>1. v[j] = w[j] /\ v[j + 1] = w[j + 1] /\ j # i /\ j + 1 # i
      BY <1>2, <1>6, <2>1, <2>2
    <3>2. QED
      BY <1>16, <2>1, <3>1
  <2>3. CASE j + 1 = i
    <3>1. v[j] = w[i - 1] /\ v[j + 1] = w[i + 1] /\ i # 1 /\ i # n
      BY <1>2, <1>6, <2>1, <2>3
    <3>2. p = w[i - 1] /\ q = w[i + 1] /\ p \in Targets /\ q \in Targets /\ p # Nil /\ q # Nil
      BY <1>2, <1>4, <1>7, <1>8, <3>1
    <3>3. QED
      BY <1>9, <1>10, <3>1, <3>2
  <2>4. CASE j >= i
    <3>1. v[j] = w[j + 1] /\ v[j + 1] = w[(j + 1) + 1] /\ j + 1 # i /\ (j + 1) + 1 # i
      BY <1>2, <1>6, <2>1, <2>4
    <3>2. QED
      BY <1>16, <2>1, <3>1
  <2>5. QED
    BY <1>2, <2>1, <2>2, <2>3, <2>4
<1>18. Len(v) \in 1 .. MaxTargets /\ Len(v) - 1 = n - 2
  BY <1>1, <1>2, <1>6 DEF n
<1>19. IsChain(r, off, t, v)
  BY <1>6, <1>12, <1>13, <1>14, <1>15, <1>17, <1>18 DEF IsChain
<1>20. QED
  BY <1>19 DEF v

\* Target i of the walk of s leaves it, every other walk stays.
LeavesWalk(d, r, i, s, u) ==
  WalkOf(r, u) = IF u = s THEN RemoveAt(WalkOf(d, u), i) ELSE WalkOf(d, u)

\* The walks of the strings of other nodes, when only node t and its members change.
LEMMA OtherWalks ==
  ASSUME NEW on \in SUBSET Targets, NEW d \in Memory, Consistent(d, on), Linear(d, on),
         NEW e \in on, NEW t \in d.used, t = d.tran[e], NEW r \in Memory,
         Consistent(r, on \ {e}),
         NEW u \in Strs, u # d.key[t], Found(r, u) = Found(d, u),
         \A v \in Nodes \ {t} : r.head[v] = d.head[v] /\ r.tail[v] = d.tail[v],
         \A f \in on \ {e} : r.tran[f] = d.tran[f],
         \A f \in on : d.tran[f] # t => r.next[f] = d.next[f] /\ r.prev[f] = d.prev[f]
  PROVE  WalkOf(r, u) = WalkOf(d, u)
<1> DEFINE off == on \ {e}
<1>1. off \in SUBSET Targets /\ Consistent(r, off)
  OBVIOUS
<1>2. ASSUME NEW v \in Found(d, u)
      PROVE  /\ r.head[v] = d.head[v] /\ r.tail[v] = d.tail[v]
             /\ Members(r, off, v) = Members(d, on, v)
             /\ \A f \in Members(d, on, v) : r.next[f] = d.next[f] /\ r.prev[f] = d.prev[f]
  <2>1. v \in Nodes /\ v # t
    BY FoundConsistent
  <2>2. Members(r, off, v) = Members(d, on, v)
    BY <2>1 DEF Members
  <2>3. \A f \in Members(d, on, v) : r.next[f] = d.next[f] /\ r.prev[f] = d.prev[f]
    BY <2>1 DEF Members
  <2>4. QED
    BY <2>1, <2>2, <2>3
<1> HIDE DEF off
<1>3. QED
  BY <1>1, <1>2, SameWalk

\* The walks without a target that was alone in its chain.
LEMMA OnlyWalk ==
  ASSUME NEW on \in SUBSET Targets, NEW d \in Memory, Consistent(d, on), Linear(d, on),
         NEW e \in on, NEW t \in d.used, t = d.tran[e], NEW s \in Strs, s = d.key[t],
         d.prev[e] = Nil, d.next[e] = Nil, NEW r, OnlyGone(d, r, e, t),
         Consistent(r, on \ {e}), NEW u \in Strs
  PROVE  WalkOf(d, s) = <<e>> /\ LeavesWalk(d, r, 1, s, u)
<1>1. /\ r.used = d.used \ {t} /\ r.key = [d.key EXCEPT ![t] = NoStr]
      /\ r.head = [d.head EXCEPT ![t] = Nil] /\ r.tail = [d.tail EXCEPT ![t] = Nil]
      /\ r.tran = [d.tran EXCEPT ![e] = Nil]
      /\ r.prev = d.prev /\ r.next = d.next /\ r \in Memory
  BY DEF OnlyGone
<1>2. /\ d.key \in [Nodes -> Strs \cup {NoStr}] /\ d.head \in [Nodes -> Targets \cup {Nil}]
      /\ d.tail \in [Nodes -> Targets \cup {Nil}] /\ d.tran \in [Targets -> Nodes \cup {Nil}]
      /\ d.used \in SUBSET Nodes /\ t \in Nodes
  BY DEF Memory
<1>3. Found(d, s) = {t}
  <2>1. t \in Found(d, s)
    BY DEF Found
  <2>2. \A v \in d.used : d.key[v] = d.key[t] => v = t
    BY DEF Consistent, NodeOK
  <2>3. QED
    BY <2>1, <2>2 DEF Found
<1>4. LinkOK(d, on, e) /\ NodeOK(d, on, t)
  BY DEF Consistent
<1>5. d.head[t] = e /\ d.tail[t] = e
  BY <1>4 DEF LinkOK
<1>6. WalkOf(d, s) = <<e>>
  <2>1. PICK w : IsChain(d, on, t, w)
    BY ChainExists
  <2>2. WalkOf(d, s) = w
    BY <1>3, <2>1, WalkIs
  <2>3. /\ w \in Seq(on) /\ Len(w) \in 1 .. MaxTargets /\ IsInjective(w)
        /\ w[1] = e /\ w[Len(w)] = e
    BY <1>5, <2>1 DEF IsChain
  <2>4. Len(w) = 1
    <3>1. 1 \in DOMAIN w /\ Len(w) \in DOMAIN w /\ w[1] = w[Len(w)]
      BY <2>3, ChainAssumption
    <3>2. QED
      BY <2>3, <3>1 DEF IsInjective
  <2>5. QED
    BY <2>2, <2>3, <2>4
<1>7. CASE u = s
  <2>1. Found(r, s) = {}
    BY <1>1, <1>2, <1>3 DEF Found
  <2>2. RemoveAt(<<e>>, 1) = <<>>
    <3>1. <<e>> \in Seq(on) /\ Len(<<e>>) = 1 /\ 1 \in 1 .. 1
      OBVIOUS
    <3> DEFINE w == <<e>>
    <3> HIDE DEF w
    <3>2. w \in Seq(on) /\ Len(w) = 1
      BY <3>1 DEF w
    <3>3. 1 \in 1 .. Len(w) /\ Len(w) - 1 = 0
      BY <3>2
    <3>4. RemoveAt(w, 1) \in Seq(on) /\ Len(RemoveAt(w, 1)) = Len(w) - 1
      BY <3>2, <3>3, RemoveAtIs
    <3>5. QED
      BY <3>3, <3>4, EmptySeq DEF w
  <2>3. QED
    BY <1>6, <1>7, <2>1, <2>2 DEF LeavesWalk, WalkOf
<1>8. CASE u # s
  <2>1. Found(r, u) = Found(d, u)
    BY <1>1, <1>2, <1>8 DEF Found
  <2>2. \A v \in Nodes \ {t} : r.head[v] = d.head[v] /\ r.tail[v] = d.tail[v]
    BY <1>1, <1>2
  <2>3. \A f \in on \ {e} : r.tran[f] = d.tran[f]
    BY <1>1, <1>2
  <2>4. \A f \in on : d.tran[f] # t => r.next[f] = d.next[f] /\ r.prev[f] = d.prev[f]
    BY <1>1
  <2>5. r \in Memory /\ u # d.key[t]
    BY <1>1, <1>8
  <2>6. WalkOf(r, u) = WalkOf(d, u)
    BY <2>1, <2>2, <2>3, <2>4, <2>5, OtherWalks
  <2>7. QED
    BY <1>6, <1>8, <2>6 DEF LeavesWalk
<1>9. QED
  BY <1>6, <1>7, <1>8

\* The walks without a target that shared its chain.
LEMMA JoinedWalk ==
  ASSUME NEW on \in SUBSET Targets, NEW d \in Memory, Consistent(d, on), Linear(d, on),
         NEW e \in on, NEW t \in d.used, t = d.tran[e], NEW s \in Strs, s = d.key[t],
         ~ (d.prev[e] = Nil /\ d.next[e] = Nil), NEW r, Joined(d, r, e, t),
         Consistent(r, on \ {e}), NEW w, IsChain(d, on, t, w),
         NEW i \in 1 .. Len(w), w[i] = e, NEW u \in Strs
  PROVE  LeavesWalk(d, r, i, s, u)
<1>1. /\ r.next = IF d.prev[e] = Nil THEN d.next ELSE [d.next EXCEPT ![d.prev[e]] = d.next[e]]
      /\ r.prev = IF d.next[e] = Nil THEN d.prev ELSE [d.prev EXCEPT ![d.next[e]] = d.prev[e]]
      /\ r.head = IF d.prev[e] = Nil THEN [d.head EXCEPT ![t] = d.next[e]] ELSE d.head
      /\ r.tail = IF d.next[e] = Nil THEN [d.tail EXCEPT ![t] = d.prev[e]] ELSE d.tail
      /\ r.tran = d.tran /\ r.used = d.used /\ r.key = d.key /\ r \in Memory
  BY DEF Joined
<1>2. /\ d.head \in [Nodes -> Targets \cup {Nil}] /\ d.tail \in [Nodes -> Targets \cup {Nil}]
      /\ d.next \in [Targets -> Targets \cup {Nil}] /\ d.prev \in [Targets -> Targets \cup {Nil}]
      /\ d.used \in SUBSET Nodes /\ t \in Nodes
  BY DEF Memory
<1>3. Found(d, s) = {t} /\ \A v : Found(r, v) = Found(d, v)
  <2>1. t \in Found(d, s)
    BY DEF Found
  <2>2. Found(d, s) = {t}
    <3>1. \A v \in d.used : d.key[v] = d.key[t] => v = t
      BY DEF Consistent, NodeOK
    <3>2. QED
      BY <2>1, <3>1 DEF Found
  <2>3. \A v : Found(r, v) = Found(d, v)
    BY <1>1 DEF Found
  <2>4. QED
    BY <2>2, <2>3
<1>4. LinkOK(d, on, e)
  BY DEF Consistent
<1>5. CASE u = s
  <2>1. Len(w) > 1
    <3>1. /\ w \in Seq(on) /\ Len(w) \in 1 .. MaxTargets
          /\ w[1] = d.head[t] /\ w[Len(w)] = d.tail[t]
      BY DEF IsChain
    <3>2. ASSUME Len(w) = 1 PROVE FALSE
      <4>1. i = 1 /\ d.head[t] = e /\ d.tail[t] = e
        BY <3>1, <3>2
      <4>2. QED
        BY <1>4, <4>1 DEF LinkOK
    <3>3. w \in Seq(on) /\ Len(w) \in Nat /\ Len(w) >= 1 /\ Len(w) # 1
      BY <3>1, <3>2, ChainAssumption
    <3> DEFINE n == Len(w)
    <3>4. n \in Nat /\ n >= 1 /\ n # 1
      BY <3>3
    <3> HIDE DEF n
    <3>5. n > 1
      BY <3>4
    <3>6. QED
      BY <3>5 DEF n
  <2>2. Joined(d, r, w[i], t)
    OBVIOUS
  <2>3. IsChain(r, on \ {w[i]}, t, RemoveAt(w, i))
    BY <2>1, <2>2, UnlinkedChain
  <2>4. WalkOf(d, s) = w
    BY <1>3, WalkIs
  <2>5. WalkOf(r, s) = RemoveAt(w, i)
    <3> DEFINE off == on \ {e}
               v == RemoveAt(w, i)
    <3>1. off \in SUBSET Targets /\ Consistent(r, off) /\ IsChain(r, off, t, v)
      BY <2>3
    <3>2. t \in Found(r, s) /\ r \in Memory
      BY <1>1, <1>3
    <3> HIDE DEF off, v
    <3>3. WalkOf(r, s) = v
      BY <3>1, <3>2, WalkIs
    <3>4. QED
      BY <3>3 DEF v
  <2>6. QED
    BY <1>5, <2>4, <2>5 DEF LeavesWalk
<1>6. CASE u # s
  <2>1. \A v \in Nodes \ {t} : r.head[v] = d.head[v] /\ r.tail[v] = d.tail[v]
    BY <1>1, <1>2
  <2>2. \A f \in on \ {e} : r.tran[f] = d.tran[f]
    BY <1>1
  <2>3. \A f \in on : d.tran[f] # t => r.next[f] = d.next[f] /\ r.prev[f] = d.prev[f]
    <3> SUFFICES ASSUME NEW f \in on, d.tran[f] # t
                 PROVE  r.next[f] = d.next[f] /\ r.prev[f] = d.prev[f]
      OBVIOUS
    <3>1. d.prev[e] # Nil => d.prev[e] # f
      BY <1>4 DEF LinkOK
    <3>2. d.next[e] # Nil => d.next[e] # f
      BY <1>4 DEF LinkOK
    <3>3. QED
      BY <1>1, <1>2, <3>1, <3>2
  <2>4. r \in Memory /\ Found(r, u) = Found(d, u) /\ u # d.key[t]
    BY <1>1, <1>3, <1>6
  <2>5. WalkOf(r, u) = WalkOf(d, u)
    BY <2>1, <2>2, <2>3, <2>4, OtherWalks
  <2>6. QED
    BY <1>6, <2>5 DEF LeavesWalk
<1>7. QED
  BY <1>5, <1>6

\* Unlinking takes a target out of the walk of its string and touches no other.
LEMMA UnlinkWalk ==
  ASSUME NEW on \in SUBSET Targets, NEW d \in Memory, Consistent(d, on), Linear(d, on),
         NEW e \in on
  PROVE  \E s \in Strs : \E i \in DOMAIN WalkOf(d, s) :
           WalkOf(d, s)[i] = e /\ \A u \in Strs : LeavesWalk(d, Unlink(d, e), i, s, u)
<1> DEFINE t == d.tran[e]
           s == d.key[t]
           r == Unlink(d, e)
<1>1. LinkOK(d, on, e) /\ t \in d.used
  BY DEF Consistent, LinkOK
<1>2. NodeOK(d, on, t) /\ s \in Strs /\ t \in Nodes
  BY <1>1 DEF Consistent, NodeOK, Memory
<1>3. Consistent(r, on \ {e})
  BY UnlinkConsistent DEF Linear
<1>4. PICK w : IsChain(d, on, t, w)
  BY <1>1, ChainExists
<1>5. WalkOf(d, s) = w /\ w \in Seq(on) /\ \E i \in DOMAIN w : w[i] = e
  <2>1. t \in Found(d, s)
    BY <1>1 DEF Found
  <2>2. WalkOf(d, s) = w
    BY <1>2, <1>4, <2>1, WalkIs
  <2>3. e \in Range(w) /\ w \in Seq(on)
    BY <1>4 DEF IsChain, Members
  <2>4. QED
    BY <2>2, <2>3 DEF Range
<1>6. PICK i \in DOMAIN w : w[i] = e
  BY <1>5
<1>7. i \in 1 .. Len(w)
  BY <1>5
<1>8. CASE d.prev[e] = Nil /\ d.next[e] = Nil
  <2>1. OnlyGone(d, r, e, t)
    BY <1>2, <1>8, UnlinkOnlyFields
  <2> HIDE DEF r, t, s
  <2>2. \A u \in Strs : WalkOf(d, s) = <<e>> /\ LeavesWalk(d, r, 1, s, u)
    <3>1. t = d.tran[e] /\ s = d.key[t]
      BY DEF t, s
    <3>2. QED
      BY <1>1, <1>2, <1>3, <1>8, <2>1, <3>1, OnlyWalk
  <2>3. WalkOf(d, s) = <<e>>
    BY <1>2, <2>2
  <2>4. 1 \in DOMAIN WalkOf(d, s) /\ WalkOf(d, s)[1] = e
    BY <2>3
  <2>5. QED
    BY <1>2, <2>2, <2>4 DEF r
<1>9. CASE ~ (d.prev[e] = Nil /\ d.next[e] = Nil)
  <2>1. Joined(d, r, e, t)
    BY <1>2, <1>9, UnlinkJoins
  <2> HIDE DEF r, t, s
  <2>2. \A u \in Strs : LeavesWalk(d, r, i, s, u)
    <3>1. t = d.tran[e] /\ s = d.key[t]
      BY DEF t, s
    <3>2. QED
      BY <1>1, <1>2, <1>3, <1>4, <1>6, <1>7, <1>9, <2>1, <3>1, JoinedWalk
  <2>3. QED
    BY <1>2, <1>5, <1>6, <2>2 DEF r
<1>10. QED
  BY <1>8, <1>9

-----------------------------------------------------------------------------
(* Every step, seen through the walks                                      *)

\* The lists of the index before and after a step.
Lists == [u \in Strs |-> WalkOf(db, u)]

LEMMA ListsAre ==
  /\ [u \in Strs |-> Walk(u)] = Lists
  /\ ([u \in Strs |-> Walk(u)])' = [u \in Strs |-> WalkOf(db', u)]
<1>1. \A u \in Strs : Walk(u) = WalkOf(db, u)
  BY DEF Walk, WalkOf
<1>2. \A u \in Strs : (Walk(u))' = WalkOf(db', u)
  BY DEF Walk, WalkOf, Found
<1>3. QED
  BY <1>1, <1>2 DEF Lists

\* A target outside the chains is in no list.
LEMMA AddIndex ==
  ASSUME IInv, NEW e \in Targets, NEW s \in Strs, Add(e, s), stale' = 0
  PROVE  Index!Add(e, s)
<1> DEFINE d == WipeTarget(db, e, s)
<1>1. /\ live \in SUBSET Targets /\ db \in Memory /\ e \in Targets \ live /\ stale = 0
  BY ChainAssumption DEF IInv, TypeOK, Add, CountStale
<1>2. Consistent(db, live) /\ Linear(db, live)
  BY <1>1 DEF IInv
<1>3. Wiped(db, d, e, s)
  BY <1>1, WipeFields
<1>4. /\ d \in Memory /\ d.str[e] = s /\ d.prev[e] = Nil /\ d.next[e] = Nil
      /\ \A f \in Targets \ {e} :
           /\ d.str[f] = db.str[f] /\ d.tran[f] = db.tran[f]
           /\ d.prev[f] = db.prev[f] /\ d.next[f] = db.next[f]
      /\ d.used = db.used /\ d.key = db.key /\ d.head = db.head /\ d.tail = db.tail
  BY <1>1, <1>3 DEF Wiped, Memory
<1>5. IsLinked(d, e, db') \/ LinkUndefined(d, e)
  BY DEF Add
<1> HIDE DEF d
<1>6. Consistent(d, live) /\ Linear(d, live)
  BY <1>1, <1>2, <1>4, OutsideConsistent
<1>7. IsLinked(d, e, db')
  BY <1>1, <1>4, <1>5, <1>6, LinkDefined
<1>8. \A u \in Strs : WalkOf(d, u) = WalkOf(db, u)
  BY <1>1, <1>2, <1>4, <1>6, OutsideWalk
<1>9. \A u \in Strs : JoinsWalk(d, db', e, s, u)
  BY <1>1, <1>4, <1>6, <1>7, LinkWalks
<1>10. [u \in Strs |-> WalkOf(db', u)] = [Lists EXCEPT ![s] = Append(@, e)]
  BY <1>8, <1>9 DEF JoinsWalk, Lists
<1>11. \A u \in Strs : e \notin Range(Lists[u])
  <2> SUFFICES ASSUME NEW u \in Strs PROVE e \notin Range(WalkOf(db, u))
    BY DEF Lists
  <2>1. Carriers(db, live, u) = Range(WalkOf(db, u))
    BY <1>1, <1>2, WalksExact
  <2>2. QED
    BY <1>1, <2>1 DEF Carriers
<1>12. \A f : Index!Range(f) = Range(f)
  BY DEF Index!Range, Range
<1>13. QED
  BY <1>10, <1>11, <1>12, ListsAre DEF Index!Add, Index!Listed

\* A target that is deleted leaves its list.
LEMMA DeleteIndex ==
  ASSUME IInv, NEW e \in live, Delete(e), stale' = 0
  PROVE  \E s \in Strs : \E i \in DOMAIN Lists[s] : Index!Delete(s, i)
<1> DEFINE d == Unlink(db, e)
           off == live \ {e}
<1>1. /\ live \in SUBSET Targets /\ db \in Memory /\ e \in Targets /\ stale = 0
  BY ChainAssumption DEF IInv, TypeOK, Delete, CountStale
<1>2. Consistent(db, live) /\ Linear(db, live)
  BY <1>1 DEF IInv
<1>3. d \in Memory
  BY <1>1, UnlinkType
<1>4. Consistent(d, off) /\ Linear(d, off) /\ ~UnlinkUndefined(db, e)
  <2>1. PICK pos \in [Targets -> Nat] : Ordered(db, live, pos)
    BY <1>2 DEF Linear
  <2>2. QED
    BY <1>1, <1>2, <2>1, UnlinkConsistent DEF Linear
<1>5. PICK s \in Strs : \E i \in DOMAIN WalkOf(db, s) :
        WalkOf(db, s)[i] = e /\ \A u \in Strs : LeavesWalk(db, d, i, s, u)
  BY <1>1, <1>2, UnlinkWalk
<1>6. PICK i \in DOMAIN WalkOf(db, s) : \A u \in Strs : LeavesWalk(db, d, i, s, u)
  BY <1>5
<1>7. db' = WipeTarget(d, e, NoStr)
  BY <1>4 DEF Delete
<1>8. off \in SUBSET Targets /\ e \in Targets \ off
  BY <1>1
<1> HIDE DEF d, off
<1>9. Wiped(d, db', e, NoStr)
  BY <1>1, <1>3, <1>7, WipeFields
<1>10. /\ db' \in Memory
       /\ \A f \in Targets \ {e} :
            /\ db'.str[f] = d.str[f] /\ db'.tran[f] = d.tran[f]
            /\ db'.prev[f] = d.prev[f] /\ db'.next[f] = d.next[f]
       /\ db'.used = d.used /\ db'.key = d.key /\ db'.head = d.head /\ db'.tail = d.tail
  BY <1>3, <1>9 DEF Wiped, Memory
<1>11. Consistent(db', off)
  BY <1>3, <1>4, <1>8, <1>10, OutsideConsistent
<1>12. \A u \in Strs : WalkOf(db', u) = WalkOf(d, u)
  BY <1>3, <1>4, <1>8, <1>10, <1>11, OutsideWalk
<1>13. [u \in Strs |-> WalkOf(db', u)] = [Lists EXCEPT ![s] = RemoveAt(@, i)]
  BY <1>6, <1>12 DEF LeavesWalk, Lists
<1>14. i \in DOMAIN Lists[s]
  BY DEF Lists
<1>15. \A w, k : Index!RemoveAt(w, k) = RemoveAt(w, k)
  BY DEF Index!RemoveAt, RemoveAt
<1>16. Index!Delete(s, i)
  BY <1>13, <1>14, <1>15, ListsAre DEF Index!Delete
<1>17. QED
  BY <1>14, <1>16

\* A target that is renamed leaves its list and joins another at its end.
LEMMA RenameIndex ==
  ASSUME IInv, NEW e \in live, NEW s \in Strs, Rename(e, s), stale' = 0
  PROVE  \E o \in Strs : \E i \in DOMAIN Lists[o] : Index!Rename(o, i, s)
<1> DEFINE c == Unlink(db, e)
           d == [c EXCEPT !.str[e] = s]
           off == live \ {e}
<1>1. /\ live \in SUBSET Targets /\ db \in Memory /\ e \in Targets /\ stale = 0
      /\ ~LeavesStaleLinks(e, s)
  BY ChainAssumption DEF IInv, TypeOK, Rename, CountStale
<1>2. Consistent(db, live) /\ Linear(db, live)
  BY <1>1 DEF IInv
<1>3. c \in Memory
  BY <1>1, UnlinkType
<1>4. Consistent(c, off) /\ Linear(c, off) /\ ~UnlinkUndefined(db, e)
  <2>1. PICK pos \in [Targets -> Nat] : Ordered(db, live, pos)
    BY <1>2 DEF Linear
  <2>2. QED
    BY <1>1, <1>2, <2>1, UnlinkConsistent DEF Linear
<1>5. PICK o \in Strs : \E i \in DOMAIN WalkOf(db, o) :
        WalkOf(db, o)[i] = e /\ \A u \in Strs : LeavesWalk(db, c, i, o, u)
  BY <1>1, <1>2, UnlinkWalk
<1>6. PICK i \in DOMAIN WalkOf(db, o) :
        WalkOf(db, o)[i] = e /\ \A u \in Strs : LeavesWalk(db, c, i, o, u)
  BY <1>5
<1>7. Found(c, s) = {} => c.prev[e] = Nil /\ c.next[e] = Nil
  <2> SUFFICES ASSUME Found(c, s) = {} PROVE c.prev[e] = Nil /\ c.next[e] = Nil
    OBVIOUS
  <2>1. db.prev[e] = Nil /\ db.next[e] = Nil
    BY <1>1 DEF LeavesStaleLinks
  <2>2. db.tran[e] \in Nodes
    BY <1>1, <1>2 DEF Consistent, LinkOK, Memory
  <2>3. OnlyGone(db, c, e, db.tran[e])
    BY <1>1, <2>1, <2>2, UnlinkOnlyFields
  <2>4. QED
    BY <2>1, <2>3 DEF OnlyGone
<1>8. IsLinked(d, e, db') \/ LinkUndefined(d, e)
  BY <1>4 DEF Rename
<1>9. off \in SUBSET Targets /\ e \in Targets \ off
  BY <1>1
<1> HIDE DEF c, off
<1>10. /\ d \in Memory /\ d.str = [c.str EXCEPT ![e] = s]
       /\ d.prev = c.prev /\ d.next = c.next /\ d.tran = c.tran
       /\ d.used = c.used /\ d.key = c.key /\ d.head = c.head /\ d.tail = c.tail
  BY <1>1, <1>3, SetStrFields
<1> HIDE DEF d
<1>11. /\ d.str[e] = s
       /\ \A f \in Targets \ {e} :
            /\ d.str[f] = c.str[f] /\ d.tran[f] = c.tran[f]
            /\ d.prev[f] = c.prev[f] /\ d.next[f] = c.next[f]
  BY <1>1, <1>3, <1>10 DEF Memory
<1>12. Consistent(d, off) /\ Linear(d, off)
  BY <1>3, <1>4, <1>9, <1>10, <1>11, OutsideConsistent
<1>13. IsLinked(d, e, db')
  BY <1>8, <1>9, <1>10, <1>11, <1>12, LinkDefined
<1>14. \A u \in Strs : WalkOf(d, u) = WalkOf(c, u)
  BY <1>3, <1>4, <1>9, <1>10, <1>11, <1>12, OutsideWalk
<1>15. Found(d, s) = {} => d.prev[e] = Nil /\ d.next[e] = Nil
  BY <1>7, <1>10 DEF Found
<1>16. \A u \in Strs : JoinsWalk(d, db', e, s, u)
  BY <1>9, <1>10, <1>11, <1>12, <1>13, <1>15, LinkWalks
<1>17. i \in DOMAIN Lists[o] /\ Lists[o][i] = e
  BY <1>6 DEF Lists
<1>18. ASSUME NEW u \in Strs
       PROVE  WalkOf(db', u) =
                LET rest == IF u = o THEN RemoveAt(Lists[u], i) ELSE Lists[u]
                IN  IF u = s THEN Append(rest, Lists[o][i]) ELSE rest
  <2>1. WalkOf(c, u) = IF u = o THEN RemoveAt(Lists[u], i) ELSE Lists[u]
    BY <1>6 DEF LeavesWalk, Lists
  <2>2. WalkOf(db', u) = IF u = s THEN Append(WalkOf(c, u), e) ELSE WalkOf(c, u)
    BY <1>14, <1>16 DEF JoinsWalk
  <2>3. QED
    BY <1>17, <2>1, <2>2
<1>19. \A w, k : Index!RemoveAt(w, k) = RemoveAt(w, k)
  BY DEF Index!RemoveAt, RemoveAt
<1>20. [u \in Strs |-> WalkOf(db', u)] =
         [u \in Strs |->
            LET rest == IF u = o THEN RemoveAt(Lists[u], i) ELSE Lists[u]
            IN  IF u = s THEN Append(rest, Lists[o][i]) ELSE rest]
  BY <1>18
<1>21. Index!Rename(o, i, s)
  BY <1>17, <1>19, <1>20, ListsAre DEF Index!Rename
<1>22. QED
  BY <1>17, <1>21

\* For any number of targets, nodes and strings: as long as no rename leaves stale
\* links, every operation on the chains is an operation on the lists of NameIndex,
\* which keeps the order of every list and touches none but those concerned.
THEOREM ImplementsIndex == Spec => ImplementsNameIndex
<1>1. Init => Index!Init
  <2> SUFFICES ASSUME Init PROVE Index!Init
    OBVIOUS
  <2>1. \A s \in Strs : Walk(s) = <<>>
    BY DEF Init, Walk, Found
  <2>2. QED
    BY <2>1 DEF Index!Init
<1>2. IInv /\ [Next]_vars => [stale' = 0 => Index!Next \/ UNCHANGED db]_vars
  <2> SUFFICES ASSUME IInv, Next, stale' = 0 PROVE Index!Next
    OBVIOUS
  <2>1. CASE \E e \in Targets, s \in Strs : Add(e, s)
    BY <2>1, AddIndex DEF Index!Next
  <2>2. CASE \E e \in live : Delete(e)
    BY <2>2, DeleteIndex, ListsAre DEF Index!Next
  <2>3. CASE \E e \in live, s \in Strs : Rename(e, s)
    BY <2>3, RenameIndex, ListsAre DEF Index!Next
  <2>4. QED
    BY <2>1, <2>2, <2>3 DEF Next
<1>3. QED
  BY <1>1, <1>2, Invariance, PTL DEF Spec, ImplementsNameIndex
=============================================================================
