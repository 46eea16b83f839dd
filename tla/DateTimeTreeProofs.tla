------------------------- MODULE DateTimeTreeProofs -------------------------
(***************************************************************************)
(* Proofs about DateTimeTree for any number of entries and any hours and   *)
(* minutes: type correctness and the list of years always, and, until the  *)
(* first damage, exact lists of the hours and the marks on the way to them. *)
(***************************************************************************)
EXTENDS DateTimeTree, FiniteSetTheorems, WellFoundedInduction,
        SequenceTheorems, TLAPS

-----------------------------------------------------------------------------
(* Facts about numbers the proofs rest on                                  *)

\* A non-empty set of natural numbers has a least element.
LEMMA LeastElement ==
  ASSUME NEW T, T \subseteq Nat, T # {}
  PROVE  \E m \in T : \A k \in T : m <= k
<1>1. PICK m \in T : \A k \in T : <<k, m>> \notin OpToRel(<, Nat)
  BY NatLessThanWellFounded, WFMin
<1>2. ASSUME NEW k \in T, k < m
      PROVE  FALSE
  <2>1. <<k, m>> \in OpToRel(<, Nat)
    BY <1>2 DEF OpToRel
  <2>2. QED
    BY <1>1, <2>1
<1>3. \A k \in T : ~(k < m)
  BY <1>2
<1>4. \A k \in T : k \in Nat /\ m \in Nat
  OBVIOUS
<1>5. \A k \in T : m <= k
  BY <1>3, <1>4
<1>6. QED
  BY <1>5

\* A set that has 0 and the successor of each of its numbers has them all.
LEMMA SetInduction ==
  ASSUME NEW S, 0 \in S, \A n \in Nat : n \in S => n + 1 \in S
  PROVE  Nat \subseteq S
<1>1. SUFFICES ASSUME Nat \ S # {}
               PROVE  FALSE
  OBVIOUS
<1>2. PICK m \in Nat \ S : \A k \in Nat \ S : m <= k
  BY <1>1, LeastElement
<1>3. m - 1 \in Nat /\ m - 1 \in S
  BY <1>2
<1>4. QED
  BY <1>2, <1>3
\* f follows links from a start for n steps, or until a null pointer is met.
Chases(f, start, link, nil, n) ==
  f = [k \in 0 .. n |-> IF k = 0 THEN start
                        ELSE IF f[k - 1] = nil THEN nil ELSE link[f[k - 1]]]

\* The recursion has a solution.
LEMMA ChaseExists ==
  ASSUME NEW start, NEW link, NEW nil, NEW n \in Nat
  PROVE  \E f : Chases(f, start, link, nil, n)
<1> DEFINE Solves(f, m) == Chases(f, start, link, nil, m)
           S == {m \in Nat : \E f : Solves(f, m)}
<1>1. 0 \in S
  <2> DEFINE f == [k \in 0 .. 0 |-> start]
  <2>1. Solves(f, 0)
    BY DEF Chases
  <2>2. QED
    BY <2>1
<1>2. ASSUME NEW m \in Nat, m \in S
      PROVE  m + 1 \in S
  <2>1. PICK f : Solves(f, m)
    BY <1>2
  <2> DEFINE last == IF f[m] = nil THEN nil ELSE link[f[m]]
             g == [k \in 0 .. m + 1 |-> IF k = m + 1 THEN last ELSE f[k]]
  <2>2. ASSUME NEW k \in 0 .. m + 1
        PROVE  g[k] = IF k = 0 THEN start
                      ELSE IF g[k - 1] = nil THEN nil ELSE link[g[k - 1]]
    <3>1. CASE k = m + 1
      BY <3>1
    <3>2. CASE k \in 0 .. m
      <4>1. f[k] = IF k = 0 THEN start
                   ELSE IF f[k - 1] = nil THEN nil ELSE link[f[k - 1]]
        BY <2>1, <3>2 DEF Chases
      <4>2. g[k] = f[k] /\ (k # 0 => g[k - 1] = f[k - 1])
        BY <3>2
      <4>3. QED
        BY <4>1, <4>2
    <3>3. QED
      BY <3>1, <3>2
  <2>3. Solves(g, m + 1)
    BY <2>2 DEF Chases
  <2>4. \E h : Solves(h, m + 1)
    <3> HIDE DEF Solves, g
    <3>1. QED
      BY <2>3
  <2>5. QED
    BY <2>4
<1>3. Nat \subseteq S
  <2> HIDE DEF S
  <2>1. QED
    BY <1>1, <1>2, SetInduction
<1>4. QED
  BY <1>3

\* The null pointer is not an entry, and no hour is "no hour".
LEMMA Addresses ==
  /\ MaxEntries \in Nat /\ Nil \notin Entries /\ NoCell \notin Cells
  /\ \A c \in Cells : /\ c[1] \in Years /\ c[2] \in 1 .. 12
                      /\ c[3] \in 1 .. 31 /\ (c[3] = 31 => c[2] + 1 \in 1 .. 12)
BY DateAssumption DEF Nil, Entries, NoCell, Years

\* The fields of a memory.
LEMMA Fields ==
  ASSUME NEW d, d \in Memory
  PROVE  /\ d.cell \in [Entries -> Cells \cup {NoCell}]
         /\ d.minute \in [Entries -> 0 .. 59]
         /\ d.prev \in [Entries -> Entries \cup {Nil}]
         /\ d.next \in [Entries -> Entries \cup {Nil}]
         /\ d.head \in [Cells -> Entries \cup {Nil}]
         /\ d.marks \in SUBSET Marks /\ d.years \in Seq(Years)
         /\ d.low \in SUBSET Years
BY DEF Memory

-----------------------------------------------------------------------------
(* The list of an hour                                                     *)

\* The recursion of Steps, one place after the other.
LEMMA StepsAt ==
  ASSUME NEW d, NEW c, NEW at, at = Steps(d, c)
  PROVE  \A k \in 0 .. MaxEntries :
           at[k] = IF k = 0 THEN d.head[c]
                   ELSE IF at[k - 1] = Nil THEN Nil ELSE d.next[at[k - 1]]
<1>1. \E f : Chases(f, d.head[c], d.next, Nil, MaxEntries)
  BY ChaseExists, Addresses
<1>2. Steps(d, c) = CHOOSE f : Chases(f, d.head[c], d.next, Nil, MaxEntries)
  BY DEF Steps, Chases
<1>3. Chases(at, d.head[c], d.next, Nil, MaxEntries)
  BY <1>1, <1>2
<1>4. QED
  BY <1>3 DEF Chases

\* w is what next leads through from the head of the hour to a null pointer.
IsList(d, c, w, n) ==
  /\ n \in 0 .. MaxEntries /\ w \in [1 .. n -> Entries]
  /\ d.head[c] = IF n = 0 THEN Nil ELSE w[1]
  /\ \A i \in 1 .. n : d.next[w[i]] = IF i = n THEN Nil ELSE w[i + 1]

\* Then it is what a search of the hour meets.
LEMMA PathIs ==
  ASSUME NEW d, NEW c, NEW w, NEW n, IsList(d, c, w, n)
  PROVE  Path(d, c) = w
<1> DEFINE at == Steps(d, c)
           S == {k \in Nat : k <= MaxEntries =>
                               at[k] = IF k < n THEN w[k + 1] ELSE Nil}
<1>1. /\ MaxEntries \in Nat /\ n \in 0 .. MaxEntries
      /\ w \in [1 .. n -> Entries] /\ Nil \notin Entries
  BY Addresses DEF IsList
<1>2. /\ d.head[c] = IF n = 0 THEN Nil ELSE w[1]
      /\ \A i \in 1 .. n : d.next[w[i]] = IF i = n THEN Nil ELSE w[i + 1]
  BY DEF IsList
<1>3. \A k \in 0 .. MaxEntries :
        at[k] = IF k = 0 THEN d.head[c]
                ELSE IF at[k - 1] = Nil THEN Nil ELSE d.next[at[k - 1]]
  <2>1. at = Steps(d, c)
    OBVIOUS
  <2> HIDE DEF at
  <2>2. QED
    BY <2>1, StepsAt
<1> HIDE DEF at
<1>4. 0 \in S
  BY <1>1, <1>2, <1>3
<1>5. ASSUME NEW k \in Nat, k \in S
      PROVE  k + 1 \in S
  <2>1. SUFFICES ASSUME k + 1 <= MaxEntries
                 PROVE  at[k + 1] = IF k + 1 < n THEN w[k + 2] ELSE Nil
    BY <1>1
  <2>2. at[k] = IF k < n THEN w[k + 1] ELSE Nil
    BY <1>1, <1>5, <2>1
  <2>3. at[k + 1] = IF at[k] = Nil THEN Nil ELSE d.next[at[k]]
    BY <1>1, <1>3, <2>1
  <2>4. CASE k >= n
    BY <1>1, <2>2, <2>3, <2>4
  <2>5. CASE k < n
    <3>1. k + 1 \in 1 .. n
      BY <1>1, <2>5
    <3>2. /\ w[k + 1] \in Entries
          /\ d.next[w[k + 1]] = IF k + 1 = n THEN Nil ELSE w[k + 2]
      BY <1>1, <1>2, <3>1
    <3>3. QED
      BY <1>1, <2>2, <2>3, <2>5, <3>2
  <2>6. QED
    BY <1>1, <2>4, <2>5
<1>6. \A k \in 0 .. MaxEntries : at[k] = IF k < n THEN w[k + 1] ELSE Nil
  <2>1. Nat \subseteq S
    <3> HIDE DEF S
    <3>1. QED
      BY <1>4, <1>5, SetInduction
  <2>2. QED
    BY <1>1, <2>1
<1>7. ASSUME NEW j \in 1 .. MaxEntries + 1
      PROVE  /\ at[j - 1] # Nil <=> j \in 1 .. n
             /\ j \in 1 .. n => at[j - 1] = w[j]
  BY <1>1, <1>6
<1>8. {j \in 1 .. MaxEntries + 1 : at[j - 1] # Nil} = 1 .. n
  BY <1>1, <1>7
<1>9. Path(d, c) = [k \in 1 .. n |-> at[k - 1]]
  BY <1>8 DEF Path, at
<1>10. QED
  BY <1>1, <1>7, <1>9

\* Damaged or not, a search of an hour meets entries, the head first.
LEMMA PathMeets ==
  ASSUME NEW d, d \in Memory, NEW c \in Cells
  PROVE  LET p == Path(d, c) IN
         /\ p \in Seq(Entries)
         /\ p = <<>> <=> d.head[c] = Nil
         /\ p # <<>> => p[1] = d.head[c]
<1> DEFINE at == Steps(d, c)
           M == MaxEntries
           N == {k \in 0 .. M + 1 : \A j \in 0 .. M : j >= k => at[j] = Nil}
<1>1. /\ M \in Nat /\ Nil \notin Entries /\ d.head[c] \in Entries \cup {Nil}
      /\ \A e \in Entries : d.next[e] \in Entries \cup {Nil}
  BY Addresses, Fields
<1>2. \A k \in 0 .. M : at[k] = IF k = 0 THEN d.head[c]
                              ELSE IF at[k - 1] = Nil THEN Nil ELSE d.next[at[k - 1]]
  <2>1. at = Steps(d, c)
    OBVIOUS
  <2> HIDE DEF at
  <2>2. QED
    BY <2>1, StepsAt
<1> HIDE DEF at, M
<1>3. PICK n \in N : \A k \in N : n <= k
  <2>1. M + 1 \in N /\ N \subseteq Nat
    BY <1>1
  <2> HIDE DEF N
  <2>2. QED
    BY <2>1, LeastElement
<1>4. \A k \in 0 .. M : at[k] \in Entries \cup {Nil}
  <2> DEFINE S == {k \in Nat : k <= M => at[k] \in Entries \cup {Nil}}
  <2>1. 0 \in S
    BY <1>1, <1>2
  <2>2. ASSUME NEW k \in Nat, k \in S
        PROVE  k + 1 \in S
    <3>1. SUFFICES ASSUME k + 1 <= M
                   PROVE  at[k + 1] \in Entries \cup {Nil}
      OBVIOUS
    <3>2. at[k + 1] = IF at[k] = Nil THEN Nil ELSE d.next[at[k]]
      BY <1>1, <1>2, <3>1
    <3>3. at[k] \in Entries \cup {Nil}
      BY <1>1, <2>2, <3>1
    <3>4. QED
      BY <1>1, <3>2, <3>3
  <2>3. Nat \subseteq S
    <3> HIDE DEF S
    <3>1. QED
      BY <2>1, <2>2, SetInduction
  <2>4. QED
    BY <1>1, <2>3
<1>5. ASSUME NEW k \in 0 .. M, k < n
      PROVE  at[k] # Nil
  <2>1. SUFFICES ASSUME at[k] = Nil
                 PROVE  k \in N
    BY <1>1, <1>3, <1>5
  <2> DEFINE S == {j \in Nat : j >= k /\ j <= M => at[j] = Nil}
  <2>2. 0 \in S
    BY <1>1, <2>1
  <2>3. ASSUME NEW j \in Nat, j \in S
        PROVE  j + 1 \in S
    <3>1. SUFFICES ASSUME j + 1 >= k, j + 1 <= M
                   PROVE  at[j + 1] = Nil
      OBVIOUS
    <3>2. at[j + 1] = IF at[j] = Nil THEN Nil ELSE d.next[at[j]]
      BY <1>1, <1>2, <3>1
    <3>3. CASE j + 1 = k
      BY <2>1, <3>3
    <3>4. CASE j >= k
      BY <1>1, <2>3, <3>1, <3>2, <3>4
    <3>5. QED
      BY <1>1, <3>1, <3>3, <3>4
  <2>4. Nat \subseteq S
    <3> HIDE DEF S
    <3>1. QED
      BY <2>2, <2>3, SetInduction
  <2>5. QED
    BY <1>1, <2>4
<1>6. {j \in 1 .. M + 1 : at[j - 1] # Nil} = 1 .. n
  BY <1>1, <1>3, <1>5
<1>7. Path(d, c) = [k \in 1 .. n |-> at[k - 1]]
  BY <1>6 DEF Path, at, M
<1>8. n \in Nat /\ \A k \in 1 .. n : at[k - 1] \in Entries
  BY <1>1, <1>3, <1>4, <1>5
<1>9. [k \in 1 .. n |-> at[k - 1]] \in Seq(Entries)
  BY <1>8, IsASeq
<1>10. at[0] = d.head[c] /\ (n = 0 <=> at[0] = Nil)
  BY <1>1, <1>2, <1>3, <1>5
<1>11. QED
  BY <1>7, <1>8, <1>9, <1>10

\* The entries of an hour, and w as the list that holds them as it should.
Hour(d, on, c) == {f \in on : d.cell[f] = c}

Listed(d, on, c, w, n) ==
  /\ IsList(d, c, w, n)
  /\ {w[i] : i \in 1 .. n} = Hour(d, on, c)
  /\ \A i, j \in 1 .. n : w[i] = w[j] => i = j
  /\ \A i \in 1 .. n :
       /\ d.prev[w[i]] = IF i = 1 THEN Nil ELSE w[i - 1]
       /\ i > 1 => d.minute[w[i - 1]] <= d.minute[w[i]]

\* What does not touch the head of an hour nor its entries leaves its list.
LEMMA Frame ==
  ASSUME NEW d, NEW d2, NEW on, NEW on2, NEW c, NEW w, NEW n, Listed(d, on, c, w, n),
         d2.head[c] = d.head[c], Hour(d2, on2, c) = Hour(d, on, c),
         \A f \in Hour(d, on, c) : /\ d2.next[f] = d.next[f] /\ d2.prev[f] = d.prev[f]
                                   /\ d2.minute[f] = d.minute[f]
  PROVE  Listed(d2, on2, c, w, n)
<1>1. \A i \in 1 .. n : w[i] \in Hour(d, on, c)
  BY DEF Listed
<1>2. \A i \in 1 .. n : i > 1 => i - 1 \in 1 .. n
  BY DEF Listed, IsList
<1>3. IsList(d2, c, w, n)
  BY <1>1 DEF Listed, IsList
<1>4. QED
  BY <1>1, <1>2, <1>3 DEF Listed

\* As many different entries as there are leave room for no other one.
LEMMA ListShort ==
  ASSUME NEW n \in Nat, NEW w \in [1 .. n -> Entries],
         \A i, j \in 1 .. n : w[i] = w[j] => i = j
  PROVE  n <= MaxEntries
<1> DEFINE D == 1 .. n
<1>1. n \in Nat /\ w \in [D -> Entries] /\ MaxEntries \in Nat
  BY Addresses
<1>2. SUFFICES ASSUME n > MaxEntries
               PROVE  FALSE
  BY <1>1
<1>3. IsFiniteSet(D) /\ Cardinality(D) = n
  BY <1>1, FS_Interval
<1>4. IsFiniteSet(Entries) /\ Cardinality(Entries) = MaxEntries
  <2>1. Entries = 1 .. MaxEntries
    BY DEF Entries
  <2>2. QED
    BY <1>1, <2>1, FS_Interval
<1>5. PICK i, j \in D : i # j /\ w[i] = w[j]
  <2> HIDE DEF D
  <2>1. Cardinality(Entries) < Cardinality(D)
    BY <1>1, <1>2, <1>3, <1>4
  <2>2. QED
    BY <1>1, <1>3, <1>4, <2>1, FS_PigeonHole
<1>6. QED
  BY <1>5

\* Taking the first entry out of a list.
FirstOff(d, d2, c, w, n) ==
  /\ n > 0
  /\ d2.cell = d.cell /\ d2.minute = d.minute
  /\ d2.head[c] = IF n = 1 THEN Nil ELSE w[2]
  /\ \A i \in 2 .. n : /\ d2.next[w[i]] = d.next[w[i]]
                       /\ d2.prev[w[i]] = IF i = 2 THEN Nil ELSE d.prev[w[i]]

LEMMA FirstOut ==
  ASSUME NEW d, NEW d2, NEW on, NEW c, NEW w, NEW n,
         Listed(d, on, c, w, n), FirstOff(d, d2, c, w, n)
  PROVE  \E v, m : Listed(d2, on \ {w[1]}, c, v, m)
<1> USE DEF FirstOff
<1> DEFINE m == n - 1
           v == [k \in 1 .. m |-> w[k + 1]]
<1>1. /\ n \in Nat \ {0} /\ n <= MaxEntries /\ w \in [1 .. n -> Entries] /\ MaxEntries \in Nat
      /\ m \in Nat /\ n = m + 1
  BY Addresses DEF Listed, IsList
<1> HIDE DEF m
<1>2. \A k \in 1 .. m : k + 1 \in 1 .. n /\ k + 1 \in 2 .. n /\ k \in 1 .. n
  BY <1>1
<1>3. v \in [1 .. m -> Entries] /\ \A k \in 1 .. m : v[k] = w[k + 1]
  BY <1>1, <1>2
<1> HIDE DEF v
<1>4. IsList(d2, c, v, m)
  <2>1. d2.head[c] = IF m = 0 THEN Nil ELSE v[1]
    BY <1>1, <1>3
  <2>2. ASSUME NEW i \in 1 .. m
        PROVE  d2.next[v[i]] = IF i = m THEN Nil ELSE v[i + 1]
    <3>1. d.next[w[i + 1]] = IF i + 1 = n THEN Nil ELSE w[(i + 1) + 1]
      BY <1>2 DEF Listed, IsList
    <3>2. d2.next[v[i]] = d.next[w[i + 1]]
      BY <1>2, <1>3
    <3>3. i # m => v[i + 1] = w[(i + 1) + 1]
      BY <1>1, <1>3
    <3>4. QED
      BY <1>1, <3>1, <3>2, <3>3
  <2>3. QED
    BY <1>1, <1>3, <2>1, <2>2 DEF IsList
<1>5. {v[i] : i \in 1 .. m} = Hour(d2, on \ {w[1]}, c)
  <2>1. Hour(d2, on \ {w[1]}, c) = {w[i] : i \in 1 .. n} \ {w[1]}
    BY DEF Listed, Hour
  <2>2. ASSUME NEW i \in 1 .. n, w[i] # w[1]
        PROVE  w[i] \in {v[j] : j \in 1 .. m}
    <3>1. i - 1 \in 1 .. m /\ (i - 1) + 1 = i
      BY <1>1, <2>2
    <3>2. v[i - 1] = w[i]
      BY <1>3, <3>1
    <3>3. QED
      BY <3>1, <3>2
  <2>3. ASSUME NEW i \in 1 .. m
        PROVE  v[i] # w[1] /\ v[i] \in {w[j] : j \in 1 .. n}
    <3>1. i + 1 # 1 /\ i + 1 \in 1 .. n /\ 1 \in 1 .. n
      BY <1>1
    <3>2. QED
      BY <1>3, <3>1 DEF Listed
  <2>4. QED
    BY <2>1, <2>2, <2>3
<1>6. ASSUME NEW i \in 1 .. m, NEW j \in 1 .. m, v[i] = v[j]
      PROVE  i = j
  <2>1. i + 1 = j + 1
    BY <1>2, <1>3, <1>6 DEF Listed
  <2>2. QED
    BY <2>1
<1>7. ASSUME NEW i \in 1 .. m
      PROVE  /\ d2.prev[v[i]] = IF i = 1 THEN Nil ELSE v[i - 1]
             /\ i > 1 => d2.minute[v[i - 1]] <= d2.minute[v[i]]
  <2>1. i + 1 # 1 /\ i + 1 > 1 /\ (i + 1) - 1 = i
    OBVIOUS
  <2>2. /\ d.prev[w[i + 1]] = w[i]
        /\ d.minute[w[i]] <= d.minute[w[i + 1]]
    BY <1>2, <2>1 DEF Listed
  <2>3. d2.prev[v[i]] = IF i = 1 THEN Nil ELSE w[i]
    BY <1>1, <1>2, <1>3, <2>2
  <2>4. i > 1 => v[i - 1] = w[i]
    BY <1>1, <1>3
  <2>5. QED
    BY <1>3, <2>2, <2>3, <2>4
<1>8. Listed(d2, on \ {w[1]}, c, v, m)
  BY <1>4, <1>5, <1>6, <1>7 DEF Listed
<1>9. QED
  BY <1>8

\* Taking the last entry out of a list of two or more.
LEMMA LastOut ==
  ASSUME NEW d, NEW d2, NEW on, NEW c, NEW w, NEW n, Listed(d, on, c, w, n), n > 1,
         d2.cell = d.cell, d2.minute = d.minute, d2.head[c] = d.head[c],
         \A i \in 1 .. n - 1 :
           /\ d2.next[w[i]] = IF i = n - 1 THEN Nil ELSE d.next[w[i]]
           /\ d2.prev[w[i]] = d.prev[w[i]]
  PROVE  \E v, m : Listed(d2, on \ {w[n]}, c, v, m)
<1> DEFINE m == n - 1
           v == [k \in 1 .. m |-> w[k]]
<1>1. /\ n \in Nat /\ n <= MaxEntries /\ w \in [1 .. n -> Entries] /\ MaxEntries \in Nat
      /\ m \in Nat \ {0} /\ n = m + 1
  BY Addresses DEF Listed, IsList
<1>2. \A i \in 1 .. m : /\ d2.next[w[i]] = IF i = m THEN Nil ELSE d.next[w[i]]
                        /\ d2.prev[w[i]] = d.prev[w[i]]
  OBVIOUS
<1> HIDE DEF m
<1>3. \A k \in 1 .. m : k \in 1 .. n /\ k # n /\ k + 1 \in 1 .. n
  BY <1>1
<1>4. v \in [1 .. m -> Entries] /\ \A k \in 1 .. m : v[k] = w[k]
  BY <1>1, <1>3
<1> HIDE DEF v
<1>5. IsList(d2, c, v, m)
  <2>1. d2.head[c] = v[1]
    BY <1>1, <1>4 DEF Listed, IsList
  <2>2. ASSUME NEW i \in 1 .. m
        PROVE  d2.next[v[i]] = IF i = m THEN Nil ELSE v[i + 1]
    <3>1. d.next[w[i]] = w[i + 1]
      BY <1>3 DEF Listed, IsList
    <3>2. i # m => v[i + 1] = w[i + 1]
      BY <1>1, <1>4
    <3>3. QED
      BY <1>2, <1>4, <3>1, <3>2
  <2>3. QED
    BY <1>1, <1>4, <2>1, <2>2 DEF IsList
<1>6. {v[i] : i \in 1 .. m} = Hour(d2, on \ {w[n]}, c)
  <2>1. Hour(d2, on \ {w[n]}, c) = {w[i] : i \in 1 .. n} \ {w[n]}
    BY DEF Listed, Hour
  <2>2. ASSUME NEW i \in 1 .. n, w[i] # w[n]
        PROVE  i \in 1 .. m
    BY <1>1, <2>2
  <2>3. ASSUME NEW i \in 1 .. m
        PROVE  w[i] # w[n]
    <3>1. n \in 1 .. n
      BY <1>1
    <3>2. QED
      BY <1>3, <3>1 DEF Listed
  <2>4. \A i \in 1 .. m : v[i] \in {w[j] : j \in 1 .. n} \ {w[n]}
    BY <1>3, <1>4, <2>3
  <2>5. \A i \in 1 .. n : w[i] # w[n] => w[i] \in {v[j] : j \in 1 .. m}
    BY <1>4, <2>2
  <2>6. ASSUME NEW x \in {w[i] : i \in 1 .. n} \ {w[n]}
        PROVE  x \in {v[j] : j \in 1 .. m}
    <3>1. PICK i \in 1 .. n : x = w[i]
      BY <2>6
    <3>2. QED
      BY <2>5, <2>6, <3>1
  <2>7. {v[j] : j \in 1 .. m} \subseteq {w[j] : j \in 1 .. n} \ {w[n]}
    BY <2>4
  <2>8. QED
    BY <2>1, <2>6, <2>7
<1>7. ASSUME NEW i \in 1 .. m, NEW j \in 1 .. m, v[i] = v[j]
      PROVE  i = j
  BY <1>3, <1>4, <1>7 DEF Listed
<1>8. ASSUME NEW i \in 1 .. m
      PROVE  /\ d2.prev[v[i]] = IF i = 1 THEN Nil ELSE v[i - 1]
             /\ i > 1 => d2.minute[v[i - 1]] <= d2.minute[v[i]]
  <2>1. i > 1 => i - 1 \in 1 .. m
    BY <1>1
  <2>2. QED
    BY <1>2, <1>3, <1>4, <2>1 DEF Listed
<1>9. Listed(d2, on \ {w[n]}, c, v, m)
  BY <1>5, <1>6, <1>7, <1>8 DEF Listed
<1>10. QED
  BY <1>9

\* Putting an entry in front of the i-th of a list, or at its end, where its
\* minute belongs.
PutAt(d, d2, c, w, n, e, i) ==
  /\ d2.cell = d.cell /\ d2.minute = d.minute /\ d.cell[e] = c
  /\ d2.head[c] = IF i = 1 THEN e ELSE d.head[c]
  /\ d2.next[e] = IF i = n + 1 THEN Nil ELSE w[i]
  /\ d2.prev[e] = IF i = 1 THEN Nil ELSE w[i - 1]
  /\ \A j \in 1 .. n : d2.next[w[j]] = IF j = i - 1 THEN e ELSE d.next[w[j]]
  /\ \A j \in 1 .. n : d2.prev[w[j]] = IF j = i THEN e ELSE d.prev[w[j]]
  /\ i > 1 => d.minute[w[i - 1]] <= d.minute[e]
  /\ i <= n => d.minute[e] <= d.minute[w[i]]

LEMMA PutIn ==
  ASSUME NEW d, NEW d2, NEW on, NEW c, NEW w, NEW n, Listed(d, on, c, w, n),
         NEW e \in Entries \ on, NEW i \in 1 .. n + 1, PutAt(d, d2, c, w, n, e, i)
  PROVE  \E v, m : Listed(d2, on \cup {e}, c, v, m)
<1> USE DEF PutAt
<1> DEFINE m == n + 1
           v == [k \in 1 .. m |-> IF k < i THEN w[k] ELSE IF k = i THEN e ELSE w[k - 1]]
<1>1. /\ n \in Nat /\ w \in [1 .. n -> Entries] /\ MaxEntries \in Nat /\ e \in Entries
      /\ i \in 1 .. m /\ m \in Nat /\ m = n + 1
  BY Addresses DEF Listed, IsList
<1> HIDE DEF m
<1>2. ASSUME NEW k \in 1 .. m
      PROVE  \/ k < i /\ k \in 1 .. n
             \/ k = i
             \/ k > i /\ k - 1 \in 1 .. n
  BY <1>1
<1>3. v \in [1 .. m -> Entries]
  BY <1>1, <1>2
<1>4. \A k \in 1 .. m : /\ k < i => v[k] = w[k]
                        /\ k = i => v[k] = e
                        /\ k > i => v[k] = w[k - 1]
  BY <1>1
<1> HIDE DEF v
<1>5. \A k \in 1 .. n : w[k] # e
  BY DEF Listed, Hour
<1>6. ASSUME NEW k \in 1 .. m, NEW j \in 1 .. m, v[k] = v[j]
      PROVE  k = j
  <2>1. \A x, y \in 1 .. n : w[x] = w[y] => x = y
    BY DEF Listed
  <2>2. CASE k < i
    <3>1. k \in 1 .. n /\ v[k] = w[k]
      BY <1>1, <1>4, <2>2
    <3>2. CASE j < i
      <4>1. j \in 1 .. n /\ v[j] = w[j]
        BY <1>1, <1>4, <3>2
      <4>2. w[k] = w[j]
        BY <1>6, <3>1, <4>1
      <4>3. QED
        BY <2>1, <3>1, <4>1, <4>2
    <3>3. CASE j = i
      BY <1>4, <1>5, <1>6, <3>1, <3>3
    <3>4. CASE j > i
      <4>1. j - 1 \in 1 .. n /\ v[j] = w[j - 1]
        BY <1>1, <1>4, <3>4
      <4>2. k = j - 1
        BY <1>6, <2>1, <3>1, <4>1
      <4>3. QED
        BY <1>1, <2>2, <3>4, <4>2
    <3>5. QED
      BY <1>1, <3>2, <3>3, <3>4
  <2>3. CASE k = i
    <3>1. v[k] = e /\ v[j] = e
      BY <1>4, <1>6, <2>3
    <3>2. CASE j < i
      <4>1. j \in 1 .. n /\ v[j] = w[j]
        BY <1>1, <1>4, <3>2
      <4>2. QED
        BY <1>5, <3>1, <4>1
    <3>3. CASE j > i
      <4>1. j - 1 \in 1 .. n /\ v[j] = w[j - 1]
        BY <1>1, <1>4, <3>3
      <4>2. QED
        BY <1>5, <3>1, <4>1
    <3>4. QED
      BY <1>1, <2>3, <3>2, <3>3
  <2>4. CASE k > i
    <3>1. k - 1 \in 1 .. n /\ v[k] = w[k - 1]
      BY <1>1, <1>4, <2>4
    <3>2. CASE j < i
      <4>1. j \in 1 .. n /\ v[j] = w[j]
        BY <1>1, <1>4, <3>2
      <4>2. k - 1 = j
        BY <1>6, <2>1, <3>1, <4>1
      <4>3. QED
        BY <1>1, <2>4, <3>2, <4>2
    <3>3. CASE j = i
      <4>1. v[j] = e /\ w[k - 1] # e
        BY <1>4, <1>5, <3>1, <3>3
      <4>2. QED
        BY <1>6, <3>1, <4>1
    <3>4. CASE j > i
      <4>1. j - 1 \in 1 .. n /\ v[j] = w[j - 1]
        BY <1>1, <1>4, <3>4
      <4>2. k - 1 = j - 1
        BY <1>6, <2>1, <3>1, <4>1
      <4>3. QED
        BY <4>2
    <3>5. QED
      BY <1>1, <3>2, <3>3, <3>4
  <2>5. QED
    BY <1>1, <2>2, <2>3, <2>4
<1>7. m <= MaxEntries
  BY <1>1, <1>3, <1>6, ListShort
<1>8. IsList(d2, c, v, m)
  <2>1. \A j \in 1 .. n : d.next[w[j]] = IF j = n THEN Nil ELSE w[j + 1]
    BY DEF Listed, IsList
  <2>2. d2.head[c] = v[1]
    <3>1. CASE i = 1
      BY <1>1, <1>4, <3>1
    <3>2. CASE i > 1
      BY <1>1, <1>4, <3>2 DEF Listed, IsList
    <3>3. QED
      BY <1>1, <3>1, <3>2
  <2>3. ASSUME NEW k \in 1 .. m
        PROVE  d2.next[v[k]] = IF k = m THEN Nil ELSE v[k + 1]
    <3>1. CASE k < i
      <4>1. /\ k \in 1 .. n /\ k # m /\ k + 1 \in 1 .. m /\ k + 1 <= i
            /\ (k + 1 = i <=> k = i - 1)
        BY <1>1, <3>1
      <4>2. v[k] = w[k] /\ v[k + 1] = IF k = i - 1 THEN e ELSE w[k + 1]
        BY <1>1, <1>4, <3>1, <4>1
      <4>3. k # i - 1 => k # n
        BY <1>1, <3>1
      <4>4. QED
        BY <2>1, <4>1, <4>2, <4>3
    <3>2. CASE k = i
      <4>1. k # m => k + 1 \in 1 .. m /\ k + 1 > i /\ (k + 1) - 1 = i
        BY <1>1, <3>2
      <4>2. v[k] = e /\ (k # m => v[k + 1] = w[i])
        BY <1>4, <3>2, <4>1
      <4>3. QED
        BY <1>1, <3>2, <4>2
    <3>3. CASE k > i
      <4>1. k - 1 \in 1 .. n /\ k - 1 # i - 1 /\ (k - 1) + 1 = k
        BY <1>1, <3>3
      <4>2. v[k] = w[k - 1] /\ d2.next[w[k - 1]] = d.next[w[k - 1]]
        BY <1>4, <3>3, <4>1
      <4>3. d.next[w[k - 1]] = IF k - 1 = n THEN Nil ELSE w[k]
        BY <2>1, <4>1
      <4>4. k # m => k + 1 \in 1 .. m /\ k + 1 > i /\ (k + 1) - 1 = k
        BY <1>1, <3>3
      <4>5. k # m => v[k + 1] = w[k]
        BY <1>4, <4>4
      <4>6. QED
        BY <1>1, <4>2, <4>3, <4>5
    <3>4. QED
      BY <1>1, <3>1, <3>2, <3>3
  <2>4. QED
    BY <1>1, <1>3, <1>7, <2>2, <2>3 DEF IsList
<1>9. {v[k] : k \in 1 .. m} = Hour(d2, on \cup {e}, c)
  <2>1. Hour(d2, on \cup {e}, c) = {w[k] : k \in 1 .. n} \cup {e}
    BY DEF Listed, Hour
  <2>2. \A k \in 1 .. m : v[k] \in {w[j] : j \in 1 .. n} \cup {e}
    BY <1>2, <1>4
  <2>3. ASSUME NEW k \in 1 .. n
        PROVE  w[k] \in {v[j] : j \in 1 .. m}
    <3>1. CASE k < i
      <4>1. k \in 1 .. m /\ v[k] = w[k]
        BY <1>1, <1>4, <3>1
      <4>2. QED
        BY <4>1
    <3>2. CASE k >= i
      <4>1. k + 1 \in 1 .. m /\ k + 1 > i /\ (k + 1) - 1 = k
        BY <1>1, <3>2
      <4>2. v[k + 1] = w[k]
        BY <1>4, <4>1
      <4>3. QED
        BY <4>1, <4>2
    <3>3. QED
      BY <1>1, <3>1, <3>2
  <2>4. e \in {v[j] : j \in 1 .. m}
    BY <1>1, <1>4
  <2>5. \A k \in 1 .. n : w[k] \in {v[j] : j \in 1 .. m}
    BY <2>3
  <2>6. ASSUME NEW x \in {w[k] : k \in 1 .. n} \cup {e}
        PROVE  x \in {v[j] : j \in 1 .. m}
    BY <2>4, <2>5, <2>6
  <2>7. {v[j] : j \in 1 .. m} \subseteq {w[k] : k \in 1 .. n} \cup {e}
    BY <2>2
  <2>8. QED
    BY <2>1, <2>6, <2>7
<1>10. ASSUME NEW k \in 1 .. m
       PROVE  /\ d2.prev[v[k]] = IF k = 1 THEN Nil ELSE v[k - 1]
              /\ k > 1 => d2.minute[v[k - 1]] <= d2.minute[v[k]]
  <2>1. \A j \in 1 .. n : /\ d.prev[w[j]] = IF j = 1 THEN Nil ELSE w[j - 1]
                          /\ j > 1 => d.minute[w[j - 1]] <= d.minute[w[j]]
    BY DEF Listed
  <2>2. CASE k < i
    <3>1. k \in 1 .. n /\ k # i /\ v[k] = w[k]
      BY <1>1, <1>4, <2>2
    <3>2. k > 1 => v[k - 1] = w[k - 1]
      BY <1>1, <1>4, <2>2
    <3>3. QED
      BY <2>1, <3>1, <3>2
  <2>3. CASE k = i
    <3>1. v[k] = e /\ (k > 1 => v[k - 1] = w[i - 1])
      BY <1>1, <1>4, <2>3
    <3>2. QED
      BY <1>1, <2>3, <3>1
  <2>4. CASE k > i
    <3>1. k - 1 \in 1 .. n /\ k # 1 /\ v[k] = w[k - 1]
      BY <1>1, <1>4, <2>4
    <3>2. CASE k - 1 = i
      <4>1. k - 1 \in 1 .. m /\ v[k - 1] = e
        BY <1>1, <1>4, <3>1, <3>2
      <4>2. d2.prev[w[k - 1]] = e /\ i <= n
        BY <1>1, <3>1, <3>2
      <4>3. QED
        BY <3>1, <3>2, <4>1, <4>2
    <3>3. CASE k - 1 > i
      <4>1. k - 1 \in 1 .. m /\ v[k - 1] = w[(k - 1) - 1]
        BY <1>1, <1>4, <3>1, <3>3
      <4>2. k - 1 # i /\ k - 1 # 1 /\ k - 1 > 1
        BY <1>1, <3>3
      <4>3. /\ d2.prev[w[k - 1]] = w[(k - 1) - 1]
            /\ d.minute[w[(k - 1) - 1]] <= d.minute[w[k - 1]]
        BY <2>1, <3>1, <4>2
      <4>4. QED
        BY <3>1, <4>1, <4>3
    <3>4. QED
      BY <1>1, <2>4, <3>2, <3>3
  <2>5. QED
    BY <1>1, <2>2, <2>3, <2>4
<1>11. Listed(d2, on \cup {e}, c, v, m)
  BY <1>6, <1>8, <1>9, <1>10 DEF Listed
<1>12. QED
  BY <1>11

-----------------------------------------------------------------------------
(* The memory stays a memory                                               *)

LEMMA MarkType ==
  ASSUME NEW d, d \in Memory, NEW c \in Cells, NEW low
  PROVE  LET x == Mark(d, c, low) IN
         /\ x \in Memory
         /\ x.cell = d.cell /\ x.minute = d.minute
         /\ x.prev = d.prev /\ x.next = d.next
         /\ x.head = d.head
         /\ x.marks = d.marks \cup {MonthMark(c), DayMark(c)}
         /\ x.years = IF c[1] \in Range(d.years) THEN d.years
                      ELSE Append(d.years, c[1])
<1> DEFINE marks == d.marks \cup {MonthMark(c), DayMark(c)}
           years == IF c[1] \in Range(d.years) THEN d.years ELSE Append(d.years, c[1])
           lows == IF low /\ c[1] \notin Range(d.years) THEN d.low \cup {c[1]} ELSE d.low
<1>1. {MonthMark(c), DayMark(c)} \subseteq Marks
  BY DEF Marks
<1>2. c[1] \in Years /\ d.years \in Seq(Years)
  BY Addresses, Fields
<1>3. Append(d.years, c[1]) \in Seq(Years)
  BY <1>2, AppendProperties
<1>4. marks \in SUBSET Marks /\ years \in Seq(Years) /\ lows \in SUBSET Years
  BY <1>1, <1>2, <1>3, Fields
<1>5. Mark(d, c, low) = [d EXCEPT !.marks = marks, !.years = years, !.low = lows]
  BY DEF Mark
<1> HIDE DEF marks, years, lows
<1>6. /\ Mark(d, c, low) \in Memory
      /\ Mark(d, c, low).cell = d.cell /\ Mark(d, c, low).minute = d.minute
      /\ Mark(d, c, low).prev = d.prev /\ Mark(d, c, low).next = d.next
      /\ Mark(d, c, low).head = d.head
      /\ Mark(d, c, low).marks = marks /\ Mark(d, c, low).years = years
  BY <1>4, <1>5 DEF Memory
<1>7. QED
  BY <1>6 DEF marks, years

\* The place before which an entry goes, and who is met before.
LEMMA LaterLeast ==
  ASSUME NEW d, d \in Memory, NEW c \in Cells, NEW m, Later(d, c, m) # {}
  PROVE  LET p == Path(d, c)
             i == CHOOSE x \in Later(d, c, m) : \A y \in Later(d, c, m) : x <= y
         IN  /\ i \in 1 .. Len(p) /\ Len(p) \in Nat
             /\ p \in [1 .. Len(p) -> Entries]
             /\ d.minute[p[i]] > m
             /\ \A j \in 1 .. Len(p) : j < i => ~(d.minute[p[j]] > m)
<1> DEFINE p == Path(d, c)
           T == Later(d, c, m)
           i == CHOOSE x \in T : \A y \in T : x <= y
<1>1. p \in Seq(Entries)
  BY PathMeets
<1>2. Len(p) \in Nat /\ p \in [1 .. Len(p) -> Entries] /\ DOMAIN p = 1 .. Len(p)
  BY <1>1
<1>3. T = {x \in 1 .. Len(p) : d.minute[p[x]] > m}
  BY <1>2 DEF Later
<1> HIDE DEF p, T
<1>4. \E x \in T : \A y \in T : x <= y
  BY <1>3, LeastElement DEF T
<1>5. i \in T /\ \A y \in T : i <= y
  <2> HIDE DEF i
  <2>1. QED
    BY <1>4 DEF i
<1> HIDE DEF i
<1>6. ASSUME NEW j \in 1 .. Len(p), j < i
      PROVE  ~(d.minute[p[j]] > m)
  BY <1>2, <1>3, <1>5, <1>6
<1>7. /\ i \in 1 .. Len(p) /\ d.minute[p[i]] > m
      /\ \A j \in 1 .. Len(p) : j < i => ~(d.minute[p[j]] > m)
  BY <1>3, <1>5, <1>6
<1>8. QED
  BY <1>2, <1>7 DEF p, T, i

\* New links and heads leave a memory with the same times and marks.
Relink(d, h, p, n) == [d EXCEPT !.head = h, !.prev = p, !.next = n]

LEMMA Relinked ==
  ASSUME NEW d, d \in Memory, NEW h \in [Cells -> Entries \cup {Nil}],
         NEW p \in [Entries -> Entries \cup {Nil}],
         NEW n \in [Entries -> Entries \cup {Nil}]
  PROVE  LET x == Relink(d, h, p, n) IN
         /\ x \in Memory
         /\ x.cell = d.cell /\ x.minute = d.minute
         /\ x.marks = d.marks /\ x.years = d.years /\ x.low = d.low
         /\ x.head = h /\ x.prev = p /\ x.next = n
BY DEF Memory, Relink

\* Insertion changes links only.
LEMMA InsertType ==
  ASSUME NEW d, d \in Memory, NEW c \in Cells, NEW e \in Entries
  PROVE  /\ Insert(d, e, c) \in Memory
         /\ Insert(d, e, c).cell = d.cell /\ Insert(d, e, c).minute = d.minute
         /\ Insert(d, e, c).marks = d.marks /\ Insert(d, e, c).years = d.years
<1> DEFINE p == Path(d, c)
           T == Later(d, c, d.minute[e])
           i == CHOOSE x \in T : \A y \in T : x <= y
           before == p[IF i = 1 THEN 1 ELSE i - 1]
<1>1. p \in Seq(Entries) /\ (p = <<>> <=> d.head[c] = Nil)
  BY PathMeets
<1>2. CASE d.head[c] = Nil
  BY <1>2 DEF Insert, Memory
<1>3. CASE d.head[c] # Nil /\ T = {}
  <2>1. Last(p) \in Entries
    <3> HIDE DEF p
    <3>1. Len(p) \in 1 .. Len(p)
      BY <1>1, <1>3
    <3>2. QED
      BY <1>1, <3>1 DEF Last
  <2> DEFINE prev == [d.prev EXCEPT ![e] = Last(p)]
             next == [d.next EXCEPT ![Last(p)] = e, ![e] = Nil]
  <2>2. Insert(d, e, c) = Relink(d, d.head, prev, next)
    <3>1. Insert(d, e, c) = [d EXCEPT !.next = next, !.prev = prev]
      BY <1>3 DEF Insert
    <3> HIDE DEF prev, next
    <3>2. QED
      BY <3>1 DEF Memory, Relink
  <2>3. /\ prev \in [Entries -> Entries \cup {Nil}] /\ next \in [Entries -> Entries \cup {Nil}]
        /\ d.head \in [Cells -> Entries \cup {Nil}]
    BY <2>1, Fields
  <2> HIDE DEF prev, next
  <2>4. QED
    BY <2>2, <2>3, Relinked
<1>4. CASE d.head[c] # Nil /\ T # {}
  <2>1. p[i] \in Entries /\ before \in Entries
    <3>1. i \in 1 .. Len(p) /\ Len(p) \in Nat /\ p \in [1 .. Len(p) -> Entries]
      BY <1>4, LaterLeast
    <3> HIDE DEF p, i
    <3>2. QED
      BY <3>1
  <2> DEFINE prev == [d.prev EXCEPT ![e] = before, ![p[i]] = e]
             next == [d.next EXCEPT ![before] = e, ![e] = p[i]]
  <2>2. Insert(d, e, c) = Relink(d, d.head, prev, next)
    <3>1. Insert(d, e, c) = [d EXCEPT !.next = next, !.prev = prev]
      BY <1>4 DEF Insert
    <3> HIDE DEF prev, next
    <3>2. QED
      BY <3>1 DEF Memory, Relink
  <2>3. /\ prev \in [Entries -> Entries \cup {Nil}] /\ next \in [Entries -> Entries \cup {Nil}]
        /\ d.head \in [Cells -> Entries \cup {Nil}]
    <3> HIDE DEF p, T, i, before
    <3>1. QED
      BY <2>1, Fields
  <2> HIDE DEF prev, next
  <2>4. QED
    BY <2>2, <2>3, Relinked
<1>5. QED
  BY <1>2, <1>3, <1>4

\* So does taking out: the links of the entry's neighbours, at one end.
TakenOut(d, x, e, c) ==
  LET p == d.prev[e]
      n == d.next[e]
  IN  /\ x.cell = d.cell /\ x.minute = d.minute
      /\ x.marks = d.marks /\ x.years = d.years /\ x.low = d.low
      /\ x.head = IF p = Nil THEN [d.head EXCEPT ![c] = n] ELSE d.head
      /\ x.prev = IF p = Nil /\ n # Nil THEN [d.prev EXCEPT ![n] = Nil]
                  ELSE IF p # Nil /\ n = Nil THEN [d.prev EXCEPT ![e] = Nil]
                  ELSE d.prev
      /\ x.next = IF p = Nil /\ n # Nil THEN [d.next EXCEPT ![e] = Nil]
                  ELSE IF p # Nil /\ n = Nil THEN [d.next EXCEPT ![p] = Nil]
                  ELSE d.next

LEMMA TakeOutIs ==
  ASSUME NEW d, d \in Memory, NEW c \in Cells, NEW e \in Entries
  PROVE  TakeOut(d, e, c) \in Memory /\ TakenOut(d, TakeOut(d, e, c), e, c)
<1> DEFINE p == d.prev[e]
           n == d.next[e]
           h0 == [d.head EXCEPT ![c] = n]
           pn == [d.prev EXCEPT ![n] = Nil]
           pe == [d.prev EXCEPT ![e] = Nil]
           ne == [d.next EXCEPT ![e] = Nil]
           np == [d.next EXCEPT ![p] = Nil]
<1>1. /\ p \in Entries \cup {Nil} /\ n \in Entries \cup {Nil}
      /\ d.head \in [Cells -> Entries \cup {Nil}] /\ h0 \in [Cells -> Entries \cup {Nil}]
      /\ d.prev \in [Entries -> Entries \cup {Nil}] /\ d.next \in [Entries -> Entries \cup {Nil}]
      /\ pn \in [Entries -> Entries \cup {Nil}] /\ pe \in [Entries -> Entries \cup {Nil}]
      /\ ne \in [Entries -> Entries \cup {Nil}] /\ np \in [Entries -> Entries \cup {Nil}]
  <2>1. /\ p \in Entries \cup {Nil} /\ n \in Entries \cup {Nil}
        /\ d.head \in [Cells -> Entries \cup {Nil}]
        /\ d.prev \in [Entries -> Entries \cup {Nil}]
        /\ d.next \in [Entries -> Entries \cup {Nil}]
    BY Fields
  <2> HIDE DEF p, n
  <2>2. h0 \in [Cells -> Entries \cup {Nil}]
    BY <2>1
  <2>3. pn \in [Entries -> Entries \cup {Nil}] /\ pe \in [Entries -> Entries \cup {Nil}]
    BY <2>1
  <2>4. ne \in [Entries -> Entries \cup {Nil}] /\ np \in [Entries -> Entries \cup {Nil}]
    BY <2>1
  <2>5. QED
    BY <2>1, <2>2, <2>3, <2>4
<1>2. CASE p = Nil /\ n = Nil
  <2>1. TakeOut(d, e, c) = [d EXCEPT !.head = h0]
    BY <1>2 DEF TakeOut
  <2> HIDE DEF h0
  <2>2. TakeOut(d, e, c) = Relink(d, h0, d.prev, d.next)
    BY <2>1 DEF Memory, Relink
  <2>3. QED
    BY <1>1, <1>2, <2>2, Relinked DEF h0, TakenOut
<1>3. CASE p = Nil /\ n # Nil
  <2>1. TakeOut(d, e, c) = Relink(d, h0, pn, ne)
    BY <1>3 DEF TakeOut, Relink
  <2> HIDE DEF h0, pn, ne
  <2>2. /\ TakeOut(d, e, c) \in Memory
        /\ TakeOut(d, e, c).cell = d.cell /\ TakeOut(d, e, c).minute = d.minute
        /\ TakeOut(d, e, c).marks = d.marks /\ TakeOut(d, e, c).years = d.years
        /\ TakeOut(d, e, c).low = d.low
        /\ TakeOut(d, e, c).head = h0
        /\ TakeOut(d, e, c).prev = pn /\ TakeOut(d, e, c).next = ne
    BY <1>1, <2>1, Relinked
  <2>3. QED
    BY <1>3, <2>2 DEF h0, pn, ne, TakenOut
<1>4. CASE p # Nil /\ n = Nil
  <2>1. TakeOut(d, e, c) = [d EXCEPT !.next = np, !.prev = pe]
    BY <1>4 DEF TakeOut
  <2> HIDE DEF h0, pn, ne, np, pe
  <2>2. TakeOut(d, e, c) = Relink(d, d.head, pe, np)
    BY <2>1 DEF Memory, Relink
  <2>3. /\ TakeOut(d, e, c) \in Memory
        /\ TakeOut(d, e, c).cell = d.cell /\ TakeOut(d, e, c).minute = d.minute
        /\ TakeOut(d, e, c).marks = d.marks /\ TakeOut(d, e, c).years = d.years
        /\ TakeOut(d, e, c).low = d.low
        /\ TakeOut(d, e, c).head = d.head
        /\ TakeOut(d, e, c).prev = pe /\ TakeOut(d, e, c).next = np
    <3>1. /\ d.head \in [Cells -> Entries \cup {Nil}]
          /\ pe \in [Entries -> Entries \cup {Nil}]
          /\ np \in [Entries -> Entries \cup {Nil}]
      BY <1>1
    <3> HIDE DEF p, n
    <3>2. QED
      BY <2>2, <3>1, Relinked
  <2>4. QED
    BY <1>4, <2>3 DEF np, pe, TakenOut
<1>5. CASE p # Nil /\ n # Nil
  BY <1>5 DEF TakeOut, TakenOut
<1>6. QED
  BY <1>2, <1>3, <1>4, <1>5

\* A memory with other marks.
Remarked(d, x, marks) ==
  /\ x \in Memory
  /\ x.cell = d.cell /\ x.minute = d.minute /\ x.prev = d.prev
  /\ x.next = d.next /\ x.head = d.head /\ x.years = d.years /\ x.low = d.low
  /\ x.marks = marks

\* Clearing a day takes away its mark just if there is nothing below it; clearing
\* a month just if nothing that stands for one of its days is in use.
DayFree(d, c) == \A x \in Cells : Day(x) = Day(c) => d.head[x] = Nil

MonthFree(d, c) ==
  /\ DayMark(c) \notin d.marks /\ d.marks \cap DaysOf(c) = {}
  /\ DayZero(c) \in Cells => d.head[DayZero(c)] = Nil
  /\ c[2] = 12 => c[1] \notin d.low

LEMMA ClearDayIs ==
  ASSUME NEW d, d \in Memory, NEW c
  PROVE  Remarked(d, ClearDay(d, c),
                  IF DayFree(d, c) THEN d.marks \ {DayMark(c)} ELSE d.marks)
<1>1. CASE DayFree(d, c)
  <2>1. ClearDay(d, c) = [d EXCEPT !.marks = @ \ {DayMark(c)}]
    BY <1>1 DEF ClearDay, DayFree
  <2>2. QED
    BY <1>1, <2>1 DEF Memory, Remarked
<1>2. CASE ~DayFree(d, c)
  <2>1. ClearDay(d, c) = d
    BY <1>2 DEF ClearDay, DayFree
  <2>2. QED
    BY <1>2, <2>1 DEF Remarked
<1>3. QED
  BY <1>1, <1>2

LEMMA ClearMonthIs ==
  ASSUME NEW d, d \in Memory, NEW c
  PROVE  Remarked(d, ClearMonth(d, c),
                  IF MonthFree(d, c) THEN d.marks \ {MonthMark(c)} ELSE d.marks)
<1>1. CASE MonthFree(d, c)
  <2>1. ClearMonth(d, c) = [d EXCEPT !.marks = @ \ {MonthMark(c)}]
    BY <1>1 DEF ClearMonth, MonthFree
  <2>2. QED
    BY <1>1, <2>1 DEF Memory, Remarked
<1>2. CASE ~MonthFree(d, c)
  <2>1. ClearMonth(d, c) = d
    BY <1>2 DEF ClearMonth, MonthFree
  <2>2. QED
    BY <1>2, <2>1 DEF Remarked
<1>3. QED
  BY <1>1, <1>2

-----------------------------------------------------------------------------
(* The list of years                                                       *)

\* Taking a year out of a list that has it once.
LEMMA YearOut ==
  ASSUME NEW s \in Seq(Years), IsInjective(s), NEW y \in Range(s)
  PROVE  LET t == RemoveAt(s, Place(s, y)) IN
         t \in Seq(Years) /\ IsInjective(t) /\ Range(t) = Range(s) \ {y}
<1> DEFINE i == Place(s, y)
           n == Len(s)
           a == SubSeq(s, 1, i - 1)
           b == SubSeq(s, i + 1, n)
           t == a \o b
<1>1. n \in Nat /\ s \in [1 .. n -> Years] /\ DOMAIN s = 1 .. n
  OBVIOUS
<1>2. i \in 1 .. n /\ s[i] = y
  <2>1. \E k \in DOMAIN s : s[k] = y
    BY DEF Range
  <2>2. QED
    BY <1>1, <2>1 DEF Place
<1>3. RemoveAt(s, Place(s, y)) = t
  BY DEF RemoveAt
<1> HIDE DEF i, n
<1>4. /\ a \in Seq(Years) /\ Len(a) = i - 1
      /\ \A k \in 1 .. i - 1 : a[k] = s[k]
  <2>1. 1 \in Int /\ i - 1 \in Int /\ \A k \in 1 .. i - 1 : s[k] \in Years
    BY <1>1, <1>2
  <2>2. /\ SubSeq(s, 1, i - 1) \in Seq(Years)
        /\ Len(SubSeq(s, 1, i - 1)) = IF 1 <= i - 1 THEN (i - 1) - 1 + 1 ELSE 0
        /\ \A k \in 1 .. (i - 1) - 1 + 1 : SubSeq(s, 1, i - 1)[k] = s[1 + k - 1]
    BY <2>1, SubSeqProperties
  <2>3. \A k \in 1 .. i - 1 : k \in 1 .. (i - 1) - 1 + 1 /\ 1 + k - 1 = k
    BY <1>1, <1>2
  <2>4. QED
    BY <1>1, <1>2, <2>2, <2>3
<1>5. /\ b \in Seq(Years) /\ Len(b) = n - i
      /\ \A k \in 1 .. n - i : b[k] = s[k + i]
  <2>1. i + 1 \in Int /\ n \in Int /\ \A k \in i + 1 .. n : s[k] \in Years
    BY <1>1, <1>2
  <2>2. /\ SubSeq(s, i + 1, n) \in Seq(Years)
        /\ Len(SubSeq(s, i + 1, n)) = IF i + 1 <= n THEN n - (i + 1) + 1 ELSE 0
        /\ \A k \in 1 .. n - (i + 1) + 1 : SubSeq(s, i + 1, n)[k] = s[(i + 1) + k - 1]
    BY <2>1, SubSeqProperties
  <2>3. \A k \in 1 .. n - i : k \in 1 .. n - (i + 1) + 1 /\ (i + 1) + k - 1 = k + i
    BY <1>1, <1>2
  <2>4. QED
    BY <1>1, <1>2, <2>2, <2>3
<1> HIDE DEF a, b
<1>6. /\ t \in Seq(Years) /\ Len(t) = (i - 1) + (n - i)
      /\ \A k \in 1 .. (i - 1) + (n - i) :
           t[k] = IF k <= i - 1 THEN a[k] ELSE b[k - (i - 1)]
  <2>1. /\ a \o b \in Seq(Years) /\ Len(a \o b) = Len(a) + Len(b)
        /\ \A k \in 1 .. Len(a) + Len(b) :
             (a \o b)[k] = IF k <= Len(a) THEN a[k] ELSE b[k - Len(a)]
    BY <1>4, <1>5, ConcatProperties
  <2>2. QED
    BY <1>4, <1>5, <2>1
<1> HIDE DEF t
<1>7. DOMAIN t = 1 .. n - 1 /\ n - 1 \in Nat
  BY <1>1, <1>2, <1>6
<1>8. ASSUME NEW k \in 1 .. n - 1
      PROVE  /\ k < i => t[k] = s[k] /\ k \in 1 .. n
             /\ k >= i => t[k] = s[k + 1] /\ k + 1 \in 1 .. n
  <2>1. k \in 1 .. (i - 1) + (n - i)
    BY <1>1, <1>2
  <2>2. CASE k < i
    <3>1. k <= i - 1 /\ k \in 1 .. i - 1
      BY <1>1, <1>2, <2>2
    <3>2. QED
      BY <1>1, <1>2, <1>4, <1>6, <2>1, <2>2, <3>1
  <2>3. CASE k >= i
    <3>1. /\ ~(k <= i - 1) /\ k - (i - 1) \in 1 .. n - i
          /\ (k - (i - 1)) + i = k + 1 /\ k + 1 \in 1 .. n
      BY <1>1, <1>2, <2>3
    <3>2. b[k - (i - 1)] = s[k + 1]
      BY <1>5, <3>1
    <3>3. QED
      BY <1>1, <1>2, <1>6, <2>1, <2>3, <3>1, <3>2
  <2>4. QED
    BY <1>1, <1>2, <2>2, <2>3
<1>9. \A k, j \in 1 .. n : s[k] = s[j] => k = j
  BY <1>1 DEF IsInjective
<1>10. ASSUME NEW k \in 1 .. n - 1, NEW j \in 1 .. n - 1, t[k] = t[j]
       PROVE  k = j
  <2>1. CASE k < i /\ j < i
    BY <1>8, <1>9, <1>10, <2>1
  <2>2. CASE k >= i /\ j >= i
    <3>1. k + 1 = j + 1
      BY <1>8, <1>9, <1>10, <2>2
    <3>2. QED
      BY <3>1
  <2>3. CASE k < i /\ j >= i
    <3>1. k = j + 1
      BY <1>8, <1>9, <1>10, <2>3
    <3>2. QED
      BY <1>2, <2>3, <3>1
  <2>4. CASE k >= i /\ j < i
    <3>1. k + 1 = j
      BY <1>8, <1>9, <1>10, <2>4
    <3>2. QED
      BY <1>2, <2>4, <3>1
  <2>5. QED
    BY <1>1, <1>2, <2>1, <2>2, <2>3, <2>4
<1>11. Range(t) = Range(s) \ {y}
  <2>1. ASSUME NEW k \in 1 .. n - 1
        PROVE  t[k] \in Range(s) /\ t[k] # y
    <3>1. PICK j \in 1 .. n : t[k] = s[j] /\ j # i
      <4>1. CASE k < i
        BY <1>2, <1>8, <4>1
      <4>2. CASE k >= i
        <5>1. k + 1 # i /\ k + 1 \in 1 .. n /\ t[k] = s[k + 1]
          BY <1>2, <1>8, <4>2
        <5>2. QED
          BY <5>1
      <4>3. QED
        BY <1>1, <1>2, <4>1, <4>2
    <3>2. QED
      BY <1>1, <1>2, <1>9, <3>1 DEF Range
  <2>2. ASSUME NEW j \in 1 .. n, s[j] # y
        PROVE  s[j] \in Range(t)
    <3>1. CASE j < i
      <4>1. j \in 1 .. n - 1 /\ t[j] = s[j]
        BY <1>1, <1>2, <1>8, <3>1
      <4>2. QED
        BY <1>7, <4>1 DEF Range
    <3>2. CASE j > i
      <4>1. j - 1 \in 1 .. n - 1 /\ j - 1 >= i /\ (j - 1) + 1 = j
        BY <1>1, <1>2, <3>2
      <4>2. t[j - 1] = s[j]
        BY <1>8, <4>1
      <4>3. QED
        BY <1>7, <4>1, <4>2 DEF Range
    <3>3. QED
      BY <1>1, <1>2, <2>2, <3>1, <3>2
  <2>3. Range(t) \subseteq Range(s) \ {y}
    BY <1>7, <2>1 DEF Range
  <2>4. Range(s) \ {y} \subseteq Range(t)
    BY <1>1, <2>2 DEF Range
  <2>5. QED
    BY <2>3, <2>4
<1>12. IsInjective(t)
  BY <1>7, <1>10 DEF IsInjective
<1>13. QED
  BY <1>3, <1>6, <1>11, <1>12

\* A year is listed, once, just as long as one of its months is marked.
YearsExact(d) ==
  /\ IsInjective(d.years)
  /\ \A y \in Years : y \in Range(d.years) <=> d.marks \cap MonthsOf(y) # {}

\* Whose marks the marks of an hour are.
LEMMA MarkPlaces ==
  ASSUME NEW c \in Cells
  PROVE  /\ MonthMark(c) \in MonthsOf(c[1]) /\ DayMark(c) \in DaysOf(c)
         /\ MonthMark(c)[1] = c[1] /\ DayMark(c)[1] = c[1]
         /\ \A y : MonthMark(c) \in MonthsOf(y) \/ DayMark(c) \in MonthsOf(y) => y = c[1]
         /\ \A y : \A m \in MonthsOf(y) : m[1] = y
<1>1. \A y : \A m \in MonthsOf(y) : m[1] = y
  BY DEF MonthsOf
<1>2. MonthMark(c)[1] = c[1] /\ DayMark(c)[1] = c[1]
  BY DEF MonthMark, DayMark
<1>3. MonthMark(c) \in MonthsOf(c[1])
  BY Addresses DEF MonthMark, MonthsOf
<1>4. DayMark(c) \in DaysOf(c)
  BY Addresses DEF DayMark, DaysOf
<1>5. QED
  BY <1>1, <1>2, <1>3, <1>4

\* Marking an hour lists its year.
LEMMA MarkYears ==
  ASSUME NEW d, d \in Memory, NEW c \in Cells, NEW low, YearsExact(d)
  PROVE  YearsExact(Mark(d, c, low)) /\ c[1] \in Range(Mark(d, c, low).years)
<1> DEFINE s == d.years
           t == Mark(d, c, low).years
           y0 == c[1]
<1>1. /\ s \in Seq(Years) /\ y0 \in Years /\ IsInjective(s)
      /\ t = IF y0 \in Range(s) THEN s ELSE Append(s, y0)
      /\ Mark(d, c, low).marks = d.marks \cup {MonthMark(c), DayMark(c)}
  BY Addresses, Fields, MarkType DEF YearsExact
<1> HIDE DEF s, t
<1>2. Range(t) = Range(s) \cup {y0} /\ IsInjective(t)
  <2>1. CASE y0 \in Range(s)
    BY <1>1, <2>1
  <2>2. CASE y0 \notin Range(s)
    <3>1. t = Append(s, y0)
      BY <1>1, <2>2
    <3>2. /\ Len(s) \in Nat /\ DOMAIN s = 1 .. Len(s)
          /\ t \in Seq(Years) /\ Len(t) = Len(s) + 1 /\ t[Len(s) + 1] = y0
          /\ \A k \in 1 .. Len(s) : t[k] = s[k]
      BY <1>1, <3>1, AppendProperties
    <3>3. DOMAIN t = 1 .. Len(s) + 1
      BY <3>2
    <3>4. Range(t) = Range(s) \cup {y0}
      BY <3>2, <3>3 DEF Range
    <3>5. \A k \in 1 .. Len(s) : s[k] # y0
      BY <2>2, <3>2 DEF Range
    <3>6. ASSUME NEW k \in 1 .. Len(s) + 1, NEW j \in 1 .. Len(s) + 1, t[k] = t[j]
          PROVE  k = j
      <4>1. CASE k = Len(s) + 1
        BY <3>2, <3>5, <3>6, <4>1
      <4>2. CASE j = Len(s) + 1
        BY <3>2, <3>5, <3>6, <4>2
      <4>3. CASE k \in 1 .. Len(s) /\ j \in 1 .. Len(s)
        BY <1>1, <3>2, <3>6, <4>3 DEF IsInjective
      <4>4. QED
        BY <3>2, <4>1, <4>2, <4>3
    <3>7. IsInjective(t)
      BY <3>3, <3>6 DEF IsInjective
    <3>8. QED
      BY <3>4, <3>7
  <2>3. QED
    BY <2>1, <2>2
<1>3. ASSUME NEW y \in Years
      PROVE  y \in Range(t) <=> (d.marks \cup {MonthMark(c), DayMark(c)}) \cap MonthsOf(y) # {}
  <2>1. y \in Range(s) <=> d.marks \cap MonthsOf(y) # {}
    BY DEF YearsExact, s
  <2>2. CASE y = y0
    BY <1>2, <2>2, MarkPlaces
  <2>3. CASE y # y0
    BY <1>2, <2>1, <2>3, MarkPlaces
  <2>4. QED
    BY <2>2, <2>3
<1>4. QED
  BY <1>1, <1>2, <1>3 DEF YearsExact, t

-----------------------------------------------------------------------------
(* Unlinking                                                               *)

\* The part of an unlink after the entry has been taken out: c's day, month
\* and year, as far as nothing is left below them.
DayStep(d1, c) == d1.head[c] = Nil /\ DayFree(d1, c)

ClearedDay(d1, d2, c) ==
  /\ d2.head = d1.head /\ d2.years = d1.years /\ d2.low = d1.low
  /\ d2.marks = IF DayStep(d1, c) THEN d1.marks \ {DayMark(c)} ELSE d1.marks

ClearedMonth(d2, d3, c) ==
  /\ d3.head = d2.head /\ d3.years = d2.years
  /\ d3.marks = IF MonthFree(d2, c) THEN d2.marks \ {MonthMark(c)} ELSE d2.marks

ClearedYear(d3, d4, c) ==
  \/ /\ d3.marks \cap MonthsOf(c[1]) # {}
     /\ d4.head = d3.head /\ d4.years = d3.years /\ d4.marks = d3.marks
  \/ /\ d3.marks \cap MonthsOf(c[1]) = {}
     /\ d4.years = RemoveAt(d3.years, Place(d3.years, c[1]))
     /\ d4.marks = {m \in d3.marks : m[1] # c[1]}
     /\ d4.head = [x \in Cells |-> IF x[1] = c[1] THEN Nil ELSE d3.head[x]]

Cleared(d1, d4, c) ==
  \E d2, d3 \in Memory :
    ClearedDay(d1, d2, c) /\ ClearedMonth(d2, d3, c) /\ ClearedYear(d3, d4, c)

Untouched(d, e) ==
  d.cell[e] = NoCell \/ d.cell[e][1] \notin Range(d.years) \/ d.head[d.cell[e]] = Nil

LEMMA UnlinkSteps ==
  ASSUME NEW d, d \in Memory, YearsExact(d), NEW e \in Entries, ~Untouched(d, e)
  PROVE  LET c  == d.cell[e]
             d1 == TakeOut(d, e, c)
             d4 == Unlink(d, e)
         IN  /\ c \in Cells /\ d1 \in Memory /\ d4 \in Memory
             /\ d4.cell = d.cell /\ d4.minute = d.minute
             /\ d4.prev = d1.prev /\ d4.next = d1.next
             /\ Cleared(d1, d4, c)
<1> DEFINE c  == d.cell[e]
           d1 == TakeOut(d, e, c)
           d2 == IF d1.head[c] = Nil THEN ClearDay(d1, c) ELSE d1
           d3 == IF DayMark(c) \notin d2.marks THEN ClearMonth(d2, c) ELSE d2
           d4 == IF MonthMark(c) \notin d3.marks THEN ClearYear(d3, c) ELSE d3
<1>1. c \in Cells /\ c[1] \in Range(d.years)
  BY Fields DEF Untouched
<1>2. Unlink(d, e) = d4
  BY DEF Unlink, Untouched
<1> HIDE DEF c
<1>3. /\ d1 \in Memory
      /\ d1.cell = d.cell /\ d1.minute = d.minute
      /\ d1.marks = d.marks /\ d1.years = d.years
  BY <1>1, TakeOutIs DEF TakenOut
<1> HIDE DEF d1
<1>4. /\ d2 \in Memory
      /\ d2.cell = d1.cell /\ d2.minute = d1.minute /\ d2.prev = d1.prev
      /\ d2.next = d1.next /\ d2.head = d1.head /\ d2.years = d1.years
      /\ d2.low = d1.low
      /\ d2.marks = IF DayStep(d1, c) THEN d1.marks \ {DayMark(c)} ELSE d1.marks
  BY <1>3, ClearDayIs DEF DayStep, Remarked
<1> HIDE DEF d2
<1>5. /\ d3 \in Memory
      /\ d3.cell = d2.cell /\ d3.minute = d2.minute /\ d3.prev = d2.prev
      /\ d3.next = d2.next /\ d3.head = d2.head /\ d3.years = d2.years
      /\ d3.marks = IF MonthFree(d2, c) THEN d2.marks \ {MonthMark(c)} ELSE d2.marks
  <2>1. CASE DayMark(c) \notin d2.marks
    BY <1>4, <2>1, ClearMonthIs DEF Remarked
  <2>2. CASE DayMark(c) \in d2.marks
    BY <1>4, <2>2 DEF MonthFree
  <2>3. QED
    BY <2>1, <2>2
<1> HIDE DEF d3
<1>9. ClearedDay(d1, d2, c) /\ ClearedMonth(d2, d3, c)
  BY <1>4, <1>5 DEF ClearedDay, ClearedMonth
<1>6. CASE d3.marks \cap MonthsOf(c[1]) = {}
  <2> DEFINE years == RemoveAt(d3.years, Place(d3.years, c[1]))
             marks == {m \in d3.marks : m[1] # c[1]}
             lows == d3.low \ {c[1]}
             head == [x \in Cells |-> IF x[1] = c[1] THEN Nil ELSE d3.head[x]]
  <2>1. MonthMark(c) \notin d3.marks
    BY <1>1, <1>6, MarkPlaces
  <2>2. d4 = [d3 EXCEPT !.years = years, !.marks = marks, !.low = lows, !.head = head]
    BY <1>6, <2>1 DEF ClearYear
  <2>3. years \in Seq(Years)
    <3>1. d3.years \in Seq(Years) /\ IsInjective(d3.years) /\ c[1] \in Range(d3.years)
      BY <1>1, <1>3, <1>4, <1>5, Fields DEF YearsExact
    <3>2. QED
      BY <3>1, YearOut
  <2>4. marks \in SUBSET Marks /\ lows \in SUBSET Years /\ head \in [Cells -> Entries \cup {Nil}]
    BY <1>5, Fields
  <2> HIDE DEF years, marks, lows, head
  <2>5. /\ d4 \in Memory /\ d4.cell = d3.cell /\ d4.minute = d3.minute
        /\ d4.prev = d3.prev /\ d4.next = d3.next
        /\ d4.years = years /\ d4.marks = marks /\ d4.head = head
    BY <1>5, <2>2, <2>3, <2>4 DEF Memory
  <2> HIDE DEF d4
  <2>6. Cleared(d1, d4, c)
    <3>1. /\ d4.years = RemoveAt(d3.years, Place(d3.years, c[1]))
          /\ d4.marks = {m \in d3.marks : m[1] # c[1]}
          /\ d4.head = [x \in Cells |-> IF x[1] = c[1] THEN Nil ELSE d3.head[x]]
      BY <2>5 DEF years, marks, head
    <3>2. ClearedYear(d3, d4, c)
      BY <1>6, <3>1 DEF ClearedYear
    <3>3. QED
      BY <1>4, <1>5, <1>9, <3>2 DEF Cleared
  <2>7. QED
    BY <1>1, <1>2, <1>3, <1>4, <1>5, <2>5, <2>6 DEF c, d1
<1>7. CASE d3.marks \cap MonthsOf(c[1]) # {}
  <2>1. d4 = d3
    BY <1>7 DEF ClearYear
  <2> HIDE DEF d4
  <2>2. ClearedYear(d3, d4, c)
    BY <1>7, <2>1 DEF ClearedYear
  <2>3. Cleared(d1, d4, c)
    BY <1>4, <1>5, <1>9, <2>2 DEF Cleared
  <2>4. QED
    BY <1>1, <1>2, <1>3, <1>4, <1>5, <2>1, <2>3 DEF c, d1
<1>8. QED
  BY <1>6, <1>7

\* Whatever was unlinked, and whether or not it was listed where it should be,
\* the list of years stays exact.
LEMMA UnlinkYears ==
  ASSUME NEW d, d \in Memory, YearsExact(d), NEW e \in Entries
  PROVE  /\ Unlink(d, e) \in Memory /\ YearsExact(Unlink(d, e))
         /\ Unlink(d, e).cell = d.cell /\ Unlink(d, e).minute = d.minute
<1>1. CASE Untouched(d, e)
  <2>1. Unlink(d, e) = d
    BY <1>1 DEF Untouched, Unlink
  <2>2. QED
    BY <2>1
<1>2. CASE ~Untouched(d, e)
  <2> DEFINE c  == d.cell[e]
             d1 == TakeOut(d, e, c)
             d4 == Unlink(d, e)
  <2>1. /\ c \in Cells /\ d1 \in Memory /\ d4 \in Memory
        /\ d4.cell = d.cell /\ d4.minute = d.minute
        /\ Cleared(d1, d4, c)
    BY <1>2, UnlinkSteps
  <2>2. d1.marks = d.marks /\ d1.years = d.years
    BY <2>1, TakeOutIs DEF TakenOut
  <2>3. c[1] \in Range(d.years) /\ d.years \in Seq(Years)
    BY <1>2, Fields DEF Untouched
  <2> HIDE DEF c, d1, d4
  <2>4. PICK d2, d3 \in Memory :
          /\ d3.years = d1.years
          /\ d2.marks = d1.marks \/ d2.marks = d1.marks \ {DayMark(c)}
          /\ d3.marks = d2.marks \/ d3.marks = d2.marks \ {MonthMark(c)}
          /\ \/ /\ d3.marks \cap MonthsOf(c[1]) # {}
                /\ d4.years = d3.years /\ d4.marks = d3.marks
             \/ /\ d3.marks \cap MonthsOf(c[1]) = {}
                /\ d4.years = RemoveAt(d3.years, Place(d3.years, c[1]))
                /\ d4.marks = {m \in d3.marks : m[1] # c[1]}
    BY <2>1 DEF Cleared, ClearedDay, ClearedMonth, ClearedYear
  <2>5. \A y : \A m \in MonthsOf(y) : y # c[1] =>
               m # DayMark(c) /\ m # MonthMark(c) /\ m[1] # c[1]
    BY <2>1, MarkPlaces
  <2>6. IsInjective(d.years)
        /\ \A y \in Years : y \in Range(d.years) <=> d.marks \cap MonthsOf(y) # {}
    BY DEF YearsExact
  <2>7. CASE d3.marks \cap MonthsOf(c[1]) # {}
    <3>1. d4.years = d.years /\ d4.marks = d3.marks
      BY <2>2, <2>4, <2>7
    <3>2. ASSUME NEW y \in Years
          PROVE  y \in Range(d4.years) <=> d4.marks \cap MonthsOf(y) # {}
      <4>1. CASE y = c[1]
        BY <2>3, <2>7, <3>1, <4>1
      <4>2. CASE y # c[1]
        <5>1. d4.marks \cap MonthsOf(y) = d.marks \cap MonthsOf(y)
          BY <2>2, <2>4, <2>5, <3>1, <4>2
        <5>2. QED
          BY <2>6, <3>1, <5>1
      <4>3. QED
        BY <4>1, <4>2
    <3>3. YearsExact(d4)
      BY <2>6, <3>1, <3>2 DEF YearsExact
    <3>4. QED
      BY <2>1, <3>3 DEF d4
  <2>8. CASE d3.marks \cap MonthsOf(c[1]) = {}
    <3>1. /\ d4.years = RemoveAt(d.years, Place(d.years, c[1]))
          /\ d4.marks = {m \in d3.marks : m[1] # c[1]}
      BY <2>2, <2>4, <2>8
    <3>2. IsInjective(d4.years) /\ Range(d4.years) = Range(d.years) \ {c[1]}
      BY <2>3, <2>6, <3>1, YearOut
    <3>3. ASSUME NEW y \in Years
          PROVE  y \in Range(d4.years) <=> d4.marks \cap MonthsOf(y) # {}
      <4>1. CASE y = c[1]
        BY <2>8, <3>1, <3>2, <4>1
      <4>2. CASE y # c[1]
        <5>1. d4.marks \cap MonthsOf(y) = d.marks \cap MonthsOf(y)
          BY <2>2, <2>4, <2>5, <3>1, <4>2
        <5>2. QED
          BY <2>6, <3>2, <4>2, <5>1
      <4>3. QED
        BY <4>1, <4>2
    <3>4. YearsExact(d4)
      BY <3>2, <3>3 DEF YearsExact
    <3>5. QED
      BY <2>1, <3>4 DEF d4
  <2>9. QED
    BY <2>7, <2>8
<1>3. QED
  BY <1>1, <1>2

-----------------------------------------------------------------------------
(* Undamaged                                                               *)

HoursGood(d, on) == \A c \in Cells : \E w, n : Listed(d, on, c, w, n)

\* The marks are those on the way to the entries and those of the months kept.
Supports(d, f, m) == m = MonthMark(d.cell[f]) \/ m = DayMark(d.cell[f])

Months == {MonthMark(c) : c \in Cells}

WayGood(d, on, kept) ==
  /\ \A f \in on : MonthMark(d.cell[f]) \in d.marks /\ DayMark(d.cell[f]) \in d.marks
  /\ \A m \in d.marks : m \in kept \/ \E f \in on : Supports(d, f, m)

Good(d, on, kept) ==
  /\ on \subseteq Entries /\ kept \subseteq Months
  /\ \A f \in on : d.cell[f] \in Cells
  /\ HoursGood(d, on)
  /\ WayGood(d, on, kept)

\* An entry that is listed has a place in the list of its hour.
LEMMA HasPlace ==
  ASSUME NEW d, NEW on, NEW c, NEW w, NEW n, Listed(d, on, c, w, n),
         NEW e \in on, d.cell[e] = c
  PROVE  \E k \in 1 .. n :
           /\ w[k] = e /\ n \in Nat
           /\ d.prev[e] = IF k = 1 THEN Nil ELSE w[k - 1]
           /\ d.next[e] = IF k = n THEN Nil ELSE w[k + 1]
           /\ k > 1 => w[k - 1] \in Hour(d, on, c) \cap Entries
           /\ k < n => w[k + 1] \in Hour(d, on, c) \cap Entries
<1>1. e \in Hour(d, on, c)
  BY DEF Hour
<1>2. PICK k \in 1 .. n : w[k] = e
  BY <1>1 DEF Listed
<1>3. n \in Nat /\ w \in [1 .. n -> Entries]
  BY Addresses DEF Listed, IsList
<1>4. d.prev[e] = IF k = 1 THEN Nil ELSE w[k - 1]
  BY <1>2 DEF Listed
<1>5. d.next[e] = IF k = n THEN Nil ELSE w[k + 1]
  BY <1>2 DEF Listed, IsList
<1>6. \A i \in 1 .. n : w[i] \in Hour(d, on, c) \cap Entries
  BY <1>3 DEF Listed
<1>7. (k > 1 => k - 1 \in 1 .. n) /\ (k < n => k + 1 \in 1 .. n)
  BY <1>3
<1>8. QED
  BY <1>2, <1>3, <1>4, <1>5, <1>6, <1>7

\* Only the lists of its hour see that an entry is taken out.
LEMMA TakeOutElsewhere ==
  ASSUME NEW d, d \in Memory, NEW on, on \subseteq Entries, HoursGood(d, on),
         NEW e \in on, NEW x \in Cells, NEW c \in Cells, d.cell[e] = c, x # c
  PROVE  \E v, m : Listed(TakeOut(d, e, c), on \ {e}, x, v, m)
<1> DEFINE d1 == TakeOut(d, e, c)
<1>1. TakenOut(d, d1, e, c)
  BY TakeOutIs
<1> HIDE DEF d1
<1>2. PICK w, n : Listed(d, on, x, w, n)
  BY DEF HoursGood
<1>3. PICK wc, nc : Listed(d, on, c, wc, nc)
  BY DEF HoursGood
<1>4. PICK k \in 1 .. nc :
           /\ wc[k] = e /\ nc \in Nat
           /\ d.prev[e] = IF k = 1 THEN Nil ELSE wc[k - 1]
           /\ d.next[e] = IF k = nc THEN Nil ELSE wc[k + 1]
           /\ k > 1 => wc[k - 1] \in Hour(d, on, c) \cap Entries
           /\ k < nc => wc[k + 1] \in Hour(d, on, c) \cap Entries
  BY <1>3, HasPlace
<1>5. d.head \in [Cells -> Entries \cup {Nil}]
      /\ d.prev \in [Entries -> Entries \cup {Nil}] /\ d.next \in [Entries -> Entries \cup {Nil}]
  BY Fields
<1>6. d1.head[x] = d.head[x]
  BY <1>1, <1>5 DEF TakenOut
<1>7. Hour(d1, on \ {e}, x) = Hour(d, on, x)
  BY <1>1 DEF Hour, TakenOut
<1>8. ASSUME NEW f \in Hour(d, on, x)
      PROVE  d1.next[f] = d.next[f] /\ d1.prev[f] = d.prev[f] /\ d1.minute[f] = d.minute[f]
  <2>1. f \in Entries /\ f # e
    BY DEF Hour
  <2>2. d.prev[e] # Nil => f # d.prev[e]
    BY <1>4 DEF Hour
  <2>3. d.next[e] # Nil => f # d.next[e]
    BY <1>4 DEF Hour
  <2>4. d1.next[f] = d.next[f]
    BY <1>1, <1>5, <2>1, <2>2 DEF TakenOut
  <2>5. d1.prev[f] = d.prev[f]
    BY <1>1, <1>5, <2>1, <2>3 DEF TakenOut
  <2>6. QED
    BY <1>1, <2>4, <2>5 DEF TakenOut
<1>9. Listed(d1, on \ {e}, x, w, n)
  BY <1>2, <1>6, <1>7, <1>8, Frame
<1>10. QED
  BY <1>9 DEF d1

\* An entry at an end of its list is taken out as it should be.
LEMMA TakeOutHere ==
  ASSUME NEW d, d \in Memory, NEW on, on \subseteq Entries, HoursGood(d, on),
         NEW e \in on, NEW c \in Cells, d.cell[e] = c,
         d.prev[e] = Nil \/ d.next[e] = Nil
  PROVE  \E v, m : Listed(TakeOut(d, e, c), on \ {e}, c, v, m)
<1> DEFINE d1 == TakeOut(d, e, c)
<1>1. TakenOut(d, d1, e, c)
  BY TakeOutIs
<1> HIDE DEF d1
<1>2. PICK w, n : Listed(d, on, c, w, n)
  BY DEF HoursGood
<1>3. PICK k \in 1 .. n :
           /\ w[k] = e /\ n \in Nat
           /\ d.prev[e] = IF k = 1 THEN Nil ELSE w[k - 1]
           /\ d.next[e] = IF k = n THEN Nil ELSE w[k + 1]
           /\ k > 1 => w[k - 1] \in Hour(d, on, c) \cap Entries
           /\ k < n => w[k + 1] \in Hour(d, on, c) \cap Entries
  BY <1>2, HasPlace
<1>4. /\ d.head \in [Cells -> Entries \cup {Nil}]
      /\ d.prev \in [Entries -> Entries \cup {Nil}] /\ d.next \in [Entries -> Entries \cup {Nil}]
      /\ w \in [1 .. n -> Entries] /\ Nil \notin Entries
      /\ \A i, j \in 1 .. n : w[i] = w[j] => i = j
  BY <1>2, Fields, Addresses DEF Listed, IsList
<1>5. CASE d.prev[e] = Nil
  <2>1. k = 1
    BY <1>3, <1>4, <1>5
  <2>2. d1.head[c] = IF n = 1 THEN Nil ELSE w[2]
    BY <1>1, <1>3, <1>4, <1>5, <2>1 DEF TakenOut
  <2>3. ASSUME NEW i \in 2 .. n
        PROVE  /\ d1.next[w[i]] = d.next[w[i]]
               /\ d1.prev[w[i]] = IF i = 2 THEN Nil ELSE d.prev[w[i]]
    <3>1. /\ i \in 1 .. n /\ 2 \in 1 .. n /\ 1 \in 1 .. n /\ n # 1
          /\ w[i] \in Entries /\ w[i] # e /\ d.next[e] = w[2] /\ w[2] \in Entries
      BY <1>3, <1>4, <2>1
    <3>2. i # 2 => w[i] # w[2]
      BY <1>4, <3>1
    <3>3. d1.next[w[i]] = d.next[w[i]]
      BY <1>1, <1>4, <1>5, <3>1 DEF TakenOut
    <3>4. d1.prev = [d.prev EXCEPT ![w[2]] = Nil]
      BY <1>1, <1>4, <1>5, <3>1 DEF TakenOut
    <3>5. QED
      BY <1>4, <3>1, <3>2, <3>3, <3>4
  <2>4. n > 0 /\ w[1] = e
    BY <1>3, <2>1
  <2>5. d1.cell = d.cell /\ d1.minute = d.minute
    BY <1>1 DEF TakenOut
  <2>6. \E v, m : Listed(d1, on \ {w[1]}, c, v, m)
    <3>1. FirstOff(d, d1, c, w, n)
      BY <2>2, <2>3, <2>4, <2>5 DEF FirstOff
    <3>2. QED
      BY <1>2, <3>1, FirstOut
  <2>7. QED
    BY <2>4, <2>6 DEF d1
<1>6. CASE d.prev[e] # Nil /\ d.next[e] = Nil
  <2>1. k = n /\ n > 1 /\ n - 1 \in 1 .. n /\ n \in 1 .. n
    BY <1>3, <1>4, <1>6
  <2>2. d.prev[e] = w[n - 1] /\ w[n] = e
    BY <1>3, <2>1
  <2>3. d1.next = [d.next EXCEPT ![w[n - 1]] = Nil] /\ d1.prev = [d.prev EXCEPT ![e] = Nil]
    BY <1>1, <1>6, <2>2 DEF TakenOut
  <2>4. ASSUME NEW i \in 1 .. n - 1
        PROVE  /\ d1.next[w[i]] = IF i = n - 1 THEN Nil ELSE d.next[w[i]]
               /\ d1.prev[w[i]] = d.prev[w[i]]
    <3>1. i \in 1 .. n /\ i # n /\ w[i] \in Entries
      BY <1>3, <1>4
    <3>2. w[i] # e /\ (i # n - 1 => w[i] # w[n - 1])
      BY <1>4, <2>1, <2>2, <3>1
    <3>3. QED
      BY <1>4, <2>3, <3>1, <3>2
  <2>5. d1.head[c] = d.head[c]
    BY <1>1, <1>6 DEF TakenOut
  <2>6. QED
    BY <1>1, <1>2, <2>1, <2>2, <2>4, <2>5, LastOut DEF d1, TakenOut
<1>7. QED
  BY <1>5, <1>6

LEMMA TakeOutHours ==
  ASSUME NEW d, d \in Memory, NEW on, on \subseteq Entries, HoursGood(d, on),
         NEW e \in on, NEW c \in Cells, d.cell[e] = c,
         d.prev[e] = Nil \/ d.next[e] = Nil
  PROVE  HoursGood(TakeOut(d, e, c), on \ {e})
<1>1. ASSUME NEW x \in Cells
      PROVE  \E v, m : Listed(TakeOut(d, e, c), on \ {e}, x, v, m)
  <2>1. CASE x = c
    BY <2>1, TakeOutHere
  <2>2. CASE x # c
    BY <2>2, TakeOutElsewhere
  <2>3. QED
    BY <2>1, <2>2
<1>2. QED
  BY <1>1 DEF HoursGood

\* An hour with an entry has a head.
LEMMA HeadThere ==
  ASSUME NEW d, NEW on, HoursGood(d, on), NEW e \in on, d.cell[e] \in Cells
  PROVE  d.head[d.cell[e]] # Nil
<1> DEFINE c == d.cell[e]
<1>1. PICK w, n : Listed(d, on, c, w, n)
  BY DEF HoursGood
<1>2. e \in Hour(d, on, c)
  BY DEF Hour
<1>3. n \in Nat /\ n # 0 /\ w[1] \in Entries
  <2>1. n \in Nat /\ w \in [1 .. n -> Entries]
    BY <1>1, Addresses DEF Listed, IsList
  <2>2. PICK k \in 1 .. n : w[k] = e
    BY <1>1, <1>2 DEF Listed
  <2>3. QED
    BY <2>1, <2>2
<1>4. QED
  BY <1>1, <1>3, Addresses DEF Listed, IsList

\* An hour without entries has none.
LEMMA NoHead ==
  ASSUME NEW d, NEW on, HoursGood(d, on), NEW c \in Cells, \A f \in on : d.cell[f] # c
  PROVE  d.head[c] = Nil
<1>1. PICK w, n : Listed(d, on, c, w, n)
  BY DEF HoursGood
<1>2. Hour(d, on, c) = {}
  BY DEF Hour
<1>3. n = 0
  <2>1. n \in Nat /\ (n # 0 => 1 \in 1 .. n)
    BY <1>1, Addresses DEF Listed, IsList
  <2>2. QED
    BY <1>1, <1>2, <2>1 DEF Listed
<1>4. QED
  BY <1>1, <1>3 DEF Listed, IsList

\* What loses no mark that another entry needs.
Apart(d, on, e) == \A f \in on \ {e} : ~Clash(d.cell[e], d.cell[f])

\* What Kept says, of the entries that are linked in a memory.
IsKept(d, on, e) ==
  LET c == d.cell[e]
      others == {d.cell[f] : f \in on \ {e}}
  IN  /\ \A x \in others : MonthMark(x) # MonthMark(c)
      /\ \/ DayZero(c) \in others
         \/ <<c[1], c[2] + 1>> \in d.marks \ {DayMark(c)}
         \/ c[2] = 12 /\ c[1] \in d.low

KeptBy(d, on, e) == IF IsKept(d, on, e) THEN {MonthMark(d.cell[e])} ELSE {}

\* Marks that are the same are those of the same day or month.
LEMMA SameMarks ==
  ASSUME NEW c \in Cells, NEW x \in Cells
  PROVE  /\ DayMark(x) = DayMark(c) => Day(x) = Day(c)
         /\ Day(x) = Day(c) => DayMark(x) = DayMark(c) /\ MonthMark(x) = MonthMark(c)
         /\ MonthMark(x) = MonthMark(c) => DayMark(x) \in DaysOf(c)
         /\ \A k : DayMark(x) = <<c[1], c[2], k>> => MonthMark(x) = MonthMark(c)
<1>1. c[3] \in 1 .. 31 /\ x[3] \in 1 .. 31
  BY Addresses
<1>2. ASSUME DayMark(x) = DayMark(c)
      PROVE  Day(x) = Day(c)
  <2>1. CASE x[3] = 31 /\ c[3] = 31
    <3>1. <<x[1], x[2] + 1>> = <<c[1], c[2] + 1>>
      BY <1>2, <2>1 DEF DayMark
    <3>2. x[1] = c[1] /\ x[2] + 1 = c[2] + 1
      BY <3>1
    <3>3. x[2] = c[2]
      BY <3>2, Addresses
    <3>4. QED
      BY <2>1, <3>2, <3>3 DEF Day
  <2>2. CASE x[3] # 31 /\ c[3] # 31
    BY <1>2, <2>2 DEF DayMark, Day
  <2>3. CASE x[3] = 31 /\ c[3] # 31
    <3>1. <<x[1], x[2] + 1>> = <<c[1], c[2], c[3]>>
      BY <1>2, <2>3 DEF DayMark
    <3>2. QED
      BY <3>1
  <2>4. CASE x[3] # 31 /\ c[3] = 31
    <3>1. <<x[1], x[2], x[3]>> = <<c[1], c[2] + 1>>
      BY <1>2, <2>4 DEF DayMark
    <3>2. QED
      BY <3>1
  <2>5. QED
    BY <2>1, <2>2, <2>3, <2>4
<1>3. ASSUME MonthMark(x) = MonthMark(c)
      PROVE  DayMark(x) \in DaysOf(c)
  <2>1. x[1] = c[1] /\ x[2] = c[2]
    BY <1>3 DEF MonthMark
  <2>2. DaysOf(c) = DaysOf(x)
    BY <2>1 DEF DaysOf
  <2>3. QED
    BY <2>2, MarkPlaces
<1>4. ASSUME Day(x) = Day(c)
      PROVE  DayMark(x) = DayMark(c) /\ MonthMark(x) = MonthMark(c)
  <2>1. x[1] = c[1] /\ x[2] = c[2] /\ x[3] = c[3]
    BY <1>4 DEF Day
  <2>2. QED
    BY <2>1 DEF DayMark, MonthMark
<1>5. ASSUME NEW k, DayMark(x) = <<c[1], c[2], k>>
      PROVE  MonthMark(x) = MonthMark(c)
  <2>1. CASE x[3] = 31
    <3>1. <<x[1], x[2] + 1>> = <<c[1], c[2], k>>
      BY <1>5, <2>1 DEF DayMark
    <3>2. QED
      BY <3>1
  <2>2. CASE x[3] # 31
    <3>1. <<x[1], x[2], x[3]>> = <<c[1], c[2], k>>
      BY <1>5, <2>2 DEF DayMark
    <3>2. x[1] = c[1] /\ x[2] = c[2]
      BY <3>1
    <3>3. QED
      BY <3>2 DEF MonthMark
  <2>3. QED
    BY <2>1, <2>2
<1>6. QED
  BY <1>2, <1>3, <1>4, <1>5

\* Only hour 0 of the day 31 before shares its day's mark with a month unless
\* the two clash.
LEMMA SharedMark ==
  ASSUME NEW c \in Cells, NEW x \in Cells, ~Clash(c, x)
  PROVE  /\ DayMark(c) # MonthMark(x)
         /\ DayMark(x) = MonthMark(c) => x = DayZero(c)
BY DEF Clash

\* The marks that the day and the month of an entry give up, when it has been
\* taken out, are not those on the way to another one; and they do give them up
\* when nothing keeps them.
GivenUp(d, d1, rest, c) ==
  /\ d1 \in Memory /\ c \in Cells /\ HoursGood(d1, rest)
  /\ d1.cell = d.cell /\ d1.marks = d.marks /\ d1.low = d.low
  /\ \A f \in rest : /\ d.cell[f] \in Cells /\ ~Clash(c, d.cell[f])
                     /\ MonthMark(d.cell[f]) \in d.marks
                     /\ DayMark(d.cell[f]) \in d.marks

LEMMA RestMarked ==
  ASSUME NEW d, NEW d1, NEW d2, NEW d3, NEW rest, NEW c, GivenUp(d, d1, rest, c),
         ClearedDay(d1, d2, c), ClearedMonth(d2, d3, c)
  PROVE  \A f \in rest : MonthMark(d.cell[f]) \in d3.marks /\ DayMark(d.cell[f]) \in d3.marks
<1>1. SUFFICES ASSUME NEW f \in rest
               PROVE  MonthMark(d.cell[f]) \in d3.marks /\ DayMark(d.cell[f]) \in d3.marks
  OBVIOUS
<1> DEFINE x == d.cell[f]
<1>2. /\ x \in Cells /\ c \in Cells /\ MonthMark(x) \in d1.marks /\ DayMark(x) \in d1.marks
      /\ DayMark(c) # MonthMark(x)
      /\ DayMark(x) = MonthMark(c) => x = DayZero(c)
  BY SharedMark DEF GivenUp
<1>3. d1.head[x] # Nil /\ d2.head[x] # Nil
  <2>1. d1.cell[f] = x /\ HoursGood(d1, rest)
    BY DEF GivenUp
  <2> HIDE DEF x
  <2>2. d1.head[x] # Nil
    BY <1>2, <2>1, HeadThere
  <2>3. QED
    BY <2>2 DEF ClearedDay
<1> HIDE DEF x
<1>4. MonthMark(x) \in d2.marks /\ DayMark(x) \in d2.marks
  <2>1. CASE DayStep(d1, c)
    <3>1. Day(x) # Day(c)
      BY <1>2, <1>3, <2>1 DEF DayStep, DayFree
    <3>2. DayMark(x) # DayMark(c)
      BY <1>2, <3>1, SameMarks
    <3>3. QED
      BY <1>2, <2>1, <3>2 DEF ClearedDay
  <2>2. CASE ~DayStep(d1, c)
    BY <1>2, <2>2 DEF ClearedDay
  <2>3. QED
    BY <2>1, <2>2
<1>5. MonthMark(x) \in d3.marks /\ DayMark(x) \in d3.marks
  <2>1. CASE MonthFree(d2, c)
    <3>1. MonthMark(x) # MonthMark(c)
      BY <1>2, <1>4, <2>1, SameMarks DEF MonthFree
    <3>2. DayMark(x) # MonthMark(c)
      BY <1>2, <1>3, <2>1 DEF MonthFree
    <3>3. QED
      BY <1>4, <2>1, <3>1, <3>2 DEF ClearedMonth
  <2>2. CASE ~MonthFree(d2, c)
    BY <1>4, <2>2 DEF ClearedMonth
  <2>3. QED
    BY <2>1, <2>2
<1>6. QED
  BY <1>5 DEF x

LEMMA DayGivenUp ==
  ASSUME NEW d, NEW d1, NEW d2, NEW rest, NEW c, GivenUp(d, d1, rest, c),
         ClearedDay(d1, d2, c), \A f \in rest : ~Supports(d, f, DayMark(c))
  PROVE  DayMark(c) \notin d2.marks
<1>1. ASSUME NEW x \in Cells, Day(x) = Day(c)
      PROVE  d1.head[x] = Nil
  <2>1. DayMark(x) = DayMark(c)
    BY <1>1, SameMarks DEF GivenUp
  <2>2. \A f \in rest : d1.cell[f] # x
    BY <2>1 DEF GivenUp, Supports
  <2>3. QED
    BY <2>2, NoHead DEF GivenUp
<1>2. DayStep(d1, c)
  BY <1>1 DEF DayStep, DayFree, GivenUp
<1>3. QED
  BY <1>2 DEF ClearedDay

LEMMA MonthGivenUp ==
  ASSUME NEW d, NEW d1, NEW d2, NEW d3, NEW on, NEW e, NEW kept, Good(d, on, kept), e \in on,
         GivenUp(d, d1, on \ {e}, d.cell[e]), d1 \in Memory, d \in Memory,
         ClearedDay(d1, d2, d.cell[e]), ClearedMonth(d2, d3, d.cell[e]),
         \A f \in on \ {e} : ~Supports(d, f, MonthMark(d.cell[e])),
         ~IsKept(d, on, e)
  PROVE  MonthMark(d.cell[e]) \notin d3.marks
<1> DEFINE c == d.cell[e]
           rest == on \ {e}
           next == <<c[1], c[2] + 1>>
<1>1. c \in Cells /\ \A f \in rest : d.cell[f] \in Cells /\ MonthMark(d.cell[f]) # MonthMark(c)
  BY DEF GivenUp, Supports
<1>2. /\ \A f \in rest : d.cell[f] # DayZero(c)
      /\ next \notin d.marks \ {DayMark(c)}
      /\ c[2] = 12 => c[1] \notin d.low
  BY <1>1 DEF IsKept
<1>3. \A f \in rest : ~Supports(d, f, DayMark(c))
  <2>1. TAKE f \in rest
  <2>2. DayMark(c) # MonthMark(d.cell[f])
    BY <1>1, SharedMark DEF GivenUp
  <2>3. DayMark(c) # DayMark(d.cell[f])
    BY <1>1, SameMarks
  <2>4. QED
    BY <2>2, <2>3 DEF Supports
<1>4. DayMark(c) \notin d2.marks /\ d2.marks \subseteq d.marks
      /\ d2.head = d1.head /\ d2.low = d.low
  BY <1>3, DayGivenUp DEF ClearedDay, GivenUp
<1>5. ASSUME NEW q \in d2.marks, q \in DaysOf(c)
      PROVE  FALSE
  <2>1. q # DayMark(c) /\ q \in d.marks
    BY <1>4
  <2>2. CASE q = next
    BY <1>2, <2>1, <2>2
  <2>3. CASE \E k \in 1 .. 30 : q = <<c[1], c[2], k>>
    <3>1. PICK k \in 1 .. 30 : q = <<c[1], c[2], k>>
      BY <2>3
    <3>2. \A x \in Cells : q # MonthMark(x)
      BY <3>1 DEF MonthMark
    <3>3. PICK f \in on : Supports(d, f, q)
      BY <2>1, <3>2 DEF Good, WayGood, Months
    <3>4. d.cell[f] \in Cells
      BY DEF Good
    <3>5. DayMark(d.cell[f]) = <<c[1], c[2], k>> /\ f # e
      BY <2>1, <3>1, <3>2, <3>3, <3>4 DEF Supports
    <3>6. QED
      BY <1>1, <3>4, <3>5, SameMarks
  <2>4. QED
    BY <1>5, <2>2, <2>3 DEF DaysOf
<1>6. DayZero(c) \in Cells => d2.head[DayZero(c)] = Nil
  <2>1. \A f \in rest : d1.cell[f] # DayZero(c)
    BY <1>2 DEF GivenUp
  <2>2. HoursGood(d1, rest)
    BY DEF GivenUp
  <2> HIDE DEF c, rest
  <2>3. QED
    BY <1>4, <2>1, <2>2, NoHead
<1>7. MonthFree(d2, c)
  BY <1>2, <1>4, <1>5, <1>6 DEF MonthFree
<1>8. QED
  BY <1>7 DEF ClearedMonth

\* Unlinking an entry at an end of its list, whose marks are its own or those of
\* its day and month only, leaves everything else as it should be.
LEMMA UnlinkGood ==
  ASSUME NEW d, d \in Memory, YearsExact(d), NEW on, NEW kept, Good(d, on, kept), NEW e \in on,
         d.prev[e] = Nil \/ d.next[e] = Nil, Apart(d, on, e)
  PROVE  Good(Unlink(d, e), on \ {e}, kept \cup KeptBy(d, on, e)) /\ ~Untouched(d, e)
<1> DEFINE c  == d.cell[e]
           d1 == TakeOut(d, e, c)
           d4 == Unlink(d, e)
           rest == on \ {e}
           kept4 == kept \cup KeptBy(d, on, e)
<1>1. /\ on \subseteq Entries /\ e \in Entries /\ HoursGood(d, on) /\ WayGood(d, on, kept)
      /\ \A f \in on : d.cell[f] \in Cells
      /\ kept \subseteq Months
  BY DEF Good
<1>2. ~Untouched(d, e)
  <2>1. c \in Cells /\ d.head[c] # Nil
    BY <1>1, HeadThere
  <2>2. MonthMark(c) \in d.marks \cap MonthsOf(c[1]) /\ c[1] \in Years
    BY <1>1, <2>1, MarkPlaces, Addresses DEF WayGood
  <2>3. c[1] \in Range(d.years)
    BY <2>2 DEF YearsExact
  <2>4. QED
    BY <2>1, <2>3, Addresses DEF Untouched
<1>3. /\ c \in Cells /\ d1 \in Memory /\ d4 \in Memory
      /\ d4.cell = d.cell /\ d4.minute = d.minute
      /\ d4.prev = d1.prev /\ d4.next = d1.next
      /\ Cleared(d1, d4, c)
  BY <1>1, <1>2, UnlinkSteps
<1>4. HoursGood(d1, rest)
  BY <1>1, <1>3, TakeOutHours
<1>5. d1.cell = d.cell /\ d1.minute = d.minute /\ d1.marks = d.marks /\ d1.low = d.low
  BY <1>1, <1>3, TakeOutIs DEF TakenOut
<1>6. GivenUp(d, d1, rest, c)
  BY <1>1, <1>3, <1>4, <1>5 DEF WayGood, Apart, GivenUp
<1> HIDE DEF d1, d4
<1>7. PICK d2, d3 \in Memory :
        ClearedDay(d1, d2, c) /\ ClearedMonth(d2, d3, c) /\ ClearedYear(d3, d4, c)
  BY <1>3 DEF Cleared
<1>8. /\ (\A f \in rest : ~Supports(d, f, DayMark(c))) => DayMark(c) \notin d2.marks
      /\ (\A f \in rest : ~Supports(d, f, MonthMark(c))) /\ ~IsKept(d, on, e)
            => MonthMark(c) \notin d3.marks
  <2>1. (\A f \in rest : ~Supports(d, f, DayMark(c))) => DayMark(c) \notin d2.marks
    BY <1>6, <1>7, DayGivenUp
  <2>2. (\A f \in rest : ~Supports(d, f, MonthMark(c))) /\ ~IsKept(d, on, e)
            => MonthMark(c) \notin d3.marks
    BY <1>3, <1>6, <1>7, MonthGivenUp
  <2>3. QED
    BY <2>1, <2>2
<1>9. \A f \in rest : MonthMark(d.cell[f]) \in d3.marks /\ DayMark(d.cell[f]) \in d3.marks
  BY <1>6, <1>7, RestMarked
<1> HIDE DEF c, rest
<1>10. /\ \A f \in rest : MonthMark(d.cell[f]) \in d4.marks /\ DayMark(d.cell[f]) \in d4.marks
       /\ \A x \in Cells : d4.head[x] = d1.head[x]
  <2>1. d3.head = d1.head
    BY <1>7 DEF ClearedDay, ClearedMonth
  <2>2. CASE d3.marks \cap MonthsOf(c[1]) # {}
    BY <1>7, <1>9, <2>1, <2>2 DEF ClearedYear
  <2>3. CASE d3.marks \cap MonthsOf(c[1]) = {}
    <3>1. /\ d4.marks = {m \in d3.marks : m[1] # c[1]}
          /\ d4.head = [x \in Cells |-> IF x[1] = c[1] THEN Nil ELSE d3.head[x]]
      BY <1>7, <2>3 DEF ClearedYear
    <3>2. ASSUME NEW f \in rest
          PROVE  d.cell[f][1] # c[1]
      <4>1. MonthMark(d.cell[f]) \in MonthsOf(d.cell[f][1])
        BY <1>6, MarkPlaces DEF GivenUp
      <4>2. QED
        BY <1>9, <2>3, <4>1
    <3>3. ASSUME NEW x \in Cells, x[1] = c[1]
          PROVE  d1.head[x] = Nil
      <4>1. \A f \in rest : d1.cell[f] # x
        BY <1>5, <3>2, <3>3
      <4>2. QED
        BY <1>4, <4>1, NoHead
    <3>4. \A f \in rest : MonthMark(d.cell[f])[1] # c[1] /\ DayMark(d.cell[f])[1] # c[1]
      BY <1>6, <3>2, MarkPlaces DEF GivenUp
    <3>5. \A x \in Cells : d4.head[x] = d1.head[x]
      BY <2>1, <3>1, <3>3
    <3>6. QED
      BY <1>9, <3>1, <3>4, <3>5
  <2>4. QED
    BY <2>2, <2>3
<1>11. HoursGood(d4, rest)
  <2>1. ASSUME NEW x \in Cells
        PROVE  \E w, n : Listed(d4, rest, x, w, n)
    <3>1. PICK w, n : Listed(d1, rest, x, w, n)
      BY <1>4 DEF HoursGood
    <3>2. Hour(d4, rest, x) = Hour(d1, rest, x)
      BY <1>3, <1>5 DEF Hour
    <3>3. d4.head[x] = d1.head[x]
      BY <1>10
    <3>4. \A f \in Hour(d1, rest, x) : /\ d4.next[f] = d1.next[f] /\ d4.prev[f] = d1.prev[f]
                                       /\ d4.minute[f] = d1.minute[f]
      BY <1>3, <1>5
    <3>5. Listed(d4, rest, x, w, n)
      BY <3>1, <3>2, <3>3, <3>4, Frame
    <3>6. QED
      BY <3>5
  <2>2. QED
    BY <2>1 DEF HoursGood
<1>12. ASSUME NEW m \in d4.marks, m \notin kept4
       PROVE  \E f \in rest : Supports(d4, f, m)
  <2>1. SUFFICES ASSUME \A f \in rest : ~Supports(d, f, m)
                 PROVE  FALSE
    BY <1>3 DEF Supports
  <2>2. m \in d3.marks /\ m \in d2.marks /\ m \in d.marks
    BY <1>5, <1>7 DEF ClearedYear, ClearedMonth, ClearedDay
  <2>3. m \notin kept
    BY <1>12
  <2>4. Supports(d, e, m)
    BY <1>1, <2>1, <2>2, <2>3 DEF WayGood, rest
  <2>5. CASE m = DayMark(c)
    BY <1>8, <2>1, <2>2, <2>5
  <2>6. CASE m = MonthMark(c)
    <3>1. ~IsKept(d, on, e)
      BY <1>12, <2>6 DEF KeptBy, c
    <3>2. QED
      BY <1>8, <2>1, <2>2, <2>6, <3>1
  <2>7. QED
    BY <2>4, <2>5, <2>6 DEF Supports, c
<1>13. WayGood(d4, rest, kept4)
  BY <1>3, <1>10, <1>12 DEF WayGood
<1>14. kept4 \subseteq Months
  BY <1>1, <1>3 DEF KeptBy, Months, c
<1>15. Good(d4, rest, kept4)
  BY <1>1, <1>3, <1>11, <1>13, <1>14 DEF Good, rest
<1>16. QED
  BY <1>2, <1>15 DEF d4, rest

\* An entry that was alone in its hour is not found a second time.
LEMMA UnlinkAgain ==
  ASSUME NEW d, d \in Memory, YearsExact(d), NEW e \in Entries, ~Untouched(d, e),
         d.prev[e] = Nil /\ d.next[e] = Nil
  PROVE  Unlink(Unlink(d, e), e) = Unlink(d, e)
<1> DEFINE c  == d.cell[e]
           d1 == TakeOut(d, e, c)
           d4 == Unlink(d, e)
<1>1. /\ c \in Cells /\ d1 \in Memory /\ d4 \in Memory
      /\ d4.cell = d.cell /\ Cleared(d1, d4, c)
  BY UnlinkSteps
<1>2. d1.head = [d.head EXCEPT ![c] = Nil]
  <2>1. TakenOut(d, d1, e, c)
    BY <1>1, TakeOutIs
  <2> HIDE DEF d1, c
  <2>2. QED
    BY <2>1 DEF TakenOut
<1>3. d1.head[c] = Nil
  BY <1>1, <1>2, Fields
<1> HIDE DEF d1, d4, c
<1>4. PICK d2, d3 \in Memory :
        ClearedDay(d1, d2, c) /\ ClearedMonth(d2, d3, c) /\ ClearedYear(d3, d4, c)
  BY <1>1 DEF Cleared
<1>5. d3.head[c] = Nil
  BY <1>3, <1>4 DEF ClearedDay, ClearedMonth
<1>6. d4.head[c] = Nil
  BY <1>1, <1>4, <1>5 DEF ClearedYear
<1>7. d4.cell[e] = c
  BY <1>1 DEF c
<1>8. Unlink(d4, e) = d4
  BY <1>6, <1>7 DEF Unlink
<1>9. QED
  BY <1>8 DEF d4

\* What is outside of the lists does not matter to them.
Alike(d, x, on) ==
  /\ x.head = d.head
  /\ \A f \in on : /\ x.cell[f] = d.cell[f] /\ x.minute[f] = d.minute[f]
                   /\ x.prev[f] = d.prev[f] /\ x.next[f] = d.next[f]

LEMMA OutsideHours ==
  ASSUME NEW d, NEW x, NEW on, HoursGood(d, on), Alike(d, x, on)
  PROVE  HoursGood(x, on)
<1>1. ASSUME NEW c \in Cells
      PROVE  \E w, n : Listed(x, on, c, w, n)
  <2>1. PICK w, n : Listed(d, on, c, w, n)
    BY DEF HoursGood
  <2>2. Hour(x, on, c) = Hour(d, on, c)
    BY DEF Hour, Alike
  <2>3. Listed(x, on, c, w, n)
    BY <2>1, <2>2, Frame DEF Hour, Alike
  <2>4. QED
    BY <2>3
<1>2. QED
  BY <1>1 DEF HoursGood

LEMMA Outside ==
  ASSUME NEW d, NEW x, NEW on, NEW kept, Good(d, on, kept), Alike(d, x, on),
         x.marks = d.marks
  PROVE  Good(x, on, kept)
<1>1. HoursGood(x, on)
  BY OutsideHours DEF Good
<1>2. WayGood(x, on, kept)
  BY DEF Good, WayGood, Alike, Supports
<1>3. QED
  BY <1>1, <1>2 DEF Good, Alike

\* Of the marks that are left over those may be struck off that an entry needs.
LEMMA StillKept ==
  ASSUME NEW d, NEW on, NEW kept, Good(d, on, kept),
         NEW rest, rest \subseteq kept,
         \A m \in (kept \cap d.marks) \ rest : \E f \in on : Supports(d, f, m)
  PROVE  Good(d, on, rest)
<1>1. WayGood(d, on, rest)
  <2>1. ASSUME NEW m \in d.marks, m \notin rest
        PROVE  \E f \in on : Supports(d, f, m)
    <3>1. CASE m \notin kept
      BY <3>1 DEF Good, WayGood
    <3>2. CASE m \in kept
      BY <2>1, <3>2
    <3>3. QED
      BY <2>1, <3>1, <3>2
  <2>2. QED
    BY <2>1 DEF Good, WayGood
<1>2. QED
  BY <1>1 DEF Good

\* The slot of an entry is wiped.
LEMMA WipeIs ==
  ASSUME NEW d, d \in Memory, NEW e \in Entries
  PROVE  /\ Wipe(d, e) \in Memory
         /\ Wipe(d, e).head = d.head /\ Wipe(d, e).marks = d.marks
         /\ Wipe(d, e).years = d.years
         /\ \A f \in Entries \ {e} :
              /\ Wipe(d, e).cell[f] = d.cell[f] /\ Wipe(d, e).minute[f] = d.minute[f]
              /\ Wipe(d, e).prev[f] = d.prev[f] /\ Wipe(d, e).next[f] = d.next[f]
<1> DEFINE cell == [d.cell EXCEPT ![e] = NoCell]
           minute == [d.minute EXCEPT ![e] = 0]
           prev == [d.prev EXCEPT ![e] = Nil]
           next == [d.next EXCEPT ![e] = Nil]
<1>1. Wipe(d, e) = [d EXCEPT !.cell = cell, !.minute = minute, !.prev = prev, !.next = next]
  BY DEF Wipe
<1>2. cell \in [Entries -> Cells \cup {NoCell}]
  BY Fields
<1>7. minute \in [Entries -> 0 .. 59]
  <2>1. d.minute \in [Entries -> 0 .. 59]
    BY Fields
  <2>2. QED
    BY <2>1
<1>3. prev \in [Entries -> Entries \cup {Nil}] /\ next \in [Entries -> Entries \cup {Nil}]
  BY Fields
<1>4. \A f \in Entries \ {e} : /\ cell[f] = d.cell[f] /\ minute[f] = d.minute[f]
                               /\ prev[f] = d.prev[f] /\ next[f] = d.next[f]
  BY Fields
<1> HIDE DEF cell, minute, prev, next
<1>5. /\ Wipe(d, e) \in Memory
      /\ Wipe(d, e).cell = cell /\ Wipe(d, e).minute = minute
      /\ Wipe(d, e).prev = prev /\ Wipe(d, e).next = next
      /\ Wipe(d, e).head = d.head /\ Wipe(d, e).marks = d.marks
      /\ Wipe(d, e).years = d.years
  BY <1>1, <1>2, <1>3, <1>7 DEF Memory
<1>6. QED
  BY <1>4, <1>5

\* The time of an entry is set.
Timed(d, e, c, m) == [d EXCEPT !.cell[e] = c, !.minute[e] = m]

IsTimed(x, d, e, c, m) ==
  /\ x \in Memory /\ x.cell[e] = c /\ x.minute[e] = m
  /\ x.head = d.head /\ x.marks = d.marks /\ x.years = d.years
  /\ x.prev = d.prev /\ x.next = d.next
  /\ \A f \in Entries \ {e} : x.cell[f] = d.cell[f] /\ x.minute[f] = d.minute[f]

LEMMA TimedIs ==
  ASSUME NEW d, d \in Memory, NEW e \in Entries, NEW c \in Cells \cup {NoCell},
         NEW m \in 0 .. 59
  PROVE  IsTimed(Timed(d, e, c, m), d, e, c, m)
<1> DEFINE cell == [d.cell EXCEPT ![e] = c]
           minute == [d.minute EXCEPT ![e] = m]
<1>1. Timed(d, e, c, m) = [d EXCEPT !.cell = cell, !.minute = minute]
  BY DEF Timed
<1>2. /\ d.cell \in [Entries -> Cells \cup {NoCell}]
      /\ d.minute \in [Entries -> 0 .. 59]
  BY Fields
<1>5. cell \in [Entries -> Cells \cup {NoCell}]
  BY <1>2
<1>6. minute \in [Entries -> 0 .. 59]
  BY <1>2
<1>3. /\ cell[e] = c /\ minute[e] = m
      /\ \A f \in Entries \ {e} : cell[f] = d.cell[f] /\ minute[f] = d.minute[f]
  BY Fields
<1> HIDE DEF cell, minute
<1>4. QED
  BY <1>1, <1>3, <1>5, <1>6 DEF Memory, IsTimed

-----------------------------------------------------------------------------
(* Linking                                                                 *)

\* What an insertion at place i of the list w of the hour changes.
Inserted(d, x, e, c, w, n, i) ==
  /\ x.cell = d.cell /\ x.minute = d.minute /\ x.marks = d.marks
  /\ x.head = IF i = 1 THEN [d.head EXCEPT ![c] = e] ELSE d.head
  /\ x.next = IF i = 1 THEN [d.next EXCEPT ![e] = Nil]
              ELSE IF i = n + 1 THEN [d.next EXCEPT ![w[n]] = e, ![e] = Nil]
              ELSE [d.next EXCEPT ![w[i - 1]] = e, ![e] = w[i]]
  /\ x.prev = IF i = 1 THEN [d.prev EXCEPT ![e] = Nil]
              ELSE IF i = n + 1 THEN [d.prev EXCEPT ![e] = w[n]]
              ELSE [d.prev EXCEPT ![e] = w[i - 1], ![w[i]] = e]

\* Insertion finds the place where the minute belongs, unless that is before
\* the head.
LEMMA InsertIs ==
  ASSUME NEW d, d \in Memory, NEW on, HoursGood(d, on), NEW c \in Cells,
         NEW e \in Entries, ~LinkDamages(d, c, d.minute[e]),
         NEW w, NEW n, Listed(d, on, c, w, n)
  PROVE  \E i \in 1 .. n + 1 :
           /\ Inserted(d, Insert(d, e, c), e, c, w, n, i)
           /\ i = 1 => n = 0
           /\ i > 1 => d.minute[w[i - 1]] <= d.minute[e]
           /\ i <= n => d.minute[e] <= d.minute[w[i]]
<1> DEFINE x == Insert(d, e, c)
           m == d.minute[e]
           T == Later(d, c, m)
           k == CHOOSE y \in T : \A z \in T : y <= z
<1>1. /\ n \in Nat /\ w \in [1 .. n -> Entries] /\ Nil \notin Entries
      /\ d.head[c] = IF n = 0 THEN Nil ELSE w[1]
  BY Addresses DEF Listed, IsList
<1>2. Path(d, c) = w
  BY PathIs DEF Listed
<1>3. w \in Seq(Entries) /\ Len(w) = n
  <2>1. w \in Seq(Entries)
    BY <1>1, IsASeq
  <2>2. QED
    BY <1>1, <2>1
<1>4. m \in 0 .. 59 /\ \A j \in 1 .. n : d.minute[w[j]] \in 0 .. 59
  BY <1>1, Fields
<1>5. CASE n = 0
  <2>1. x = [d EXCEPT !.head[c] = e, !.prev[e] = Nil, !.next[e] = Nil]
    BY <1>1, <1>5 DEF Insert
  <2>2. Inserted(d, x, e, c, w, n, 1)
    BY <2>1 DEF Inserted, Memory
  <2>3. QED
    BY <1>5, <2>2
<1>6. CASE n # 0 /\ T = {}
  <2>1. x = [d EXCEPT !.next = [d.next EXCEPT ![Last(w)] = e, ![e] = Nil],
                      !.prev[e] = Last(w)]
    BY <1>1, <1>2, <1>6 DEF Insert
  <2>2. Last(w) = w[n] /\ n \in 1 .. n /\ n + 1 # 1
    BY <1>1, <1>3, <1>6 DEF Last
  <2>3. Inserted(d, x, e, c, w, n, n + 1)
    BY <2>1, <2>2 DEF Inserted, Memory
  <2>4. d.minute[w[n]] <= m
    <3>1. ~(d.minute[w[n]] > m)
      BY <1>2, <1>3, <1>6, <2>2 DEF Later
    <3>2. d.minute[w[n]] \in 0 .. 59
      BY <1>4, <2>2
    <3> DEFINE a == d.minute[w[n]]
    <3> HIDE DEF m, a
    <3>3. a <= m
      BY <1>4, <3>1, <3>2 DEF a
    <3>4. QED
      BY <3>3 DEF a
  <2>5. (n + 1) - 1 = n /\ ~(n + 1 <= n) /\ n + 1 \in 1 .. n + 1
    BY <1>1
  <2>6. QED
    BY <2>2, <2>3, <2>4, <2>5
<1>7. CASE n # 0 /\ T # {}
  <2>1. /\ k \in 1 .. n /\ d.minute[w[k]] > m
        /\ \A j \in 1 .. n : j < k => ~(d.minute[w[j]] > m)
    BY <1>2, <1>3, <1>7, LaterLeast
  <2> DEFINE before == w[IF k = 1 THEN 1 ELSE k - 1]
  <2>2. x = [d EXCEPT !.next = [d.next EXCEPT ![before] = e, ![e] = w[k]],
                      !.prev = [d.prev EXCEPT ![e] = before, ![w[k]] = e]]
    BY <1>1, <1>2, <1>7 DEF Insert
  <2> HIDE DEF k, before
  <2>3. k # 1
    BY <1>1, <1>7, <2>1 DEF LinkDamages
  <2>4. before = w[k - 1] /\ k - 1 \in 1 .. n /\ k - 1 < k /\ k # n + 1 /\ k \in 1 .. n + 1
    BY <1>1, <2>1, <2>3 DEF before
  <2>5. Inserted(d, x, e, c, w, n, k)
    BY <2>2, <2>3, <2>4 DEF Inserted, Memory
  <2>6. d.minute[w[k - 1]] <= m /\ m <= d.minute[w[k]]
    <3>1. ~(d.minute[w[k - 1]] > m)
      BY <2>1, <2>4
    <3>2. d.minute[w[k - 1]] \in 0 .. 59 /\ d.minute[w[k]] \in 0 .. 59
      BY <1>4, <2>1, <2>4
    <3> DEFINE a == d.minute[w[k - 1]]
               b == d.minute[w[k]]
    <3> HIDE DEF m, a, b
    <3>3. a <= m
      BY <1>4, <3>1, <3>2 DEF a
    <3>4. m <= b
      BY <1>4, <2>1, <3>2 DEF b
    <3>5. QED
      BY <3>3, <3>4 DEF a, b
  <2>7. QED
    BY <2>3, <2>4, <2>5, <2>6
<1>8. QED
  BY <1>5, <1>6, <1>7

\* Then the entry is where it belongs.
LEMMA InsertPuts ==
  ASSUME NEW d, d \in Memory, NEW on, NEW x, NEW c \in Cells, NEW e \in Entries \ on,
         d.cell[e] = c, NEW w, NEW n, Listed(d, on, c, w, n),
         NEW i \in 1 .. n + 1, Inserted(d, x, e, c, w, n, i),
         i = 1 => n = 0,
         i > 1 => d.minute[w[i - 1]] <= d.minute[e],
         i <= n => d.minute[e] <= d.minute[w[i]]
  PROVE  PutAt(d, x, c, w, n, e, i)
<1>1. /\ d.head \in [Cells -> Entries \cup {Nil}]
      /\ d.prev \in [Entries -> Entries \cup {Nil}]
      /\ d.next \in [Entries -> Entries \cup {Nil}]
  BY Fields
<1>2. /\ n \in Nat /\ w \in [1 .. n -> Entries] /\ MaxEntries \in Nat
      /\ \A j, k \in 1 .. n : w[j] = w[k] => j = k
  BY Addresses DEF Listed, IsList
<1>3. \A j \in 1 .. n : w[j] # e /\ w[j] \in Entries
  BY <1>2 DEF Listed, Hour
<1>4. x.head[c] = IF i = 1 THEN e ELSE d.head[c]
  BY <1>1 DEF Inserted
<1>5. CASE i = 1
  <2>1. x.next = [d.next EXCEPT ![e] = Nil] /\ x.prev = [d.prev EXCEPT ![e] = Nil]
    BY <1>5 DEF Inserted
  <2>2. n = 0 /\ x.next[e] = Nil /\ x.prev[e] = Nil
    BY <1>1, <1>5, <2>1
  <2>3. QED
    BY <1>4, <1>5, <2>2 DEF PutAt, Inserted
<1>6. CASE i # 1 /\ i = n + 1
  <2>1. i - 1 = n /\ n \in 1 .. n /\ ~(i <= n)
    BY <1>2, <1>6
  <2>2. /\ x.next = [d.next EXCEPT ![w[n]] = e, ![e] = Nil]
        /\ x.prev = [d.prev EXCEPT ![e] = w[n]]
    BY <1>6 DEF Inserted
  <2>3. x.next[e] = Nil /\ x.prev[e] = w[n]
    BY <1>1, <2>2
  <2>4. \A j \in 1 .. n : x.next[w[j]] = IF j = n THEN e ELSE d.next[w[j]]
    BY <1>1, <1>2, <1>3, <2>1, <2>2
  <2>5. \A j \in 1 .. n : x.prev[w[j]] = d.prev[w[j]] /\ j # i
    BY <1>1, <1>2, <1>3, <1>6, <2>2
  <2>6. QED
    BY <1>4, <1>6, <2>1, <2>3, <2>4, <2>5 DEF PutAt, Inserted
<1>7. CASE i # 1 /\ i # n + 1
  <2>1. i - 1 \in 1 .. n /\ i \in 1 .. n
    BY <1>2, <1>7
  <2>2. /\ x.next = [d.next EXCEPT ![w[i - 1]] = e, ![e] = w[i]]
        /\ x.prev = [d.prev EXCEPT ![e] = w[i - 1], ![w[i]] = e]
    BY <1>7 DEF Inserted
  <2> DEFINE a == w[i - 1]
             b == w[i]
  <2>3. a \in Entries /\ b \in Entries /\ a # e /\ b # e
    BY <1>3, <2>1
  <2>4. \A j \in 1 .. n : (w[j] = a <=> j = i - 1) /\ (w[j] = b <=> j = i)
    BY <1>2, <2>1
  <2> HIDE DEF a, b
  <2>5. x.next = [d.next EXCEPT ![a] = e, ![e] = b] /\ x.prev = [d.prev EXCEPT ![e] = a, ![b] = e]
    BY <2>2 DEF a, b
  <2>6. x.next[e] = b /\ x.prev[e] = a
    BY <1>1, <2>3, <2>5
  <2>7. \A j \in 1 .. n : x.next[w[j]] = IF j = i - 1 THEN e ELSE d.next[w[j]]
    BY <1>1, <1>3, <2>3, <2>4, <2>5
  <2>8. \A j \in 1 .. n : x.prev[w[j]] = IF j = i THEN e ELSE d.prev[w[j]]
    BY <1>1, <1>3, <2>3, <2>4, <2>5
  <2>9. QED
    BY <1>4, <1>7, <2>6, <2>7, <2>8 DEF PutAt, Inserted, a, b
<1>8. QED
  BY <1>5, <1>6, <1>7

\* The lists after an insertion.
LEMMA InsertHours ==
  ASSUME NEW d, d \in Memory, NEW on, on \subseteq Entries, HoursGood(d, on),
         NEW c \in Cells, NEW e \in Entries \ on, d.cell[e] = c,
         ~LinkDamages(d, c, d.minute[e])
  PROVE  HoursGood(Insert(d, e, c), on \cup {e})
<1> DEFINE x == Insert(d, e, c)
<1>1. PICK w, n : Listed(d, on, c, w, n)
  BY DEF HoursGood
<1>2. PICK i \in 1 .. n + 1 :
           /\ Inserted(d, x, e, c, w, n, i)
           /\ i = 1 => n = 0
           /\ i > 1 => d.minute[w[i - 1]] <= d.minute[e]
           /\ i <= n => d.minute[e] <= d.minute[w[i]]
  BY <1>1, InsertIs
<1> HIDE DEF x
<1>3. \E v, m : Listed(x, on \cup {e}, c, v, m)
  <2>1. PutAt(d, x, c, w, n, e, i)
    BY <1>1, <1>2, InsertPuts
  <2>2. QED
    BY <1>1, <2>1, PutIn
<1>4. ASSUME NEW y \in Cells, y # c
      PROVE  \E v, m : Listed(x, on \cup {e}, y, v, m)
  <2>1. PICK v, m : Listed(d, on, y, v, m)
    BY DEF HoursGood
  <2>2. Hour(x, on \cup {e}, y) = Hour(d, on, y)
    BY <1>2, <1>4 DEF Hour, Inserted
  <2>3. x.head[y] = d.head[y]
    BY <1>2, <1>4, Fields DEF Inserted
  <2>4. n \in Nat /\ \A j \in 1 .. n : w[j] \in Entries /\ d.cell[w[j]] = c
    BY <1>1, Addresses DEF Listed, IsList, Hour
  <2>5. ASSUME NEW f \in Hour(d, on, y)
        PROVE  x.next[f] = d.next[f] /\ x.prev[f] = d.prev[f] /\ x.minute[f] = d.minute[f]
    <3>1. f \in Entries /\ f # e /\ d.cell[f] = y
      BY DEF Hour
    <3>2. \A j \in 1 .. n : w[j] # f
      BY <1>4, <2>4, <3>1
    <3>3. /\ d.prev \in [Entries -> Entries \cup {Nil}]
          /\ d.next \in [Entries -> Entries \cup {Nil}]
      BY Fields
    <3>4. i # 1 => i - 1 \in 1 .. n /\ n \in 1 .. n /\ (i # n + 1 => i \in 1 .. n)
      BY <2>4
    <3>5. x.next[f] = d.next[f]
      BY <1>2, <3>1, <3>2, <3>3, <3>4 DEF Inserted
    <3>6. x.prev[f] = d.prev[f]
      BY <1>2, <3>1, <3>2, <3>3, <3>4 DEF Inserted
    <3>7. QED
      BY <1>2, <3>5, <3>6 DEF Inserted
  <2>6. Listed(x, on \cup {e}, y, v, m)
    BY <2>1, <2>2, <2>3, <2>5, Frame
  <2>7. QED
    BY <2>6
<1>5. QED
  BY <1>3, <1>4 DEF HoursGood, x

\* Damaged or not, linking leaves a memory with an exact list of years.
LEMMA LinkYears ==
  ASSUME NEW d, d \in Memory, YearsExact(d), NEW e \in Entries, d.cell[e] \in Cells, NEW low
  PROVE  LET x == Link(d, e, low) IN
         x \in Memory /\ YearsExact(x) /\ x.cell = d.cell /\ x.minute = d.minute
<1> DEFINE c  == d.cell[e]
           d1 == Mark(d, c, low)
<1>1. d1 \in Memory /\ d1.cell = d.cell /\ d1.minute = d.minute /\ YearsExact(d1)
  BY MarkType, MarkYears
<1>2. Link(d, e, low) = Insert(d1, e, c)
  BY DEF Link
<1> HIDE DEF c, d1
<1>3. c \in Cells
  BY DEF c
<1>4. /\ Insert(d1, e, c) \in Memory
      /\ Insert(d1, e, c).cell = d1.cell /\ Insert(d1, e, c).minute = d1.minute
      /\ Insert(d1, e, c).marks = d1.marks /\ Insert(d1, e, c).years = d1.years
  BY <1>1, <1>3, InsertType
<1>5. QED
  BY <1>1, <1>2, <1>4 DEF YearsExact

\* Linking an entry whose minute is not before that of the head.
LEMMA LinkGood ==
  ASSUME NEW d, d \in Memory, NEW on, NEW kept, Good(d, on, kept), NEW e \in Entries \ on,
         d.cell[e] \in Cells, ~LinkDamages(d, d.cell[e], d.minute[e]), NEW low
  PROVE  Good(Link(d, e, low), on \cup {e}, kept)
<1> DEFINE c  == d.cell[e]
           d1 == Mark(d, c, low)
           d2 == Insert(d1, e, c)
<1>1. /\ d1 \in Memory /\ d1.cell = d.cell /\ d1.minute = d.minute
      /\ d1.prev = d.prev /\ d1.next = d.next /\ d1.head = d.head
      /\ d1.marks = d.marks \cup {MonthMark(c), DayMark(c)}
  BY MarkType
<1>2. Link(d, e, low) = d2
  BY DEF Link
<1>3. c \in Cells /\ ~LinkDamages(d, c, d.minute[e])
  OBVIOUS
<1> HIDE DEF d1
<1>4. HoursGood(d1, on)
  BY <1>1, OutsideHours DEF Good, Alike
<1>5. d1.cell[e] = c /\ ~LinkDamages(d1, c, d1.minute[e])
  BY <1>1, <1>3 DEF LinkDamages
<1>11. d.cell[e] = c
  OBVIOUS
<1> HIDE DEF c
<1>6. HoursGood(d2, on \cup {e})
  BY <1>1, <1>3, <1>4, <1>5, InsertHours DEF Good
<1>7. d2.cell = d.cell /\ d2.marks = d.marks \cup {MonthMark(c), DayMark(c)}
  BY <1>1, <1>3, InsertType
<1> HIDE DEF d2
<1>8. WayGood(d2, on \cup {e}, kept)
  <2>1. \A f \in on \cup {e} : MonthMark(d2.cell[f]) \in d2.marks /\ DayMark(d2.cell[f]) \in d2.marks
    BY <1>7, <1>11 DEF Good, WayGood
  <2>2. ASSUME NEW m \in d2.marks, m \notin kept
        PROVE  \E f \in on \cup {e} : Supports(d2, f, m)
    <3>1. CASE m \in d.marks
      BY <1>7, <2>2, <3>1 DEF Good, WayGood, Supports
    <3>2. CASE m \notin d.marks
      BY <1>7, <1>11, <3>2 DEF Supports
    <3>3. QED
      BY <3>1, <3>2
  <2>3. QED
    BY <2>1, <2>2 DEF WayGood
<1>9. on \cup {e} \subseteq Entries /\ \A f \in on \cup {e} : d2.cell[f] \in Cells
  BY <1>3, <1>7, <1>11 DEF Good
<1>10. QED
  BY <1>2, <1>6, <1>8, <1>9 DEF Good

\* The search of a good hour comes to an end.
LEMMA NotEndless ==
  ASSUME NEW d, NEW on, HoursGood(d, on), NEW c \in Cells, NEW m
  PROVE  ~LinkEndless(d, c, m)
<1>1. PICK w, n : Listed(d, on, c, w, n)
  BY DEF HoursGood
<1>2. Path(d, c) = w
  BY <1>1, PathIs DEF Listed
<1>3. n \in 0 .. MaxEntries /\ w \in [1 .. n -> Entries] /\ MaxEntries \in Nat
  BY <1>1, Addresses DEF Listed, IsList
<1>4. w \in Seq(Entries) /\ Len(w) = n
  <2>1. w \in Seq(Entries)
    BY <1>3, IsASeq
  <2>2. QED
    BY <1>3, <2>1
<1>5. QED
  BY <1>2, <1>3, <1>4 DEF LinkEndless, Cyclic

\* The head of a good hour is one of its entries.
LEMMA HeadIsOn ==
  ASSUME NEW d, NEW on, on \subseteq Entries, HoursGood(d, on), NEW c \in Cells,
         d.head[c] # Nil
  PROVE  d.head[c] \in on
<1>1. PICK w, n : Listed(d, on, c, w, n)
  BY DEF HoursGood
<1>2. n \in Nat /\ n # 0 /\ d.head[c] = w[1]
  BY <1>1, Addresses DEF Listed, IsList
<1>3. 1 \in 1 .. n
  BY <1>2
<1>4. QED
  BY <1>1, <1>2, <1>3 DEF Listed, Hour

\* An entry whose time is set and that is linked: the whole of Enter.
LEMMA LinkTimed ==
  ASSUME NEW d, d \in Memory, YearsExact(d), NEW e \in Entries,
         NEW c \in Cells, NEW m \in Minutes, NEW low
  PROVE  LET x == Link(Timed(d, e, c, m), e, low) IN
         /\ x \in Memory /\ YearsExact(x)
         /\ x.cell[e] = c /\ \A f \in Entries \ {e} : x.cell[f] = d.cell[f]
         /\ \A on, kept : Good(d, on, kept) /\ e \notin on /\ ~LinkDamages(d, c, m)
                    => Good(x, on \cup {e}, kept)
<1> DEFINE t == Timed(d, e, c, m)
           x == Link(t, e, low)
<1>6. m \in 0 .. 59
  BY DateAssumption
<1>1. /\ t \in Memory /\ t.cell[e] = c /\ t.minute[e] = m
      /\ t.head = d.head /\ t.marks = d.marks /\ t.years = d.years
      /\ t.prev = d.prev /\ t.next = d.next
      /\ \A f \in Entries \ {e} : t.cell[f] = d.cell[f] /\ t.minute[f] = d.minute[f]
  <2>1. IsTimed(t, d, e, c, m)
    BY <1>6, TimedIs
  <2> HIDE DEF t
  <2>2. QED
    BY <2>1 DEF IsTimed
<1> HIDE DEF t
<1>2. YearsExact(t)
  BY <1>1 DEF YearsExact
<1>3. x \in Memory /\ YearsExact(x) /\ x.cell = t.cell
  BY <1>1, <1>2, LinkYears
<1>4. ASSUME NEW on, NEW kept, Good(d, on, kept), e \notin on, ~LinkDamages(d, c, m)
      PROVE  Good(x, on \cup {e}, kept)
  <2>1. Good(t, on, kept)
    <3>1. on \subseteq Entries
      BY <1>4 DEF Good
    <3>2. Alike(d, t, on)
      BY <1>1, <1>4, <3>1 DEF Alike
    <3>3. QED
      BY <1>1, <1>4, <3>2, Outside
  <2>2. d.head[c] # Nil => d.head[c] \in Entries \ {e}
    BY <1>4, HeadIsOn DEF Good
  <2>3. ~LinkDamages(t, c, m)
    BY <1>1, <1>4, <2>2 DEF LinkDamages
  <2>4. QED
    BY <1>1, <1>4, <2>1, <2>3, LinkGood
<1>5. QED
  BY <1>1, <1>3, <1>4 DEF t

-----------------------------------------------------------------------------
(* The invariant                                                           *)

\* Until the first damage every list is as it should be; the list of years is
\* exact in any case.
IInv ==
  /\ TypeOK
  /\ YearsExact(db) /\ left \subseteq db.marks
  /\ damage = 0 => outcome = "ok" /\ Good(db, Linked, left)

\* What Count records.
LEMMA CountIs ==
  ASSUME NEW damages \in BOOLEAN, damage \in 0 .. MaxDamage, Count(damages)
  PROVE  /\ damage' \in 0 .. MaxDamage
         /\ damage' = 0 => damage = 0 /\ ~damages
<1>1. MaxDamage \in Nat
  BY DateAssumption
<1>2. QED
  BY <1>1 DEF Count

\* Init: nothing is listed.
LEMMA InitIInv == Init => IInv
<1> SUFFICES ASSUME Init
             PROVE  IInv
  OBVIOUS
<1>1. /\ db.cell = [e \in Entries |-> NoCell] /\ db.minute = [e \in Entries |-> 0]
      /\ db.prev = [e \in Entries |-> Nil] /\ db.next = [e \in Entries |-> Nil]
      /\ db.head = [c \in Cells |-> Nil] /\ db.marks = {} /\ db.years = <<>>
      /\ live = {} /\ tom = {} /\ outcome = "ok" /\ damage = 0
      /\ left = {} /\ Linked = {}
  BY DEF Init, Linked
<1>2. db \in Memory
  <2>1. <<>> \in Seq(Years)
    OBVIOUS
  <2>2. QED
    BY <2>1 DEF Init, Memory
<1>3. TypeOK
  BY <1>1, <1>2, DateAssumption DEF TypeOK
<1>4. YearsExact(db)
  <2>1. DOMAIN <<>> = {}
    OBVIOUS
  <2>2. QED
    BY <1>1, <2>1 DEF YearsExact, IsInjective, Range
<1>5. HoursGood(db, Linked)
  <2>1. ASSUME NEW c \in Cells
        PROVE  \E w, n : Listed(db, Linked, c, w, n)
    <3> DEFINE w == [i \in 1 .. 0 |-> 1]
    <3>1. w \in [1 .. 0 -> Entries] /\ 1 .. 0 = {}
      OBVIOUS
    <3> HIDE DEF w
    <3>2. db.head[c] = Nil /\ 0 \in 0 .. MaxEntries
      BY <1>1, Addresses
    <3>3. IsList(db, c, w, 0)
      BY <3>1, <3>2 DEF IsList
    <3>4. Listed(db, Linked, c, w, 0)
      BY <1>1, <3>1, <3>3 DEF Listed, Hour
    <3>5. QED
      BY <3>4
  <2>2. QED
    BY <2>1 DEF HoursGood
<1>6. Good(db, Linked, left)
  BY <1>1, <1>5 DEF Good, WayGood
<1>7. QED
  BY <1>1, <1>3, <1>4, <1>6 DEF IInv

\* The type of what is left over.
LEMMA LeftType ==
  ASSUME TypeOK, NEW kept, kept \subseteq Months, LeaveBehind(kept)
  PROVE  left' \in SUBSET {MonthMark(c) : c \in Cells} /\ left' \subseteq db'.marks
BY DEF TypeOK, LeaveBehind, Months

LEMMA KeptType ==
  ASSUME TypeOK, NEW e \in Entries
  PROVE  Kept(e) \subseteq Months
<1>1. db.cell[e] \in Cells \cup {NoCell}
  BY Fields DEF TypeOK
<1>2. Kept(e) \subseteq {MonthMark(db.cell[e])} /\ (db.cell[e] = NoCell => Kept(e) = {})
  BY DEF Kept
<1>3. QED
  BY <1>1, <1>2 DEF Months

\* The lists are good in the next state, with what is left behind.
LEMMA GoodNext ==
  ASSUME NEW on, NEW kept, Good(db', on, left \cup kept), on = Linked', LeaveBehind(kept)
  PROVE  Good(db', Linked', left')
<1>1. Needed' = UNION {{MonthMark(db'.cell[f]), DayMark(db'.cell[f])} : f \in on}
  BY DEF Needed
<1>2. Good(db', on, {m \in left \cup kept : m \in db'.marks \ Needed'})
  <2> DEFINE N == Needed'
             x == db'
             L == left \cup kept
             R == {m \in L : m \in x.marks \ N}
  <2>1. Good(x, on, L)
    OBVIOUS
  <2>2. \A m \in (L \cap x.marks) \ R : \E f \in on : Supports(x, f, m)
    BY <1>1 DEF Supports
  <2>3. R \subseteq L
    OBVIOUS
  <2> HIDE DEF N, x, L, R
  <2>4. Good(x, on, R)
    BY <2>1, <2>2, <2>3, StillKept
  <2>5. QED
    BY <2>4 DEF N, x, L, R
<1>3. QED
  BY <1>2 DEF LeaveBehind

LEMMA AddIInv ==
  ASSUME IInv, NEW e \in Entries, NEW c \in Cells, NEW m \in Minutes,
         NEW modified \in BOOLEAN, NEW low, Add(e, c, m, modified, low)
  PROVE  IInv'
<1> DEFINE x == Link(Timed(db, e, c, m), e, low)
<1>1. /\ live \in SUBSET Entries /\ tom \in SUBSET live /\ db \in Memory
      /\ YearsExact(db) /\ damage \in 0 .. MaxDamage /\ outcome = "ok"
      /\ damage = 0 => Good(db, Linked, left)
  BY DEF IInv, TypeOK, Add
<1>2. /\ x \in Memory /\ YearsExact(x)
      /\ x.cell[e] = c /\ \A f \in Entries \ {e} : x.cell[f] = db.cell[f]
      /\ Good(db, Linked, left) /\ e \notin Linked /\ ~LinkDamages(db, c, m)
            => Good(x, Linked \cup {e}, left)
  BY <1>1, LinkTimed
<1>3. /\ damage' \in 0 .. MaxDamage
      /\ damage' = 0 => damage = 0 /\ ~LinkDamages(db, c, m)
  <2>1. Count(LinkDamages(db, c, m)) /\ LinkDamages(db, c, m) \in BOOLEAN
    BY DEF Add, LinkDamages
  <2>2. QED
    BY <1>1, <2>1, CountIs
<1>4. e \notin live /\ e \notin Linked /\ LeaveBehind({})
  BY DEF Add, Linked
<1>8. left' \in SUBSET {MonthMark(y) : y \in Cells} /\ left' \subseteq db'.marks
  BY <1>4, LeftType DEF IInv
<1>5. CASE LinkEndless(db, c, m)
  <2>1. outcome' = "endless" /\ live' = live /\ tom' = tom /\ db' = db
    BY <1>5 DEF Add, Enter
  <2>2. damage' # 0
    BY <1>1, <1>3, <1>5, NotEndless DEF Good
  <2>3. TypeOK'
    BY <1>1, <1>3, <1>8, <2>1 DEF TypeOK
  <2>4. QED
    BY <1>1, <2>1, <2>2, <2>3, <1>8 DEF IInv
<1>6. CASE ~LinkEndless(db, c, m)
  <2>1. /\ db' = x /\ outcome' = "ok" /\ live' = live \cup {e}
        /\ tom' \in SUBSET (live \cup {e})
    BY <1>1, <1>6 DEF Add, Enter, Timed
  <2> HIDE DEF x
  <2>2. TypeOK'
    BY <1>1, <1>2, <1>3, <1>8, <2>1 DEF TypeOK
  <2>3. damage' = 0 => Good(x, Linked \cup {e}, left)
    BY <1>1, <1>2, <1>3, <1>4
  <2>4. Linked' = Linked \cup {e}
    <3>1. c # NoCell
      BY Addresses
    <3>2. \A f \in live : f \in Entries \ {e}
      BY <1>1, <1>4
    <3>3. QED
      BY <1>2, <2>1, <3>1, <3>2 DEF Linked
  <2>5. damage' = 0 => Good(db', Linked', left')
    <3>1. SUFFICES ASSUME damage' = 0
                   PROVE  Good(db', Linked', left')
      OBVIOUS
    <3>2. left \cup {} = left
      OBVIOUS
    <3>3. Good(db', Linked \cup {e}, left \cup {})
      BY <2>1, <2>3, <3>1, <3>2
    <3>4. QED
      BY <1>4, <2>4, <3>3, GoodNext
  <2>6. QED
    BY <1>2, <2>1, <2>2, <2>5, <1>8 DEF IInv
<1>7. QED
  BY <1>5, <1>6

\* An entry with the refused time is linked nowhere.
LEMMA RefuseIs ==
  ASSUME NEW d, d \in Memory, NEW e \in Entries
  PROVE  IsTimed(Refuse(d, e), d, e, NoCell, 59)
<1>1. Refuse(d, e) = Timed(d, e, NoCell, 59)
  BY DEF Refuse, Timed
<1>2. IsTimed(Timed(d, e, NoCell, 59), d, e, NoCell, 59)
  BY TimedIs
<1>3. QED
  BY <1>1, <1>2

LEMMA AddRefusedIInv ==
  ASSUME IInv, NEW e \in Entries, NEW modified \in BOOLEAN, AddRefused(e, modified)
  PROVE  IInv'
<1>1. /\ live \in SUBSET Entries /\ tom \in SUBSET live /\ db \in Memory
      /\ YearsExact(db) /\ damage \in 0 .. MaxDamage /\ outcome = "ok"
      /\ damage = 0 => Good(db, Linked, left)
  BY DEF IInv, TypeOK, AddRefused
<1>2. /\ e \notin live /\ LeaveBehind({}) /\ db' = Refuse(db, e)
      /\ live' = live \cup {e} /\ tom' \in SUBSET (live \cup {e}) /\ outcome' = "ok"
  BY <1>1 DEF AddRefused
<1>3. damage' \in 0 .. MaxDamage /\ (damage' = 0 => damage = 0)
  BY <1>1, CountIs DEF AddRefused
<1>4. /\ db' \in Memory /\ db'.cell[e] = NoCell
      /\ db'.head = db.head /\ db'.marks = db.marks /\ db'.years = db.years
      /\ db'.prev = db.prev /\ db'.next = db.next
      /\ \A f \in Entries \ {e} : db'.cell[f] = db.cell[f] /\ db'.minute[f] = db.minute[f]
  BY <1>1, <1>2, RefuseIs DEF IsTimed
<1>5. left' \in SUBSET {MonthMark(y) : y \in Cells} /\ left' \subseteq db'.marks
  BY <1>2, LeftType DEF IInv
<1>6. TypeOK'
  BY <1>1, <1>2, <1>3, <1>4, <1>5 DEF TypeOK
<1>7. \A f \in live : f \in Entries \ {e}
  BY <1>1, <1>2
<1>8. Linked' = Linked
  BY <1>2, <1>4, <1>7 DEF Linked
<1>9. damage' = 0 => Good(db', Linked', left')
  <2>1. SUFFICES ASSUME damage' = 0
                 PROVE  Good(db', Linked', left')
    OBVIOUS
  <2>2. Good(db, Linked, left \cup {})
    <3>1. left \cup {} = left
      OBVIOUS
    <3>2. QED
      BY <1>1, <1>3, <2>1, <3>1
  <2>3. Alike(db, db', Linked)
    BY <1>4, <1>7 DEF Alike, Linked
  <2>4. Good(db', Linked, left \cup {})
    <3> DEFINE x == db'
    <3>1. Alike(db, x, Linked) /\ x.marks = db.marks
      BY <1>4, <2>3
    <3> HIDE DEF x
    <3>2. Good(x, Linked, left \cup {})
      BY <2>2, <3>1, Outside
    <3>3. QED
      BY <3>2 DEF x
  <2>5. QED
    BY <1>2, <1>8, <2>4, GoodNext
<1>10. YearsExact(db')
  BY <1>1, <1>4 DEF YearsExact
<1>11. QED
  BY <1>2, <1>6, <1>9, <1>10, <1>5 DEF IInv

\* What an unlink that damages nothing leaves.
LEMMA UnlinkUndamaged ==
  ASSUME IInv, damage = 0, NEW e \in live, NEW twice, ~UnlinkDamages(e, twice)
  PROVE  /\ Good(Unlink(db, e), Linked \ {e}, left \cup Kept(e))
         /\ twice => Unlink(Unlink(db, e), e) = Unlink(db, e)
<1>1. db \in Memory /\ YearsExact(db) /\ Good(db, Linked, left) /\ e \in Entries
  BY DEF IInv, TypeOK
<1>2. CASE db.cell[e] = NoCell
  <2>1. Unlink(db, e) = db
    BY <1>2 DEF Unlink
  <2>2. Linked \ {e} = Linked /\ left \cup Kept(e) = left
    BY <1>2 DEF Linked, Kept
  <2>3. QED
    BY <1>1, <2>1, <2>2
<1>3. CASE db.cell[e] # NoCell
  <2>1. /\ db.prev[e] = Nil \/ db.next[e] = Nil
        /\ twice => db.prev[e] = Nil /\ db.next[e] = Nil
    BY <1>3 DEF UnlinkDamages
  <2>2. Apart(db, Linked, e) /\ e \in Linked
    BY <1>3 DEF UnlinkDamages, Apart, Linked
  <2>3. Kept(e) = KeptBy(db, Linked, e)
    BY <1>3 DEF Kept, KeptBy, IsKept
  <2>4. Good(Unlink(db, e), Linked \ {e}, left \cup Kept(e)) /\ ~Untouched(db, e)
    BY <1>1, <2>1, <2>2, <2>3, UnlinkGood
  <2>5. QED
    BY <1>1, <2>1, <2>4, UnlinkAgain
<1>4. QED
  BY <1>2, <1>3

LEMMA DeleteIInv ==
  ASSUME IInv, NEW e \in Entries, Delete(e)
  PROVE  IInv'
<1> DEFINE d == Unlink(db, e)
           d1 == IF e \in tom THEN Unlink(d, e) ELSE d
<1>1. /\ live \in SUBSET Entries /\ tom \in SUBSET live /\ db \in Memory
      /\ YearsExact(db) /\ damage \in 0 .. MaxDamage /\ outcome = "ok" /\ e \in live
  BY DEF IInv, TypeOK, Delete
<1>2. d \in Memory /\ YearsExact(d)
  BY <1>1, UnlinkYears
<1>3. /\ damage' \in 0 .. MaxDamage
      /\ damage' = 0 => damage = 0 /\ ~UnlinkDamages(e, e \in tom)
  <2>1. Count(UnlinkDamages(e, e \in tom)) /\ UnlinkDamages(e, e \in tom) \in BOOLEAN
    BY DEF Delete, UnlinkDamages
  <2>2. QED
    BY <1>1, <2>1, CountIs
<1>4. damage' = 0 => Good(d, Linked \ {e}, left \cup Kept(e)) /\ d1 = d
  BY <1>1, <1>3, UnlinkUndamaged
<1>5. /\ live' = live \ {e} /\ tom' = tom \ {e} /\ outcome' = "ok"
      /\ db' = Wipe(d1, e) /\ LeaveBehind(Kept(e))
  BY <1>1 DEF Delete
<1>12. d1.cell = db.cell
  <2>1. d.cell = db.cell
    BY <1>1, UnlinkYears
  <2> HIDE DEF d
  <2>2. QED
    BY <1>1, <1>2, <2>1, UnlinkYears
<1>13. left' \in SUBSET {MonthMark(y) : y \in Cells} /\ left' \subseteq db'.marks
  BY <1>1, <1>5, KeptType, LeftType DEF IInv
<1> HIDE DEF d
<1>6. d1 \in Memory /\ YearsExact(d1)
  BY <1>2, UnlinkYears
<1> HIDE DEF d1
<1>7. /\ db' \in Memory /\ db'.head = d1.head /\ db'.marks = d1.marks /\ db'.years = d1.years
      /\ \A f \in Entries \ {e} : /\ db'.cell[f] = d1.cell[f] /\ db'.minute[f] = d1.minute[f]
                                  /\ db'.prev[f] = d1.prev[f] /\ db'.next[f] = d1.next[f]
  BY <1>5, <1>6, WipeIs
<1>8. TypeOK'
  BY <1>1, <1>3, <1>5, <1>7, <1>13 DEF TypeOK
<1>9. YearsExact(db')
  BY <1>6, <1>7 DEF YearsExact
<1>14. \A f \in live \ {e} : f \in Entries \ {e}
  BY <1>1
<1>15. Linked' = Linked \ {e}
  BY <1>5, <1>7, <1>12, <1>14 DEF Linked
<1>10. damage' = 0 => Good(db', Linked', left')
  <2>1. SUFFICES ASSUME damage' = 0
                 PROVE  Good(db', Linked', left')
    OBVIOUS
  <2>2. Good(d1, Linked \ {e}, left \cup Kept(e))
    BY <1>4, <2>1
  <2>3. Alike(d1, db', Linked \ {e})
    BY <1>7, <1>14 DEF Alike, Linked
  <2>4. Good(db', Linked \ {e}, left \cup Kept(e))
    <3> DEFINE x == db'
    <3>1. Alike(d1, x, Linked \ {e}) /\ x.marks = d1.marks
      BY <1>7, <2>3
    <3> HIDE DEF x
    <3>2. Good(x, Linked \ {e}, left \cup Kept(e))
      BY <2>2, <3>1, Outside
    <3>3. QED
      BY <3>2 DEF x
  <2>5. QED
    BY <1>5, <1>15, <2>4, GoodNext
<1>11. QED
  BY <1>5, <1>8, <1>9, <1>10, <1>13 DEF IInv

LEMMA EditIInv ==
  ASSUME IInv, NEW e \in Entries, NEW c \in Cells, NEW m \in Minutes, NEW low,
         Edit(e, c, m, low)
  PROVE  IInv'
<1> DEFINE d == Unlink(db, e)
           d1 == Timed(d, e, c, m)
           x == Link(Timed(d1, e, c, m), e, low)
<1>1. /\ live \in SUBSET Entries /\ tom \in SUBSET live /\ db \in Memory
      /\ YearsExact(db) /\ damage \in 0 .. MaxDamage /\ outcome = "ok" /\ e \in live
  BY DEF IInv, TypeOK, Edit
<1>2. d \in Memory /\ YearsExact(d) /\ d.cell = db.cell
  BY <1>1, UnlinkYears
<1>3. /\ damage' \in 0 .. MaxDamage
      /\ damage' = 0 => damage = 0 /\ ~UnlinkDamages(e, FALSE) /\ ~LinkDamages(d, c, m)
  <2> DEFINE D == UnlinkDamages(e, FALSE) \/ LinkDamages(d, c, m)
  <2>1. Count(D) /\ D \in BOOLEAN
    BY DEF Edit, UnlinkDamages, LinkDamages
  <2> HIDE DEF D
  <2>2. /\ damage' \in 0 .. MaxDamage
        /\ damage' = 0 => damage = 0 /\ ~D
    BY <1>1, <2>1, CountIs
  <2>3. QED
    BY <2>2 DEF D
<1>4. damage' = 0 => Good(d, Linked \ {e}, left \cup Kept(e))
  BY <1>1, <1>3, UnlinkUndamaged
<1>5. /\ live' = live /\ tom' = tom /\ LeaveBehind(Kept(e))
      /\ IF LinkEndless(d1, c, m) THEN outcome' = "endless" /\ db' = db
         ELSE outcome' = "ok" /\ db' = x
  BY <1>1 DEF Edit, Enter, Timed
<1>14. left' \in SUBSET {MonthMark(y) : y \in Cells} /\ left' \subseteq db'.marks
  BY <1>1, <1>5, KeptType, LeftType DEF IInv
<1> HIDE DEF d
<1>13. m \in 0 .. 59
  BY DateAssumption
<1>6. /\ d1 \in Memory /\ d1.cell[e] = c /\ d1.minute[e] = m
      /\ d1.head = d.head /\ d1.marks = d.marks /\ d1.years = d.years
      /\ d1.prev = d.prev /\ d1.next = d.next
      /\ \A f \in Entries \ {e} : d1.cell[f] = d.cell[f] /\ d1.minute[f] = d.minute[f]
  <2>1. d \in Memory
    BY <1>2
  <2> HIDE DEF x
  <2>2. IsTimed(d1, d, e, c, m)
    BY <1>13, <2>1, TimedIs
  <2> HIDE DEF d1
  <2>3. QED
    BY <2>2 DEF IsTimed
<1> HIDE DEF d1
<1>7. YearsExact(d1)
  BY <1>2, <1>6 DEF YearsExact
<1>15. \A f \in live \ {e} : f \in Entries \ {e}
  BY <1>1
<1>8. damage' = 0 => Good(d1, Linked \ {e}, left \cup Kept(e))
  <2>1. SUFFICES ASSUME damage' = 0
                 PROVE  Good(d1, Linked \ {e}, left \cup Kept(e))
    OBVIOUS
  <2>2. Alike(d, d1, Linked \ {e})
    BY <1>6, <1>15 DEF Alike, Linked
  <2>3. QED
    BY <1>4, <1>6, <2>1, <2>2, Outside
<1>9. damage' = 0 => ~LinkDamages(d1, c, m)
  <2>1. SUFFICES ASSUME damage' = 0
                 PROVE  ~LinkDamages(d1, c, m)
    OBVIOUS
  <2>2. d.head[c] # Nil => d.head[c] \in Entries \ {e}
    BY <1>1, <1>4, <2>1, HeadIsOn DEF Good
  <2>3. QED
    BY <1>3, <1>6, <2>1, <2>2 DEF LinkDamages
<1>10. CASE LinkEndless(d1, c, m)
  <2>1. damage' # 0
    BY <1>8, <1>10, NotEndless DEF Good
  <2>2. TypeOK'
    BY <1>1, <1>3, <1>5, <1>10, <1>14 DEF TypeOK
  <2>3. QED
    BY <1>1, <1>5, <1>10, <2>1, <2>2, <1>14 DEF IInv
<1>11. CASE ~LinkEndless(d1, c, m)
  <2>1. /\ x \in Memory /\ YearsExact(x)
        /\ x.cell[e] = c /\ \A f \in Entries \ {e} : x.cell[f] = d1.cell[f]
        /\ damage' = 0 => Good(x, (Linked \ {e}) \cup {e}, left \cup Kept(e))
    <3>1. e \notin Linked \ {e}
      OBVIOUS
    <3>2. QED
      BY <1>6, <1>7, <1>8, <1>9, <3>1, LinkTimed
  <2>2. db' = x /\ outcome' = "ok"
    BY <1>1, <1>5, <1>11
  <2> HIDE DEF x
  <2>3. TypeOK'
    BY <1>1, <1>3, <1>5, <1>14, <2>1, <2>2 DEF TypeOK
  <2>5. Linked' = (Linked \ {e}) \cup {e}
    <3>1. c # NoCell /\ \A f \in live \ {e} : x.cell[f] = db.cell[f]
      BY <1>2, <1>6, <1>15, <2>1, Addresses
    <3>2. QED
      BY <1>1, <1>5, <2>1, <2>2, <3>1 DEF Linked
  <2>6. damage' = 0 => Good(db', Linked', left')
    BY <1>5, <2>1, <2>2, <2>5, GoodNext
  <2>4. QED
    BY <2>1, <2>2, <2>3, <2>6, <1>14 DEF IInv
<1>12. QED
  BY <1>10, <1>11

LEMMA EditRefusedIInv ==
  ASSUME IInv, NEW e \in Entries, EditRefused(e)
  PROVE  IInv'
<1> DEFINE d == Unlink(db, e)
<1>1. /\ live \in SUBSET Entries /\ tom \in SUBSET live /\ db \in Memory
      /\ YearsExact(db) /\ damage \in 0 .. MaxDamage /\ outcome = "ok" /\ e \in live
  BY DEF IInv, TypeOK, EditRefused
<1>2. d \in Memory /\ YearsExact(d) /\ d.cell = db.cell
  BY <1>1, UnlinkYears
<1>3. /\ damage' \in 0 .. MaxDamage
      /\ damage' = 0 => damage = 0 /\ ~UnlinkDamages(e, FALSE)
  <2>1. Count(UnlinkDamages(e, FALSE)) /\ UnlinkDamages(e, FALSE) \in BOOLEAN
    BY DEF EditRefused, UnlinkDamages
  <2>2. QED
    BY <1>1, <2>1, CountIs
<1>4. damage' = 0 => Good(d, Linked \ {e}, left \cup Kept(e))
  BY <1>1, <1>3, UnlinkUndamaged
<1>5. /\ live' = live /\ tom' = tom /\ outcome' = "ok" /\ LeaveBehind(Kept(e))
      /\ db' = Refuse(d, e)
  BY <1>1 DEF EditRefused
<1>6. left' \in SUBSET {MonthMark(y) : y \in Cells} /\ left' \subseteq db'.marks
  BY <1>1, <1>5, KeptType, LeftType DEF IInv
<1> HIDE DEF d
<1>7. /\ db' \in Memory /\ db'.cell[e] = NoCell
      /\ db'.head = d.head /\ db'.marks = d.marks /\ db'.years = d.years
      /\ db'.prev = d.prev /\ db'.next = d.next
      /\ \A f \in Entries \ {e} : db'.cell[f] = d.cell[f] /\ db'.minute[f] = d.minute[f]
  BY <1>2, <1>5, RefuseIs DEF IsTimed
<1>8. TypeOK'
  BY <1>1, <1>3, <1>5, <1>6, <1>7 DEF TypeOK
<1>9. YearsExact(db')
  BY <1>2, <1>7 DEF YearsExact
<1>10. \A f \in live \ {e} : f \in Entries \ {e}
  BY <1>1
<1>11. Linked' = Linked \ {e}
  BY <1>2, <1>5, <1>7, <1>10 DEF Linked
<1>12. damage' = 0 => Good(db', Linked', left')
  <2>1. SUFFICES ASSUME damage' = 0
                 PROVE  Good(db', Linked', left')
    OBVIOUS
  <2>2. Alike(d, db', Linked \ {e})
    BY <1>7, <1>10 DEF Alike, Linked
  <2>3. Good(db', Linked \ {e}, left \cup Kept(e))
    <3> DEFINE x == db'
    <3>1. Alike(d, x, Linked \ {e}) /\ x.marks = d.marks
      BY <1>7, <2>2
    <3> HIDE DEF x
    <3>2. Good(x, Linked \ {e}, left \cup Kept(e))
      BY <1>4, <2>1, <3>1, Outside
    <3>3. QED
      BY <3>2 DEF x
  <2>4. QED
    BY <1>5, <1>11, <2>3, GoodNext
<1>13. QED
  BY <1>5, <1>8, <1>9, <1>12, <1>6 DEF IInv

\* The invariant is inductive.
LEMMA NextIInv == IInv /\ [Next]_vars => IInv'
<1> SUFFICES ASSUME IInv, [Next]_vars
             PROVE  IInv'
  OBVIOUS
<1>1. ASSUME NEW e \in Entries, NEW c \in Cells, NEW m \in Minutes, NEW low \in Lows(c),
             NEW modified \in BOOLEAN, Add(e, c, m, modified, low)
      PROVE  IInv'
  BY <1>1, AddIInv
<1>2. ASSUME NEW e \in Entries, NEW c \in Cells, NEW m \in Minutes, NEW low \in Lows(c),
             Edit(e, c, m, low)
      PROVE  IInv'
  BY <1>2, EditIInv
<1>3. ASSUME NEW e \in Entries, Delete(e)
      PROVE  IInv'
  BY <1>3, DeleteIInv
<1>4. ASSUME NEW e \in Entries, NEW modified \in BOOLEAN, AddRefused(e, modified)
      PROVE  IInv'
  BY <1>4, AddRefusedIInv
<1>5. ASSUME NEW e \in Entries, EditRefused(e)
      PROVE  IInv'
  BY <1>5, EditRefusedIInv
<1>6. CASE UNCHANGED vars
  BY <1>6 DEF vars, IInv, TypeOK, Linked
<1>7. QED
  BY <1>1, <1>2, <1>3, <1>4, <1>5, <1>6 DEF Next

LEMMA AlwaysIInv == Spec => []IInv
BY InitIInv, NextIInv, PTL DEF Spec

\* TypeCorrect: whatever has been linked, unlinked or damaged, the fields hold
\* what the C structures can hold.
THEOREM TypeCorrect == Spec => []TypeOK
<1>1. IInv => TypeOK
  BY DEF IInv
<1>2. QED
  BY <1>1, AlwaysIInv, PTL

\* HoursAreExact: until the first damage an hour lists its entries, sorted, each
\* once, with links back that agree, for any number of entries and any hours.
THEOREM HoursAreExact == Spec => []HoursExact
<1>1. IInv => HoursExact
  <2>1. SUFFICES ASSUME IInv, damage = 0, NEW c \in Cells
                 PROVE  /\ Range(Path(db, c)) = {e \in live : db.cell[e] = c}
                        /\ IsInjective(Path(db, c))
                        /\ \A i \in 1 .. Len(Path(db, c)) :
                             /\ db.prev[Path(db, c)[i]] =
                                  IF i = 1 THEN Nil ELSE Path(db, c)[i - 1]
                             /\ i > 1 => db.minute[Path(db, c)[i - 1]]
                                           <= db.minute[Path(db, c)[i]]
    BY DEF IInv, HoursExact
  <2>2. PICK w, n : Listed(db, Linked, c, w, n)
    BY <2>1 DEF IInv, Good, HoursGood
  <2>3. Path(db, c) = w
    BY <2>2, PathIs DEF Listed
  <2>4. n \in Nat /\ w \in [1 .. n -> Entries]
    BY <2>2, Addresses DEF Listed, IsList
  <2>5. w \in Seq(Entries) /\ Len(w) = n /\ DOMAIN w = 1 .. n
    <3>1. w \in Seq(Entries)
      BY <2>4, IsASeq
    <3>2. QED
      BY <2>4, <3>1
  <2>6. Range(w) = {e \in live : db.cell[e] = c}
    <3>1. Range(w) = {w[i] : i \in 1 .. n}
      BY <2>5 DEF Range
    <3>2. Hour(db, Linked, c) = {e \in live : db.cell[e] = c}
      BY Addresses DEF Hour, Linked
    <3>3. QED
      BY <2>2, <3>1, <3>2 DEF Listed
  <2>7. IsInjective(w)
    BY <2>2, <2>5 DEF Listed, IsInjective
  <2>8. QED
    BY <2>2, <2>3, <2>5, <2>6, <2>7 DEF Listed
<1>2. QED
  BY <1>1, AlwaysIInv, PTL

\* WayDownIsExact: damaged or not, a year is listed, once, just as long as one
\* of its months is marked; until the first damage the marks are those on the way
\* to the entries and those of months the loop over 32 days left behind.
THEOREM WayDownIsExact == Spec => []WayDownExact
<1>1. IInv => WayDownExact
  <2>1. SUFFICES ASSUME IInv, damage = 0
                 PROVE  db.marks = Needed \cup left
    BY DEF IInv, YearsExact, WayDownExact
  <2>2. Good(db, Linked, left)
    BY <2>1 DEF IInv
  <2>3. Needed \subseteq db.marks
    BY <2>2 DEF Good, WayGood, Needed
  <2>4. db.marks \subseteq Needed \cup left
    BY <2>2 DEF Good, WayGood, Needed, Supports
  <2>5. left \subseteq db.marks
    BY <2>1 DEF IInv
  <2>6. QED
    BY <2>3, <2>4, <2>5
<1>2. QED
  BY <1>1, AlwaysIInv, PTL
=============================================================================
