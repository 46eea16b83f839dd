--------------------------- MODULE DataFileProofs ---------------------------
(***************************************************************************)
(* Proofs that, for any database, any size of the buffer and any number of *)
(* commands, the memory and the save under way are well formed (TypeOK),   *)
(* load_file takes what a crash, a failed or a lost write in a save_file   *)
(* leaves behind for a database only if it gives back all that was to be   *)
(* saved (LoadsAllOrNothing), and takes a file that was written to its end *)
(* (SavedLoads).                                                           *)
(*                                                                         *)
(* The way: folds and recursive functions; what a tree of entries is; what *)
(* link_entry_for_save_file links, by induction on the height of an entry; *)
(* what load_file makes of the items, one after the other; last, that each *)
(* step keeps the invariants SaveInv and FileInv.                          *)
(***************************************************************************)
EXTENDS DataFile, Integers, FiniteSetTheorems, SequenceTheorems, WellFoundedInduction, TLAPS

-----------------------------------------------------------------------------
(* Facts about numbers the proofs rest on                                  *)

\* A non-empty set of natural numbers has a least element.
LEMMA LeastElement ==
  ASSUME NEW T, T \subseteq Nat, T # {}
  PROVE  \E m \in T : \A k \in T : m <= k
<1>1. PICK m \in T : \A k \in T : <<k, m>> \notin OpToRel(<, Nat)
  BY NatLessThanWellFounded, WFMin
<1>2. ASSUME NEW k \in T, k < m
      PROVE  FALSE
  <2>1. <<k, m>> \in OpToRel(<, Nat)
    BY <1>2 DEF OpToRel
  <2>2. QED
    BY <1>1, <2>1
<1>3. \A k \in T : ~(k < m)
  BY <1>2
<1>4. \A k \in T : k \in Nat /\ m \in Nat
  OBVIOUS
<1>5. \A k \in T : m <= k
  BY <1>3, <1>4
<1>6. QED
  BY <1>5

\* A set that has 0 and the successor of each of its numbers has them all.
LEMMA SetInduction ==
  ASSUME NEW S, 0 \in S, \A n \in Nat : n \in S => n + 1 \in S
  PROVE  Nat \subseteq S
<1>1. SUFFICES ASSUME Nat \ S # {}
               PROVE  FALSE
  OBVIOUS
<1>2. PICK m \in Nat \ S : \A k \in Nat \ S : m <= k
  BY <1>1, LeastElement
<1>3. m - 1 \in Nat /\ m - 1 \in S
  BY <1>2
<1>4. QED
  BY <1>2, <1>3

-----------------------------------------------------------------------------
(* Folds over lists                                                        *)

\* Every non-empty part of 1 .. n has a greatest element.
LEMMA GreatestElement ==
  ASSUME NEW n \in Nat, NEW s \in SUBSET (1 .. n), s # {}
  PROVE  Max(s) \in s /\ \A i \in s : i <= Max(s)
<1> DEFINE T == {n - i : i \in s}
<1>1. T \subseteq Nat /\ T # {}
  <2>1. \A i \in s : n - i \in Nat
    OBVIOUS
  <2>2. QED
    BY <2>1
<1>2. PICK m \in T : \A k \in T : m <= k
  <2> HIDE DEF T
  <2>1. QED
    BY <1>1, LeastElement
<1>3. PICK x \in s : m = n - x
  BY <1>2
<1>4. \A i \in s : n - x <= n - i
  BY <1>2, <1>3
<1>5. \A i \in s : x >= i
  BY <1>4
<1>6. \E y \in s : \A i \in s : y >= i
  BY <1>5
<1>7. Max(s) \in s /\ \A i \in s : Max(s) >= i
  BY <1>6 DEF Max
<1>8. QED
  BY <1>7

\* The last number of 1 .. k, and the numbers before it.
LEMMA LastOfPrefix ==
  ASSUME NEW n \in Nat, NEW k \in 1 .. n
  PROVE  /\ Max(1 .. k) = k /\ (1 .. k) \ {k} = 1 .. k - 1 /\ 1 .. k # {}
         /\ 1 .. k \in SUBSET (1 .. n)
<1>1. 1 .. k \in SUBSET (1 .. k) /\ 1 .. k # {} /\ k \in Nat
  OBVIOUS
<1>2. Max(1 .. k) \in 1 .. k /\ \A i \in 1 .. k : i <= Max(1 .. k)
  BY <1>1, GreatestElement
<1>3. QED
  BY <1>2

\* The values of a step function folded over any part of 1 .. n, from the least
\* number to the greatest.
Folds(g, base, F, n) ==
  \A s \in SUBSET (1 .. n) :
    g[s] = IF s = {} THEN base ELSE F[<<g[s \ {Max(s)}], Max(s)>>]

HasFold(X, base, F, n) == \E g \in [SUBSET (1 .. n) -> X] : Folds(g, base, F, n)

\* A fold has a value.
LEMMA FoldExists ==
  ASSUME NEW X, NEW base \in X, NEW n \in Nat, NEW F \in [X \X (1 .. n) -> X]
  PROVE  HasFold(X, base, F, n)
<1> DEFINE S == {k \in Nat : k <= n => HasFold(X, base, F, k)}
<1>1. 0 \in S
  <2> DEFINE g == [s \in SUBSET (1 .. 0) |-> base]
  <2>1. g \in [SUBSET (1 .. 0) -> X]
    OBVIOUS
  <2>2. Folds(g, base, F, 0)
    BY DEF Folds
  <2> HIDE DEF g
  <2>3. HasFold(X, base, F, 0)
    BY <2>1, <2>2 DEF HasFold
  <2>4. QED
    BY <2>3
<1>2. ASSUME NEW k \in Nat, k \in S
      PROVE  k + 1 \in S
  <2>1. SUFFICES ASSUME k + 1 <= n
                 PROVE  HasFold(X, base, F, k + 1)
    OBVIOUS
  <2>2. PICK h \in [SUBSET (1 .. k) -> X] : Folds(h, base, F, k)
    <3>1. HasFold(X, base, F, k)
      BY <1>2, <2>1
    <3>2. QED
      BY <3>1 DEF HasFold
  <2> DEFINE g == [s \in SUBSET (1 .. k + 1) |->
                     IF k + 1 \in s THEN F[<<h[s \ {k + 1}], k + 1>>] ELSE h[s]]
  <2>3. ASSUME NEW s \in SUBSET (1 .. k + 1)
        PROVE  /\ s \ {k + 1} \in SUBSET (1 .. k)
               /\ k + 1 \notin s => s \in SUBSET (1 .. k)
    OBVIOUS
  <2>4. g \in [SUBSET (1 .. k + 1) -> X]
    <3>1. \A s \in SUBSET (1 .. k + 1) :
            /\ h[s \ {k + 1}] \in X
            /\ k + 1 \notin s => h[s] \in X
      BY <2>3
    <3>2. k + 1 \in 1 .. n
      BY <2>1
    <3>3. QED
      BY <3>1, <3>2
  <2>5. ASSUME NEW s \in SUBSET (1 .. k + 1)
        PROVE  g[s] = IF s = {} THEN base ELSE F[<<g[s \ {Max(s)}], Max(s)>>]
    <3>1. CASE k + 1 \in s
      <4>1. Max(s) = k + 1
        <5>1. k + 1 \in Nat /\ s # {}
          BY <3>1
        <5>2. Max(s) \in s /\ k + 1 <= Max(s)
          BY <5>1, <3>1, GreatestElement
        <5>3. QED
          <6>1. Max(s) \in 1 .. k + 1
            BY <5>2
          <6>2. QED
            BY <5>2, <6>1
      <4>2. s \ {k + 1} \in SUBSET (1 .. k + 1) /\ k + 1 \notin s \ {k + 1}
        OBVIOUS
      <4>3. g[s \ {k + 1}] = h[s \ {k + 1}]
        BY <4>2
      <4>4. g[s] = F[<<h[s \ {k + 1}], k + 1>>]
        BY <3>1
      <4> HIDE DEF g
      <4>5. QED
        BY <3>1, <4>1, <4>3, <4>4
    <3>2. CASE k + 1 \notin s
      <4>1. s \in SUBSET (1 .. k) /\ g[s] = h[s]
        BY <2>3, <3>2
      <4>2. h[s] = IF s = {} THEN base ELSE F[<<h[s \ {Max(s)}], Max(s)>>]
        BY <2>2, <4>1 DEF Folds
      <4>3. s \ {Max(s)} \in SUBSET (1 .. k + 1) /\ k + 1 \notin s \ {Max(s)}
        BY <3>2
      <4>4. g[s \ {Max(s)}] = h[s \ {Max(s)}]
        BY <4>3
      <4> HIDE DEF g
      <4>5. QED
        BY <4>1, <4>2, <4>4
    <3>3. QED
      BY <3>1, <3>2
  <2>6. Folds(g, base, F, k + 1)
    <3> HIDE DEF g
    <3>1. QED
      BY <2>5 DEF Folds
  <2> HIDE DEF g
  <2>7. QED
    BY <2>4, <2>6 DEF HasFold
<1>3. Nat \subseteq S
  <2> HIDE DEF S
  <2>1. QED
    BY <1>1, <1>2, SetInduction
<1>4. n \in S
  BY <1>3
<1>5. QED
  BY <1>4

\* Induction over the members of a list.
LEMMA PrefixInduction ==
  ASSUME NEW n \in Nat, NEW S, 0 \in S, \A k \in 1 .. n : k - 1 \in S => k \in S
  PROVE  \A k \in 0 .. n : k \in S
<1> DEFINE T == {k \in Nat : k <= n => k \in S}
<1>1. 0 \in T
  OBVIOUS
<1>2. \A k \in Nat : k \in T => k + 1 \in T
  <2>1. SUFFICES ASSUME NEW k \in Nat, k \in T, k + 1 <= n
                 PROVE  k + 1 \in S
    OBVIOUS
  <2>2. k + 1 \in 1 .. n /\ (k + 1) - 1 = k /\ k \in S
    BY <2>1
  <2>3. QED
    BY <2>2
<1>3. Nat \subseteq T
  <2> HIDE DEF T
  <2>1. QED
    BY <1>1, <1>2, SetInduction
<1>4. QED
  BY <1>3

\* What a fold has computed before each of its steps.
FoldSteps(f, base, F, n) ==
  f[0] = base /\ \A k \in 1 .. n : f[k] = F[<<f[k - 1], k>>]

HasSteps(X, base, F, n, value) ==
  \E f \in [0 .. n -> X] : FoldSteps(f, base, F, n) /\ f[n] = value

\* A function that obeys the recursion of a fold, as far as it stays among the
\* values, has computed it step by step.
LEMMA TraceOf ==
  ASSUME NEW X, NEW base \in X, NEW n \in Nat, NEW F \in [X \X (1 .. n) -> X],
         NEW g, g[{}] = base,
         \A s \in SUBSET (1 .. n) :
           s # {} /\ g[s \ {Max(s)}] \in X => g[s] = F[<<g[s \ {Max(s)}], Max(s)>>]
  PROVE  HasSteps(X, base, F, n, g[1 .. n])
<1> DEFINE f == [k \in 0 .. n |-> g[1 .. k]]
<1>1. f[0] = base
  <2>1. f[0] = g[1 .. 0] /\ 1 .. 0 = {}
    OBVIOUS
  <2> HIDE DEF f
  <2>2. QED
    BY <2>1
<1>2. ASSUME NEW k \in 1 .. n, f[k - 1] \in X
      PROVE  f[k] = F[<<f[k - 1], k>>]
  <2>1. /\ Max(1 .. k) = k /\ (1 .. k) \ {k} = 1 .. k - 1 /\ 1 .. k # {}
        /\ 1 .. k \in SUBSET (1 .. n)
    BY LastOfPrefix
  <2>2. f[k] = g[1 .. k] /\ f[k - 1] = g[1 .. k - 1]
    OBVIOUS
  <2> HIDE DEF f
  <2>3. g[(1 .. k) \ {Max(1 .. k)}] \in X
    BY <1>2, <2>1, <2>2
  <2>4. g[1 .. k] = F[<<g[(1 .. k) \ {Max(1 .. k)}], Max(1 .. k)>>]
    BY <2>1, <2>3
  <2>5. QED
    BY <2>1, <2>2, <2>4
<1>3. f = [k \in 0 .. n |-> f[k]] /\ f[n] = g[1 .. n]
  OBVIOUS
<1> HIDE DEF f
<1> DEFINE S == {k \in 0 .. n : f[k] \in X}
<1>4. 0 \in S
  BY <1>1
<1>5. ASSUME NEW k \in 1 .. n, k - 1 \in S
      PROVE  k \in S
  <2>1. k \in 0 .. n /\ f[k - 1] \in X
    BY <1>5
  <2>2. f[k] = F[<<f[k - 1], k>>]
    BY <1>2, <2>1
  <2>3. f[k] \in X
    BY <2>1, <2>2
  <2>4. QED
    BY <2>1, <2>3
<1>6. \A k \in 0 .. n : k \in S
  <2> HIDE DEF S
  <2>1. QED
    BY <1>4, <1>5, PrefixInduction
<1>7. f \in [0 .. n -> X]
  BY <1>3, <1>6
<1>8. \A k \in 1 .. n : f[k] = F[<<f[k - 1], k>>]
  <2>1. TAKE k \in 1 .. n
  <2>2. k - 1 \in 0 .. n
    OBVIOUS
  <2>3. f[k - 1] \in X
    BY <1>7, <2>2
  <2>4. QED
    BY <1>2, <2>3
<1>9. FoldSteps(f, base, F, n)
  BY <1>1, <1>8 DEF FoldSteps
<1>10. QED
  BY <1>3, <1>7, <1>9 DEF HasSteps

-----------------------------------------------------------------------------
(* Lists                                                                   *)

\* One step of Only on a list.
OnlyStep(Y, q, set) ==
  [x \in Seq(Y) \X (1 .. Len(q)) |->
     IF q[x[2]] \in set THEN Append(x[1], q[x[2]]) ELSE x[1]]

\* Only is computed member by member.
LEMMA OnlyTrace ==
  ASSUME NEW Y, NEW q \in Seq(Y), NEW set
  PROVE  HasSteps(Seq(Y), <<>>, OnlyStep(Y, q, set), Len(q), Only(q, set))
<1> DEFINE n == Len(q)
           F == OnlyStep(Y, q, set)
           Next1(r, i) == IF q[i] \in set THEN Append(r, q[i]) ELSE r
           Solves(g) == g = [s \in SUBSET (1 .. n) |->
                               IF s = {} THEN <<>>
                               ELSE IF q[Max(s)] \in set
                                    THEN Append(g[s \ {Max(s)}], q[Max(s)])
                                    ELSE g[s \ {Max(s)}]]
           iter == CHOOSE g : Solves(g)
<1>1. n \in Nat /\ DOMAIN q = 1 .. n /\ <<>> \in Seq(Y)
  OBVIOUS
<1>2. Only(q, set) = iter[1 .. n]
  BY <1>1 DEF Only, FoldLeft, MapThenFoldSet
<1>3. /\ F \in [Seq(Y) \X (1 .. n) -> Seq(Y)]
      /\ \A r \in Seq(Y), i \in 1 .. n : F[<<r, i>>] = Next1(r, i)
  <2>1. \A i \in 1 .. n : q[i] \in Y
    OBVIOUS
  <2>2. \A x \in Seq(Y) \X (1 .. n) : Next1(x[1], x[2]) \in Seq(Y)
    BY <2>1
  <2>3. QED
    BY <2>2 DEF OnlyStep
<1> HIDE DEF F, n
<1>4. PICK h \in [SUBSET (1 .. n) -> Seq(Y)] : Folds(h, <<>>, F, n)
  <2>1. HasFold(Seq(Y), <<>>, F, n)
    BY <1>1, <1>3, FoldExists
  <2>2. QED
    BY <2>1 DEF HasFold
<1>5. \A s \in SUBSET (1 .. n) : s # {} => Max(s) \in 1 .. n
  BY <1>1, GreatestElement
<1>6. Solves(h)
  <2>1. h = [s \in SUBSET (1 .. n) |-> h[s]]
    BY <1>4
  <2>2. ASSUME NEW s \in SUBSET (1 .. n)
        PROVE  h[s] = IF s = {} THEN <<>> ELSE Next1(h[s \ {Max(s)}], Max(s))
    <3>1. h[s] = IF s = {} THEN <<>> ELSE F[<<h[s \ {Max(s)}], Max(s)>>]
      BY <1>4 DEF Folds
    <3>2. h[s \ {Max(s)}] \in Seq(Y)
      BY <1>4
    <3>3. QED
      BY <1>3, <1>5, <3>1, <3>2
  <2>3. QED
    BY <2>1, <2>2
<1>7. Solves(iter)
  <2> HIDE DEF Solves
  <2>1. QED
    BY <1>6
<1> HIDE DEF iter
<1>8. iter[{}] = <<>>
  <2>1. {} \in SUBSET (1 .. n)
    OBVIOUS
  <2>2. QED
    BY <1>7, <2>1
<1>9. ASSUME NEW s \in SUBSET (1 .. n), s # {}, iter[s \ {Max(s)}] \in Seq(Y)
      PROVE  iter[s] = F[<<iter[s \ {Max(s)}], Max(s)>>]
  <2>1. iter[s] = Next1(iter[s \ {Max(s)}], Max(s))
    BY <1>7, <1>9
  <2>2. QED
    BY <1>3, <1>5, <1>9, <2>1
<1>10. HasSteps(Seq(Y), <<>>, F, n, iter[1 .. n])
  <2> HIDE DEF Solves
  <2>1. QED
    BY <1>1, <1>3, <1>8, <1>9, TraceOf
<1>11. QED
  BY <1>2, <1>10 DEF F, n

\* One more member of a list.
LEMMA AppendFacts ==
  ASSUME NEW Y, NEW s \in Seq(Y), NEW x \in Y
  PROVE  /\ Append(s, x) \in Seq(Y)
         /\ Range(Append(s, x)) = Range(s) \cup {x}
         /\ IsInjective(s) /\ x \notin Range(s) => IsInjective(Append(s, x))
<1> DEFINE t == Append(s, x)
           n == Len(s)
<1>1. /\ t \in Seq(Y) /\ Len(t) = n + 1 /\ n \in Nat
      /\ \A i \in 1 .. n : t[i] = s[i]
      /\ t[n + 1] = x
      /\ DOMAIN t = 1 .. n + 1 /\ DOMAIN s = 1 .. n
  OBVIOUS
<1> HIDE DEF t, n
<1>2. Range(t) = Range(s) \cup {x}
  <2>1. \A i \in 1 .. n + 1 : i \in 1 .. n \/ i = n + 1
    BY <1>1
  <2>2. \A i \in 1 .. n : i \in 1 .. n + 1
    BY <1>1
  <2>3. n + 1 \in 1 .. n + 1
    BY <1>1
  <2>4. QED
    BY <1>1, <2>1, <2>2, <2>3 DEF Range
<1>3. ASSUME IsInjective(s), x \notin Range(s)
      PROVE  IsInjective(t)
  <2>1. \A i \in 1 .. n : s[i] # x
    BY <1>1, <1>3 DEF Range
  <2>2. \A i, j \in 1 .. n : s[i] = s[j] => i = j
    BY <1>1, <1>3 DEF IsInjective
  <2>3. \A i \in 1 .. n + 1 : i \in 1 .. n \/ i = n + 1
    BY <1>1
  <2>4. \A i, j \in 1 .. n + 1 : t[i] = t[j] => i = j
    BY <1>1, <2>1, <2>2, <2>3
  <2>5. QED
    BY <1>1, <2>4 DEF IsInjective
<1>4. QED
  BY <1>1, <1>2, <1>3 DEF t

\* The first k members of a list.
FirstOf(q, k) == {q[j] : j \in 1 .. k}

\* A list that has just the first k members of another that are in a set.
Picks(r, q, k, set) ==
  /\ Range(r) = FirstOf(q, k) \cap set
  /\ IsInjective(q) => IsInjective(r)

\* Only keeps just the members that are in the set, and repeats none.
LEMMA OnlyIs ==
  ASSUME NEW Y, NEW q \in Seq(Y), NEW set
  PROVE  /\ Only(q, set) \in Seq(Y)
         /\ Range(Only(q, set)) = Range(q) \cap set
         /\ IsInjective(q) => IsInjective(Only(q, set))
<1>0. PICK f \in [0 .. Len(q) -> Seq(Y)] :
        /\ FoldSteps(f, <<>>, OnlyStep(Y, q, set), Len(q))
        /\ f[Len(q)] = Only(q, set)
  BY OnlyTrace DEF HasSteps
<1> DEFINE n == Len(q)
<1>1. n \in Nat /\ DOMAIN q = 1 .. n
  OBVIOUS
<1>2. /\ f \in [0 .. n -> Seq(Y)]
      /\ f[0] = <<>>
      /\ \A k \in 1 .. n :
           f[k] = IF q[k] \in set THEN Append(f[k - 1], q[k]) ELSE f[k - 1]
      /\ Only(q, set) = f[n]
  <2>1. ASSUME NEW k \in 1 .. n
        PROVE  f[k] = IF q[k] \in set THEN Append(f[k - 1], q[k]) ELSE f[k - 1]
    <3>1. f[k - 1] \in Seq(Y) /\ <<f[k - 1], k>> \in Seq(Y) \X (1 .. n)
      <4>1. k - 1 \in 0 .. n
        BY <1>1
      <4>2. QED
        BY <1>0, <4>1
    <3>2. f[k] = OnlyStep(Y, q, set)[<<f[k - 1], k>>]
      BY <1>0 DEF FoldSteps
    <3>3. QED
      BY <3>1, <3>2 DEF OnlyStep
  <2>2. QED
    BY <1>0, <2>1 DEF FoldSteps
<1> HIDE DEF n
<1> DEFINE S == {k \in 0 .. n : Picks(f[k], q, k, set)}
<1>3. 0 \in S
  <2>1. Range(f[0]) = {} /\ IsInjective(f[0])
    BY <1>2 DEF Range, IsInjective
  <2>2. FirstOf(q, 0) = {} /\ 0 \in 0 .. n
    BY <1>1 DEF FirstOf
  <2>3. QED
    BY <2>1, <2>2 DEF Picks
<1>4. ASSUME NEW k \in 1 .. n, k - 1 \in S
      PROVE  k \in S
  <2>1. /\ f[k - 1] \in Seq(Y) /\ q[k] \in Y /\ k \in 0 .. n
        /\ Picks(f[k - 1], q, k - 1, set)
    BY <1>1, <1>4
  <2>2. FirstOf(q, k) = FirstOf(q, k - 1) \cup {q[k]}
    <3>1. \A j \in 1 .. k : j \in 1 .. k - 1 \/ j = k
      BY <1>1
    <3>2. k \in 1 .. k /\ \A j \in 1 .. k - 1 : j \in 1 .. k
      BY <1>1
    <3>3. QED
      BY <3>1, <3>2 DEF FirstOf
  <2>3. IsInjective(q) => q[k] \notin FirstOf(q, k - 1)
    <3>1. \A j \in 1 .. k - 1 : j \in 1 .. n /\ j # k
      BY <1>1
    <3>2. QED
      BY <1>1, <3>1 DEF IsInjective, FirstOf
  <2>4. CASE q[k] \in set
    <3>1. f[k] = Append(f[k - 1], q[k])
      BY <1>2, <2>4
    <3>2. /\ Range(f[k]) = Range(f[k - 1]) \cup {q[k]}
          /\ IsInjective(f[k - 1]) /\ q[k] \notin Range(f[k - 1]) => IsInjective(f[k])
      BY <2>1, <3>1, AppendFacts
    <3>3. Picks(f[k], q, k, set)
      BY <2>1, <2>2, <2>3, <2>4, <3>2 DEF Picks
    <3>4. QED
      BY <2>1, <3>3
  <2>5. CASE q[k] \notin set
    <3>1. f[k] = f[k - 1]
      BY <1>2, <2>5
    <3>2. Picks(f[k], q, k, set)
      BY <2>1, <2>2, <2>5, <3>1 DEF Picks
    <3>3. QED
      BY <2>1, <3>2
  <2>6. QED
    BY <2>4, <2>5
<1>5. \A k \in 0 .. n : k \in S
  <2> HIDE DEF S
  <2>1. QED
    BY <1>1, <1>3, <1>4, PrefixInduction
<1>6. Picks(f[n], q, n, set) /\ n \in 0 .. n
  BY <1>1, <1>5
<1>7. FirstOf(q, n) = Range(q)
  BY <1>1 DEF FirstOf, Range
<1>8. QED
  BY <1>2, <1>6, <1>7 DEF Picks

-----------------------------------------------------------------------------
(* Functions that recurse along a rank                                     *)

\* Induction over a rank.
LEMMA RankInduction ==
  ASSUME NEW D, NEW N \in Nat, NEW rank \in [D -> 0 .. N], NEW S,
         \A x \in D : (\A y \in D : rank[y] < rank[x] => y \in S) => x \in S
  PROVE  D \subseteq S
<1> DEFINE T == {n \in Nat : \A x \in D : rank[x] < n => x \in S}
<1>1. 0 \in T
  OBVIOUS
<1>2. ASSUME NEW n \in Nat, n \in T
      PROVE  n + 1 \in T
  <2>1. \A y \in D : rank[y] < n => y \in S
    BY <1>2
  <2>2. ASSUME NEW x \in D, rank[x] < n + 1
        PROVE  x \in S
    <3>1. rank[x] \in Nat /\ rank[x] <= n
      BY <2>2
    <3>2. \A y \in D : rank[y] < rank[x] => rank[y] < n
      BY <3>1
    <3>3. QED
      BY <2>1, <3>2
  <2>3. QED
    BY <2>2
<1>3. Nat \subseteq T
  <2> HIDE DEF T
  <2>1. QED
    BY <1>1, <1>2, SetInduction
<1>4. N + 1 \in T /\ \A x \in D : rank[x] < N + 1
  BY <1>3
<1>5. QED
  BY <1>4

\* What F makes of a function and an argument is a value, and depends on the
\* function only below the rank of the argument.
HasValues(F, D, R) == \A f \in [D -> R] : \A x \in D : F[<<f, x>>] \in R

LooksBelow(F, D, R, rank) ==
  \A f, g \in [D -> R] : \A x \in D :
    (\A y \in D : rank[y] < rank[x] => f[y] = g[y]) => F[<<f, x>>] = F[<<g, x>>]

HasFixedPoint(F, D, R) == \E f \in [D -> R] : \A x \in D : f[x] = F[<<f, x>>]

\* Such a step defines a function by recursion.
LEMMA RecursionExists ==
  ASSUME NEW D, NEW R, NEW r \in R, NEW N \in Nat, NEW rank \in [D -> 0 .. N], NEW F,
         HasValues(F, D, R), LooksBelow(F, D, R, rank)
  PROVE  HasFixedPoint(F, D, R)
<1> USE DEF HasValues, LooksBelow
<1> DEFINE Upto(f, n) == \A x \in D : rank[x] < n => f[x] = F[<<f, x>>]
           T == {n \in Nat : \E f \in [D -> R] : Upto(f, n)}
<1>1. 0 \in T
  <2> DEFINE f == [x \in D |-> r]
  <2>1. f \in [D -> R]
    OBVIOUS
  <2> HIDE DEF f
  <2>2. Upto(f, 0)
    OBVIOUS
  <2> HIDE DEF Upto
  <2>3. QED
    BY <2>1, <2>2
<1>2. ASSUME NEW n \in Nat, n \in T
      PROVE  n + 1 \in T
  <2>1. PICK f \in [D -> R] : Upto(f, n)
    BY <1>2
  <2> DEFINE g == [x \in D |-> F[<<f, x>>]]
  <2>2. g \in [D -> R] /\ \A x \in D : g[x] = F[<<f, x>>]
    OBVIOUS
  <2> HIDE DEF g
  <2>3. Upto(g, n + 1)
    <3>1. ASSUME NEW x \in D, rank[x] < n + 1
          PROVE  g[x] = F[<<g, x>>]
      <4>1. \A y \in D : rank[y] < rank[x] => rank[y] < n
        BY <3>1
      <4>2. \A y \in D : rank[y] < rank[x] => f[y] = g[y]
        BY <2>1, <2>2, <4>1
      <4>3. F[<<f, x>>] = F[<<g, x>>]
        BY <2>2, <4>2
      <4>4. QED
        BY <2>2, <4>3
    <3>2. QED
      BY <3>1
  <2> HIDE DEF Upto
  <2>4. QED
    BY <2>2, <2>3
<1>3. Nat \subseteq T
  <2> HIDE DEF T
  <2>1. QED
    BY <1>1, <1>2, SetInduction
<1>4. PICK f \in [D -> R] : Upto(f, N + 1)
  <2>1. N + 1 \in T
    BY <1>3
  <2> HIDE DEF Upto
  <2>2. QED
    BY <2>1
<1>5. \A x \in D : rank[x] < N + 1
  OBVIOUS
<1>6. QED
  BY <1>4, <1>5 DEF HasFixedPoint

-----------------------------------------------------------------------------
(* The order in a list                                                     *)

Before(s, x, y) == \E i, j \in DOMAIN s : i < j /\ s[i] = x /\ s[j] = y

\* In a list without repetitions the order is transitive.
LEMMA BeforeTransitive ==
  ASSUME NEW Y, NEW s \in Seq(Y), IsInjective(s), NEW x, NEW y, NEW z,
         Before(s, x, y), Before(s, y, z)
  PROVE  Before(s, x, z)
<1>1. PICK i, j \in DOMAIN s : i < j /\ s[i] = x /\ s[j] = y
  BY DEF Before
<1>2. PICK k, l \in DOMAIN s : k < l /\ s[k] = y /\ s[l] = z
  BY DEF Before
<1>3. j = k
  BY <1>1, <1>2 DEF IsInjective
<1>4. i \in Nat /\ j \in Nat /\ l \in Nat
  OBVIOUS
<1>5. i < l
  BY <1>1, <1>2, <1>3, <1>4
<1>6. QED
  BY <1>1, <1>2, <1>5 DEF Before

\* What link_entry_after makes of a list.
LEMMA AfterFacts ==
  ASSUME NEW Y, NEW s \in Seq(Y), NEW t \in Range(s), NEW e \in Y
  PROVE  /\ After(s, t, e) \in Seq(Y)
         /\ Range(After(s, t, e)) = Range(s) \cup {e}
         /\ After(s, t, e)[1] = s[1]
         /\ IsInjective(s) /\ e \notin Range(s) => IsInjective(After(s, t, e))
         /\ \A x, y : Before(s, x, y) => Before(After(s, t, e), x, y)
         /\ Before(After(s, t, e), t, e)
<1> DEFINE i == CHOOSE j \in DOMAIN s : s[j] = t
           n == Len(s)
           a == SubSeq(s, 1, i)
           b == SubSeq(s, i + 1, n)
           r == After(s, t, e)
<1>1. i \in DOMAIN s /\ s[i] = t /\ n \in Nat /\ DOMAIN s = 1 .. n
  <2>1. \E j \in DOMAIN s : s[j] = t
    BY DEF Range
  <2>2. QED
    BY <2>1
<1>2. r = a \o <<e>> \o b
  <2>1. (i + 1) - 1 = i
    BY <1>1
  <2>2. r = InsertAt(s, i + 1, e)
    BY DEF After
  <2>3. r = SubSeq(s, 1, (i + 1) - 1) \o <<e>> \o b
    BY <2>2 DEF InsertAt
  <2> HIDE DEF i, r, b
  <2>4. QED
    BY <2>1, <2>3
<1> HIDE DEF i, r
<1>3. /\ a \in Seq(Y) /\ Len(a) = i /\ \A j \in 1 .. i : a[j] = s[j]
      /\ b \in Seq(Y) /\ Len(b) = n - i /\ \A j \in 1 .. n - i : b[j] = s[i + j]
  <2>0. i \in 1 .. n /\ i \in Int /\ i + 1 \in Int /\ n \in Int
    BY <1>1
  <2>1. /\ \A j \in 1 .. i : s[j] \in Y
        /\ \A j \in i + 1 .. n : s[j] \in Y
    <3>1. \A j \in 1 .. n : s[j] \in Y
      BY <1>1
    <3>2. QED
      BY <2>0, <3>1
  <2>2. /\ SubSeq(s, 1, i) \in Seq(Y)
        /\ Len(SubSeq(s, 1, i)) = IF 1 <= i THEN i - 1 + 1 ELSE 0
        /\ \A j \in 1 .. i - 1 + 1 : SubSeq(s, 1, i)[j] = s[1 + j - 1]
    BY <2>0, <2>1, SubSeqProperties
  <2>3. /\ SubSeq(s, i + 1, n) \in Seq(Y)
        /\ Len(SubSeq(s, i + 1, n)) = IF i + 1 <= n THEN n - (i + 1) + 1 ELSE 0
        /\ \A j \in 1 .. n - (i + 1) + 1 : SubSeq(s, i + 1, n)[j] = s[(i + 1) + j - 1]
    <3> DEFINE p == i + 1
    <3>1. p \in Int /\ \A j \in p .. n : s[j] \in Y
      BY <2>0, <2>1
    <3> HIDE DEF p
    <3>2. /\ SubSeq(s, p, n) \in Seq(Y)
          /\ Len(SubSeq(s, p, n)) = IF p <= n THEN n - p + 1 ELSE 0
          /\ \A j \in 1 .. n - p + 1 : SubSeq(s, p, n)[j] = s[p + j - 1]
      BY <2>0, <3>1, SubSeqProperties
    <3>3. QED
      BY <3>2 DEF p
  <2>4. /\ i - 1 + 1 = i /\ \A j \in 1 .. i : 1 + j - 1 = j
        /\ n - (i + 1) + 1 = n - i /\ \A j \in 1 .. n - i : (i + 1) + j - 1 = i + j
        /\ 1 <= i /\ (~(i + 1 <= n) => n - i = 0)
    BY <2>0
  <2> HIDE DEF n
  <2>5. QED
    BY <2>2, <2>3, <2>4
<1> HIDE DEF a, b, n
<1>4. /\ r \in Seq(Y) /\ Len(r) = n + 1 /\ DOMAIN r = 1 .. n + 1
      /\ \A j \in 1 .. i : r[j] = s[j]
      /\ r[i + 1] = e
      /\ \A j \in i + 2 .. n + 1 : r[j] = s[j - 1]
  <2> DEFINE c == a \o <<e>>
  <2>1. /\ <<e>> \in Seq(Y) /\ Len(<<e>>) = 1 /\ <<e>>[1] = e
    OBVIOUS
  <2>2. /\ c \in Seq(Y) /\ Len(c) = i + 1
        /\ \A j \in 1 .. i : c[j] = a[j]
        /\ c[i + 1] = e
    <3> DEFINE d == <<e>>
    <3>1. d \in Seq(Y) /\ Len(d) = 1 /\ d[1] = e
      BY <2>1
    <3> HIDE DEF d
    <3>2. a \o d \in Seq(Y) /\ Len(a \o d) = Len(a) + Len(d)
      BY <1>3, <3>1, ConcatProperties
    <3>3. \A j \in 1 .. Len(a) + Len(d) : (a \o d)[j] = IF j <= Len(a) THEN a[j]
                                                         ELSE d[j - Len(a)]
      BY <1>3, <3>1, ConcatProperties
    <3>4. i + 1 \in 1 .. i + 1 /\ ~(i + 1 <= i) /\ (i + 1) - i = 1
          /\ \A j \in 1 .. i : j \in 1 .. i + 1 /\ j <= i
      BY <1>1
    <3>5. QED
      BY <1>3, <3>1, <3>2, <3>3, <3>4 DEF d
  <2> HIDE DEF c
  <2>3. r = c \o b
    BY <1>2 DEF c
  <2>4. c \o b \in Seq(Y) /\ Len(c \o b) = Len(c) + Len(b)
    BY <1>3, <2>2, ConcatProperties
  <2>5. \A j \in 1 .. Len(c) + Len(b) : (c \o b)[j] = IF j <= Len(c) THEN c[j]
                                                       ELSE b[j - Len(c)]
    BY <1>3, <2>2, ConcatProperties
  <2>6. Len(c) = i + 1 /\ Len(b) = n - i /\ Len(c) + Len(b) = n + 1
    BY <1>1, <1>3, <2>2
  <2>7. \A j \in 1 .. i : r[j] = s[j]
    <3>1. TAKE j \in 1 .. i
    <3>2. j \in 1 .. n + 1 /\ j <= i + 1
      BY <1>1
    <3>3. r[j] = c[j]
      BY <2>3, <2>5, <2>6, <3>2
    <3>4. QED
      BY <1>3, <2>2, <3>3
  <2>8. r[i + 1] = e
    <3>1. i + 1 \in 1 .. n + 1 /\ i + 1 <= i + 1
      BY <1>1
    <3>2. r[i + 1] = c[i + 1]
      BY <2>3, <2>5, <2>6, <3>1
    <3>3. QED
      BY <2>2, <3>2
  <2>9. \A j \in i + 2 .. n + 1 : r[j] = s[j - 1]
    <3>1. TAKE j \in i + 2 .. n + 1
    <3>2. /\ j \in 1 .. n + 1 /\ ~(j <= i + 1) /\ j - (i + 1) \in 1 .. n - i
          /\ i + (j - (i + 1)) = j - 1
      BY <1>1
    <3>3. r[j] = b[j - (i + 1)]
      BY <2>3, <2>5, <2>6, <3>2
    <3>4. QED
      BY <1>3, <3>2, <3>3
  <2>10. r \in Seq(Y) /\ Len(r) = n + 1
    BY <2>3, <2>4, <2>6
  <2>11. DOMAIN r = 1 .. n + 1
    BY <2>10
  <2>12. QED
    BY <2>7, <2>8, <2>9, <2>10, <2>11
\* Where the members of the old list are in the new one.
<1> DEFINE To(j) == IF j <= i THEN j ELSE j + 1
<1>5. \A j \in 1 .. n : To(j) \in 1 .. n + 1 /\ r[To(j)] = s[j] /\ To(j) # i + 1
  <2>1. TAKE j \in 1 .. n
  <2>2. CASE j <= i
    BY <1>1, <1>4, <2>2
  <2>3. CASE ~(j <= i)
    <3>1. j + 1 \in i + 2 .. n + 1 /\ (j + 1) - 1 = j
      BY <1>1, <2>3
    <3>2. r[j + 1] = s[(j + 1) - 1]
      BY <1>4, <3>1
    <3>3. QED
      BY <1>1, <2>3, <3>1, <3>2
  <2>4. QED
    BY <2>2, <2>3
<1>6. \A j \in 1 .. n + 1 : j = i + 1 \/ \E k \in 1 .. n : j = To(k)
  <2>1. TAKE j \in 1 .. n + 1
  <2>2. CASE j <= i
    <3>1. j \in 1 .. n /\ To(j) = j
      BY <1>1, <2>2
    <3>2. QED
      BY <3>1
  <2>3. CASE j >= i + 2
    <3>1. j - 1 \in 1 .. n /\ To(j - 1) = j
      BY <1>1, <2>3
    <3>2. QED
      BY <3>1
  <2>4. QED
    BY <1>1, <2>2, <2>3
<1>7. \A j, k \in 1 .. n : j < k => To(j) < To(k)
  BY <1>1
<1>8. i \in 1 .. n /\ To(i) = i /\ i + 1 \in 1 .. n + 1
  BY <1>1
<1> HIDE DEF To
<1>9. Range(r) = Range(s) \cup {e}
  <2>1. \A j \in 1 .. n + 1 : r[j] \in Range(s) \cup {e}
    <3>1. \A j \in 1 .. n : s[j] \in Range(s)
      BY <1>1 DEF Range
    <3>2. \A j \in 1 .. n : r[To(j)] \in Range(s)
      BY <1>5, <3>1
    <3>3. r[i + 1] = e
      BY <1>4
    <3>4. QED
      BY <1>6, <3>2, <3>3
  <2>2. \A j \in 1 .. n : s[j] \in Range(r)
    BY <1>4, <1>5 DEF Range
  <2>3. e \in Range(r)
    BY <1>4, <1>8 DEF Range
  <2>4. QED
    BY <1>1, <1>4, <2>1, <2>2, <2>3 DEF Range
<1>10. r[1] = s[1]
  BY <1>1, <1>4
<1>11. ASSUME IsInjective(s), e \notin Range(s)
       PROVE  IsInjective(r)
  <2>1. \A j, k \in 1 .. n : s[j] = s[k] => j = k
    BY <1>1, <1>11 DEF IsInjective
  <2>2. \A j \in 1 .. n : s[j] # e
    BY <1>1, <1>11 DEF Range
  <2>3. \A j, k \in 1 .. n + 1 : r[j] = r[k] => j = k
    BY <1>4, <1>5, <1>6, <2>1, <2>2
  <2>4. QED
    BY <1>4, <2>3 DEF IsInjective
<1>12. ASSUME NEW x, NEW y, Before(s, x, y)
       PROVE  Before(r, x, y)
  <2>1. PICK j, k \in 1 .. n : j < k /\ s[j] = x /\ s[k] = y
    BY <1>1, <1>12 DEF Before
  <2>2. To(j) \in DOMAIN r /\ To(k) \in DOMAIN r /\ To(j) < To(k)
        /\ r[To(j)] = x /\ r[To(k)] = y
    BY <1>4, <1>5, <1>7, <2>1
  <2>3. QED
    BY <2>2 DEF Before
<1>13. Before(r, t, e)
  <2>1. i \in DOMAIN r /\ i + 1 \in DOMAIN r /\ i < i + 1 /\ r[i] = t /\ r[i + 1] = e
    BY <1>1, <1>4, <1>5, <1>8
  <2>2. QED
    BY <2>1 DEF Before
<1>14. QED
  BY <1>4, <1>9, <1>10, <1>11, <1>12, <1>13 DEF r

-----------------------------------------------------------------------------
(* The tree of a database                                                  *)

\* An entry is below one place only, and once.
OneParent(m) ==
  \A p, q \in Places : \A i \in DOMAIN m.kids[p], j \in DOMAIN m.kids[q] :
    m.kids[p][i] = m.kids[q][j] => p = q /\ i = j

\* How deep each place is: an entry is deeper than its parent.
Depths(m, N, depth) ==
  /\ depth \in [Places -> 0 .. N]
  /\ \A p \in Places : \A c \in Range(m.kids[p]) : depth[p] < depth[c]

IsTree(m) ==
  /\ m.kids \in [Places -> Seq(Entries)]
  /\ OneParent(m)
  /\ \E N \in Nat : \E depth \in [Places -> 0 .. N] : Depths(m, N, depth)

\* The children of a place are entries, none twice, and of no other place.
LEMMA KidFacts ==
  ASSUME NEW m, IsTree(m), NEW p \in Places
  PROVE  /\ m.kids[p] \in Seq(Entries) /\ DOMAIN m.kids[p] = 1 .. Len(m.kids[p])
         /\ Len(m.kids[p]) \in Nat
         /\ Range(m.kids[p]) \subseteq Entries /\ Entries \subseteq Places
         /\ Root \in Places /\ Root \notin Entries /\ p \notin Range(m.kids[p])
         /\ IsInjective(m.kids[p])
         /\ \A q \in Places : Range(m.kids[p]) \cap Range(m.kids[q]) # {} => p = q
<1>1. m.kids[p] \in Seq(Entries)
  BY DEF IsTree
<1>2. MaxEntries \in Nat /\ Entries \subseteq Places /\ Root \in Places /\ Root \notin Entries
  BY DataFileAssumption DEF Entries, Places, Root
<1>3. Range(m.kids[p]) \subseteq Entries
  BY <1>1 DEF Range
<1>4. p \notin Range(m.kids[p])
  <2>0. PICK N \in Nat : \E depth \in [Places -> 0 .. N] : Depths(m, N, depth)
    BY DEF IsTree
  <2>1. PICK depth \in [Places -> 0 .. N] : Depths(m, N, depth)
    BY <2>0
  <2>2. \A c \in Range(m.kids[p]) : depth[p] < depth[c]
    BY <2>1 DEF Depths
  <2>3. depth[p] \in Nat
    OBVIOUS
  <2>4. ~(depth[p] < depth[p])
    BY <2>3
  <2>5. QED
    BY <2>2, <2>4
<1>5. IsInjective(m.kids[p])
  BY DEF IsTree, OneParent, IsInjective
<1>6. \A q \in Places : Range(m.kids[p]) \cap Range(m.kids[q]) # {} => p = q
  <2>1. ASSUME NEW q \in Places, NEW c \in Range(m.kids[p]) \cap Range(m.kids[q])
        PROVE  p = q
    <3>1. \E i \in DOMAIN m.kids[p] : m.kids[p][i] = c
      BY DEF Range
    <3>2. \E j \in DOMAIN m.kids[q] : m.kids[q][j] = c
      BY DEF Range
    <3>3. QED
      BY <3>1, <3>2 DEF IsTree, OneParent
  <2>2. QED
    BY <2>1
<1>7. QED
  BY <1>1, <1>2, <1>3, <1>4, <1>5, <1>6

-----------------------------------------------------------------------------
(* The list that save_file makes of the tree                               *)

\* Every entry of a list is below one of the list.
UpClosed(m, s) ==
  \A x \in Range(s) : x = Root \/ \E p \in Range(s) : x \in Range(m.kids[p])

\* What a call gets: of what is below the entry it has linked nothing is linked.
Ready(m, l) ==
  /\ l \in Lists(m) /\ IsInjective(l.list) /\ UpClosed(m, l.list)
  /\ Range(m.kids[l.at]) \cap Range(l.list) = {}

New(s, r) == Range(r) \ Range(s)

\* A list made of another by linking good entries below one of its own, each
\* behind its parent.
Extends(m, at, s, r) ==
  /\ Range(s) \subseteq Range(r) /\ r[1] = s[1] /\ IsInjective(r)
  /\ \A x, y : Before(s, x, y) => Before(r, x, y)
  /\ \A x \in New(s, r) : /\ x \in Entries \ m.bad
                          /\ \E p \in New(s, r) \cup {at} :
                               x \in Range(m.kids[p]) /\ Before(r, p, x)

\* All good entries just below x are linked, in their order.
Complete(m, r, x) ==
  /\ Range(m.kids[x]) \ m.bad \subseteq Range(r)
  /\ \A i, j \in DOMAIN m.kids[x] :
       i < j /\ m.kids[x][i] \notin m.bad /\ m.kids[x][j] \notin m.bad
         => Before(r, m.kids[x][i], m.kids[x][j])

NotAfter(s, x, y) == x = y \/ Before(s, x, y)

\* What LinkAfter makes of a call.
LEMMA LinkAfterFacts ==
  ASSUME NEW m, NEW l \in Lists(m), NEW e \in Places, NEW b,
         b = e \/ (b = l.at /\ m.kids[b] = <<e>>),
         NEW r, r = LinkAfter(l, e, b)
  PROVE  /\ r \in Lists(m) /\ r.at = e /\ r.before = b /\ r.ret = "ok"
         /\ r.list \in Seq(Places) /\ l.list \in Seq(Places)
         /\ l.at \in Range(l.list) /\ l.at \in Places
         /\ Range(r.list) = Range(l.list) \cup {e} /\ r.list[1] = l.list[1]
         /\ IsInjective(l.list) /\ e \notin Range(l.list) => IsInjective(r.list)
         /\ \A x, y : Before(l.list, x, y) => Before(r.list, x, y)
         /\ Before(r.list, l.at, e)
<1> DEFINE s == l.list
           t == After(s, l.at, e)
<1>1. /\ s \in Seq(Places) /\ l.at \in Range(s) /\ l.at \in Places
  BY DEF Lists
<1>2. /\ t \in Seq(Places) /\ Range(t) = Range(s) \cup {e} /\ t[1] = s[1]
      /\ IsInjective(s) /\ e \notin Range(s) => IsInjective(t)
      /\ \A x, y : Before(s, x, y) => Before(t, x, y)
      /\ Before(t, l.at, e)
  <2> DEFINE a == l.at
             u == After(s, a, e)
  <2>1. s \in Seq(Places) /\ a \in Range(s)
    BY <1>1
  <2> HIDE DEF s, a
  <2>2. /\ u \in Seq(Places) /\ Range(u) = Range(s) \cup {e} /\ u[1] = s[1]
        /\ IsInjective(s) /\ e \notin Range(s) => IsInjective(u)
        /\ \A x, y : Before(s, x, y) => Before(u, x, y)
        /\ Before(u, a, e)
    BY <2>1, AfterFacts
  <2>3. QED
    BY <2>2 DEF a
<1>3. r = [list |-> t, at |-> e, before |-> b, ret |-> "ok"]
  BY DEF LinkAfter
<1> HIDE DEF t
<1>4. r.list = t /\ r.at = e /\ r.before = b /\ r.ret = "ok"
  BY <1>3
<1>5. r \in Lists(m)
  <2>1. b \in Places /\ b \in Range(t)
    BY <1>1, <1>2
  <2>2. r \in [list : Seq(Places), at : Places, before : Places, ret : {"ok", "some bad"}]
    BY <1>2, <1>3, <2>1
  <2>3. QED
    BY <1>2, <1>4, <2>1, <2>2 DEF Lists
<1>6. QED
  BY <1>1, <1>2, <1>4, <1>5

\* One step of the loop down a chain, when down is the loop.
DownStep(m, down, l) ==
  IF Len(m.kids[l.at]) # 1 THEN l
  ELSE IF m.kids[l.at][1] \in m.bad THEN [l EXCEPT !.at = l.before, !.ret = "some bad"]
  ELSE down[LinkAfter(l, m.kids[l.at][1], l.at)]

\* The only child of an entry.
LEMMA OnlyChild ==
  ASSUME NEW m, IsTree(m), NEW p \in Places, Len(m.kids[p]) = 1
  PROVE  /\ m.kids[p] = <<m.kids[p][1]>> /\ m.kids[p][1] \in Entries
         /\ Range(m.kids[p]) = {m.kids[p][1]}
<1>1. m.kids[p] \in Seq(Entries)
  BY KidFacts
<1> DEFINE k == m.kids[p]
<1>2. k \in Seq(Entries) /\ Len(k) = 1
  BY <1>1
<1> HIDE DEF k
<1>3. k = <<k[1]>> /\ k[1] \in Entries /\ DOMAIN k = {1}
  BY <1>2
<1>4. Range(k) = {k[1]}
  BY <1>3 DEF Range
<1>5. QED
  BY <1>3, <1>4 DEF k

\* When a chain goes back it goes back to an entry of the list.
LEMMA BackFacts ==
  ASSUME NEW m, NEW l \in Lists(m)
  PROVE  LET r == [l EXCEPT !.at = l.before, !.ret = "some bad"] IN
         /\ r \in Lists(m) /\ r.list = l.list /\ r.at = l.before
         /\ r.at = l.at \/ m.kids[r.at] = <<l.at>>
<1> DEFINE r == [l EXCEPT !.at = l.before, !.ret = "some bad"]
<1>1. /\ l \in [list : Seq(Places), at : Places, before : Places, ret : {"ok", "some bad"}]
      /\ {l.at, l.before} \subseteq Range(l.list)
      /\ l.before = l.at \/ m.kids[l.before] = <<l.at>>
  BY DEF Lists
<1>2. /\ r \in [list : Seq(Places), at : Places, before : Places, ret : {"ok", "some bad"}]
      /\ r.list = l.list /\ r.at = l.before /\ r.before = l.before
  BY <1>1
<1> HIDE DEF r
<1>3. r \in Lists(m)
  BY <1>1, <1>2 DEF Lists
<1>4. QED
  BY <1>1, <1>2, <1>3 DEF r

\* The loop down a chain ends, and is what its step says.
LEMMA ChainRecursion ==
  ASSUME NEW m, IsTree(m)
  PROVE  \A l \in Lists(m) :
           /\ LinkChain(m, l) \in Lists(m)
           /\ LinkChain(m, l) = DownStep(m, [k \in Lists(m) |-> LinkChain(m, k)], l)
<1> DEFINE D == Lists(m)
           Solves(f) == f = [l \in D |-> DownStep(m, f, l)]
           down == CHOOSE f : Solves(f)
<1>1. \A l \in D : LinkChain(m, l) = down[l]
  BY DEF LinkChain, DownStep
<1>0. PICK N \in Nat : \E depth \in [Places -> 0 .. N] : Depths(m, N, depth)
  BY DEF IsTree
<1>2. PICK depth \in [Places -> 0 .. N] : Depths(m, N, depth)
  BY <1>0
<1> DEFINE rank == [l \in D |-> N - depth[l.at]]
<1>3. rank \in [D -> 0 .. N] /\ \A l \in D : l.at \in Places /\ rank[l] = N - depth[l.at]
  <2>1. \A l \in D : l.at \in Places /\ depth[l.at] \in 0 .. N
    BY <1>2 DEF Lists
  <2>2. QED
    BY <2>1
<1> HIDE DEF rank
<1>4. ASSUME NEW l \in D, Len(m.kids[l.at]) = 1
      PROVE  LET c == m.kids[l.at][1] IN
             /\ LinkAfter(l, c, l.at) \in D
             /\ rank[LinkAfter(l, c, l.at)] < rank[l]
  <2> DEFINE c == m.kids[l.at][1]
  <2>1. l.at \in Places
    BY <1>3
  <2>2. m.kids[l.at] = <<c>> /\ c \in Entries /\ c \in Range(m.kids[l.at]) /\ c \in Places
    <3>1. m.kids[l.at] = <<c>> /\ c \in Entries /\ Range(m.kids[l.at]) = {c}
      BY <1>4, <2>1, OnlyChild
    <3>2. Entries \subseteq Places
      BY <2>1, KidFacts
    <3> HIDE DEF c
    <3>3. QED
      BY <3>1, <3>2
  <2> HIDE DEF c
  <2>3. LinkAfter(l, c, l.at) \in D /\ LinkAfter(l, c, l.at).at = c
    BY <2>2, LinkAfterFacts
  <2>4. depth[l.at] < depth[c] /\ depth[l.at] \in Nat /\ depth[c] \in Nat
    BY <1>2, <2>1, <2>2 DEF Depths
  <2>5. N - depth[c] < N - depth[l.at]
    BY <2>4
  <2>6. rank[LinkAfter(l, c, l.at)] = N - depth[c]
    BY <1>3, <2>3
  <2>7. QED
    BY <1>3, <2>3, <2>5, <2>6 DEF c
<1>5. ASSUME NEW f, NEW l \in D,
             \A y \in D : rank[y] < rank[l] => f[y] \in D
      PROVE  DownStep(m, f, l) \in D
  <2>1. CASE Len(m.kids[l.at]) # 1
    BY <2>1 DEF DownStep
  <2>2. CASE Len(m.kids[l.at]) = 1 /\ m.kids[l.at][1] \in m.bad
    BY <2>2, BackFacts DEF DownStep
  <2>3. CASE Len(m.kids[l.at]) = 1 /\ m.kids[l.at][1] \notin m.bad
    <3>1. DownStep(m, f, l) = f[LinkAfter(l, m.kids[l.at][1], l.at)]
      BY <2>3 DEF DownStep
    <3>2. QED
      BY <1>4, <1>5, <2>3, <3>1
  <2>4. QED
    BY <2>1, <2>2, <2>3
<1>6. ASSUME NEW f, NEW g, NEW l \in D,
             \A y \in D : rank[y] < rank[l] => f[y] = g[y]
      PROVE  DownStep(m, f, l) = DownStep(m, g, l)
  BY <1>4, <1>6 DEF DownStep
<1> HIDE DEF D
<1>7. \E f : Solves(f)
  <2>1. CASE D = {}
    <3> DEFINE f == [l \in D |-> 0]
    <3>1. f = [l \in D |-> DownStep(m, f, l)]
      BY <2>1
    <3>2. QED
      BY <3>1
  <2>2. CASE D # {}
    <3> DEFINE F == [x \in [D -> D] \X D |-> DownStep(m, x[1], x[2])]
    <3>1. \A f \in [D -> D] : \A l \in D : F[<<f, l>>] = DownStep(m, f, l)
      OBVIOUS
    <3> HIDE DEF F
    <3>2. HasValues(F, D, D)
      BY <1>5, <3>1 DEF HasValues
    <3>3. LooksBelow(F, D, D, rank)
      BY <1>6, <3>1 DEF LooksBelow
    <3>4. PICK r \in D : TRUE
      BY <2>2
    <3>5. HasFixedPoint(F, D, D)
      <4>1. N \in Nat /\ rank \in [D -> 0 .. N]
        BY <1>3
      <4>2. QED
        BY <3>2, <3>3, <3>4, <4>1, RecursionExists
    <3>6. PICK f \in [D -> D] : \A l \in D : f[l] = F[<<f, l>>]
      BY <3>5 DEF HasFixedPoint
    <3>7. \A l \in D : f[l] = DownStep(m, f, l)
      BY <3>1, <3>6
    <3>8. Solves(f)
      BY <3>7
    <3> HIDE DEF Solves
    <3>9. QED
      BY <3>8
  <2>3. QED
    BY <2>1, <2>2
<1>8. Solves(down)
  <2> HIDE DEF Solves
  <2>1. QED
    BY <1>7
<1> HIDE DEF down
<1>9. \A l \in D : down[l] = DownStep(m, down, l)
  BY <1>8
<1> DEFINE S == {l \in D : down[l] \in D}
<1>10. \A l \in D : (\A y \in D : rank[y] < rank[l] => y \in S) => l \in S
  BY <1>5, <1>9
<1>11. D \subseteq S
  <2> HIDE DEF S
  <2>1. QED
    BY <1>3, <1>10, RankInduction
<1>12. ASSUME NEW l \in D
       PROVE  DownStep(m, down, l) = DownStep(m, [k \in D |-> LinkChain(m, k)], l)
  <2> DEFINE g == [k \in D |-> LinkChain(m, k)]
  <2>1. \A y \in D : down[y] = g[y]
    BY <1>1 DEF D
  <2> HIDE DEF g
  <2>2. DownStep(m, down, l) = DownStep(m, g, l)
    BY <1>6, <2>1
  <2>3. QED
    BY <2>2 DEF g
<1>13. QED
  BY <1>1, <1>9, <1>11, <1>12 DEF D

\* The entries of the list then.
LEMMA LinkAfterRange ==
  ASSUME NEW m, NEW l \in Lists(m), NEW e \in Places, NEW b,
         b = e \/ (b = l.at /\ m.kids[b] = <<e>>),
         NEW r, r = LinkAfter(l, e, b), NEW u, u = Range(l.list) \cup {e}
  PROVE  Range(r.list) = u
BY LinkAfterFacts

\* The list of a call is what it says, and the two entries are in it.
LEMMA ListFacts ==
  ASSUME NEW m, NEW l \in Lists(m)
  PROVE  /\ l.list \in Seq(Places) /\ Range(l.list) \subseteq Places
         /\ l.at \in Range(l.list) /\ l.at \in Places /\ l.before \in Places
         /\ l.before \in Range(l.list)
         /\ l.before = l.at \/ m.kids[l.before] = <<l.at>>
<1>1. l.list \in Seq(Places) /\ l.at \in Places /\ l.before \in Places
  BY DEF Lists
<1>2. Range(l.list) \subseteq Places
  <2> DEFINE s == l.list
  <2>1. s \in Seq(Places)
    BY <1>1
  <2> HIDE DEF s
  <2>2. Range(s) \subseteq Places
    BY <2>1 DEF Range
  <2>3. QED
    BY <2>2 DEF s
<1>3. QED
  BY <1>1, <1>2 DEF Lists

\* A list extends itself.
LEMMA ExtendsItself ==
  ASSUME NEW m, NEW a, NEW s, IsInjective(s)
  PROVE  Extends(m, a, s, s)
BY DEF Extends, New

\* What two calls after each other add, they add together.
LEMMA ExtendsTransitive ==
  ASSUME NEW m, NEW a, NEW b, NEW s, NEW t, NEW r,
         Extends(m, a, s, t), Extends(m, b, t, r), b \in New(s, t) \cup {a}
  PROVE  Extends(m, a, s, r)
<1>1. /\ Range(s) \subseteq Range(t) /\ Range(t) \subseteq Range(r)
      /\ t[1] = s[1] /\ r[1] = t[1] /\ IsInjective(r)
      /\ \A x, y : Before(s, x, y) => Before(t, x, y)
      /\ \A x, y : Before(t, x, y) => Before(r, x, y)
  BY DEF Extends
<1>2. ASSUME NEW x \in New(s, r)
      PROVE  /\ x \in Entries \ m.bad
             /\ \E p \in New(s, r) \cup {a} : x \in Range(m.kids[p]) /\ Before(r, p, x)
  <2>1. CASE x \in New(s, t)
    <3>1. /\ x \in Entries \ m.bad
          /\ \E p \in New(s, t) \cup {a} : x \in Range(m.kids[p]) /\ Before(t, p, x)
      BY <2>1 DEF Extends
    <3>2. New(s, t) \subseteq New(s, r)
      BY <1>1 DEF New
    <3>3. QED
      BY <1>1, <3>1, <3>2
  <2>2. CASE x \in New(t, r)
    <3>1. /\ x \in Entries \ m.bad
          /\ \E p \in New(t, r) \cup {b} : x \in Range(m.kids[p]) /\ Before(r, p, x)
      BY <2>2 DEF Extends
    <3>2. New(t, r) \cup {b} \subseteq New(s, r) \cup {a}
      BY <1>1 DEF New
    <3>3. QED
      BY <3>1, <3>2
  <2>3. QED
    BY <1>2, <2>1, <2>2 DEF New
<1>3. QED
  BY <1>1, <1>2 DEF Extends

\* What is complete stays so, and what is closed, and the order.
LEMMA ExtendsKeeps ==
  ASSUME NEW m, NEW a, NEW s, NEW r, Extends(m, a, s, r)
  PROVE  /\ \A x : Complete(m, s, x) => Complete(m, r, x)
         /\ a \in Range(s) /\ UpClosed(m, s) => UpClosed(m, r)
         /\ \A x, y : NotAfter(s, x, y) => NotAfter(r, x, y)
<1>1. \A x : Complete(m, s, x) => Complete(m, r, x)
  BY DEF Extends, Complete
<1>2. ASSUME a \in Range(s), UpClosed(m, s)
      PROVE  UpClosed(m, r)
  <2>1. ASSUME NEW x \in Range(r), x # Root
        PROVE  \E p \in Range(r) : x \in Range(m.kids[p])
    <3>1. CASE x \in Range(s)
      <4>1. PICK p \in Range(s) : x \in Range(m.kids[p])
        BY <1>2, <2>1, <3>1 DEF UpClosed
      <4>2. p \in Range(r)
        BY <4>1 DEF Extends
      <4>3. QED
        BY <4>1, <4>2
    <3>2. CASE x \notin Range(s)
      <4>1. x \in New(s, r)
        BY <2>1, <3>2 DEF New
      <4>2. PICK p \in New(s, r) \cup {a} : x \in Range(m.kids[p])
        BY <4>1 DEF Extends
      <4>3. p \in Range(r)
        BY <1>2, <4>2 DEF Extends, New
      <4>4. QED
        BY <4>2, <4>3
    <3>3. QED
      BY <3>1, <3>2
  <2>2. QED
    BY <2>1 DEF UpClosed
<1>3. \A x, y : NotAfter(s, x, y) => NotAfter(r, x, y)
  BY DEF Extends, NotAfter
<1>4. QED
  BY <1>1, <1>2, <1>3

\* A good child of an entry of the list, linked behind it, is ready.
LEMMA ChildReady ==
  ASSUME NEW m, IsTree(m), NEW l \in Lists(m), IsInjective(l.list), UpClosed(m, l.list),
         NEW p \in Range(l.list), NotAfter(l.list, p, l.at),
         NEW e \in Range(m.kids[p]), e \notin Range(l.list), e \notin m.bad,
         NEW b, b = e \/ (b = l.at /\ m.kids[b] = <<e>>),
         NEW r, r = LinkAfter(l, e, b)
  PROVE  /\ Ready(m, r) /\ r.at = e /\ r.before = b
         /\ Extends(m, p, l.list, r.list) /\ \A x : x \in New(l.list, r.list) <=> x = e
         /\ Before(r.list, l.at, e) /\ Before(r.list, p, e)
<1> DEFINE s == l.list
           t == r.list
<1>1. /\ s \in Seq(Places) /\ Range(s) \subseteq Places /\ l.at \in Range(s) /\ p \in Places
  BY ListFacts
<1>2. e \in Entries /\ e \in Places /\ Root \notin Entries
  BY <1>1, KidFacts
<1>3. /\ r \in Lists(m) /\ r.at = e /\ r.before = b
      /\ t \in Seq(Places)
      /\ Range(t) = Range(s) \cup {e} /\ t[1] = s[1]
      /\ IsInjective(t)
      /\ \A x, y : Before(s, x, y) => Before(t, x, y)
      /\ Before(t, l.at, e)
  <2>1. /\ r \in Lists(m) /\ r.at = e /\ r.before = b
        /\ r.list \in Seq(Places)
        /\ Range(r.list) = Range(l.list) \cup {e} /\ r.list[1] = l.list[1]
        /\ IsInjective(l.list) /\ e \notin Range(l.list) => IsInjective(r.list)
        /\ \A x, y : Before(l.list, x, y) => Before(r.list, x, y)
        /\ Before(r.list, l.at, e)
    <3>1. r = LinkAfter(l, e, b)
      OBVIOUS
    <3>2. e \in Places /\ l \in Lists(m) /\ (b = e \/ (b = l.at /\ m.kids[b] = <<e>>))
      BY <1>2
    <3> DEFINE u == Range(l.list) \cup {e}
    <3>3. u = Range(l.list) \cup {e}
      OBVIOUS
    <3> HIDE DEF u
    <3>4. Range(r.list) = u
      BY ONLY <3>1, <3>2, <3>3, LinkAfterRange
    <3>5. /\ r \in Lists(m) /\ r.at = e /\ r.before = b
          /\ r.list \in Seq(Places) /\ r.list[1] = l.list[1]
          /\ Before(r.list, l.at, e)
      BY <3>1, <3>2, LinkAfterFacts
    <3>6. /\ IsInjective(l.list) /\ e \notin Range(l.list) => IsInjective(r.list)
          /\ \A x, y : Before(l.list, x, y) => Before(r.list, x, y)
      BY ONLY <3>1, <3>2, LinkAfterFacts
    <3>7. QED
      BY <3>4, <3>5, <3>6 DEF u
  <2>2. QED
    BY <2>1
<1> HIDE DEF s, t
<1>4. Before(t, p, e)
  <2>1. CASE p = l.at
    BY <1>3, <2>1
  <2>2. CASE Before(s, p, l.at)
    BY <1>3, <2>2, BeforeTransitive
  <2>3. QED
    BY <2>1, <2>2 DEF NotAfter, s
<1>5. New(s, t) = {e}
  BY <1>3 DEF New, s
<1>6. Extends(m, p, s, t)
  BY <1>2, <1>3, <1>4, <1>5 DEF Extends
<1>7. UpClosed(m, t)
  BY <1>6, ExtendsKeeps DEF s
<1>8. Range(m.kids[e]) \cap Range(t) = {}
  <2>1. SUFFICES ASSUME NEW y \in Range(m.kids[e]), y \in Range(t)
                 PROVE  FALSE
    OBVIOUS
  <2>2. y # e /\ y \in Entries
    BY <1>2, KidFacts
  <2>3. y \in Range(s) /\ y # Root
    BY <1>2, <1>3, <2>1, <2>2
  <2>4. PICK q \in Range(s) : y \in Range(m.kids[q])
    BY <2>3 DEF UpClosed, s
  <2>5. Range(m.kids[e]) \cap Range(m.kids[q]) # {} /\ q \in Places
    BY <1>1, <2>1, <2>4
  <2>6. e = q
    BY <1>2, <2>5, KidFacts
  <2>7. QED
    BY <2>4, <2>6 DEF s
<1>9. Ready(m, r)
  BY <1>3, <1>7, <1>8 DEF Ready, t
<1>10. QED
  BY <1>3, <1>4, <1>5, <1>6, <1>9 DEF s, t

\* Where a chain ends: all it has linked is complete, but for the children of the
\* last entry if there are several.
ChainEnd(m, depth, l, r) ==
  /\ r \in Lists(m) /\ Extends(m, l.at, l.list, r.list)
  /\ r.at = l.before \/ NotAfter(r.list, l.at, r.at)
  /\ \A x \in New(l.list, r.list) \cup {l.at} :
       (x = r.at /\ Len(m.kids[r.at]) >= 2) \/ Complete(m, r.list, x)
  /\ Len(m.kids[r.at]) >= 2 =>
       /\ r.at \in New(l.list, r.list) \cup {l.at} /\ depth[l.at] <= depth[r.at]
       /\ Range(m.kids[r.at]) \cap Range(r.list) = {}

\* An entry with no children but bad ones, or one child that is linked, is
\* complete.
LEMMA FewComplete ==
  ASSUME NEW m, IsTree(m), NEW x \in Places, NEW r,
         \/ Len(m.kids[x]) = 0
         \/ Len(m.kids[x]) = 1 /\ (m.kids[x][1] \in m.bad \/ m.kids[x][1] \in Range(r))
  PROVE  Complete(m, r, x)
<1> DEFINE k == m.kids[x]
<1>1. k \in Seq(Entries) /\ Len(k) \in Nat /\ DOMAIN k = 1 .. Len(k)
  BY KidFacts
<1>2. Len(k) = 0 \/ (Len(k) = 1 /\ (k[1] \in m.bad \/ k[1] \in Range(r)))
  OBVIOUS
<1> HIDE DEF k
<1>3. \A i, j \in DOMAIN k : ~(i < j)
  BY <1>1, <1>2
<1>4. Range(k) \subseteq IF Len(k) = 0 THEN {} ELSE {k[1]}
  BY <1>1, <1>2 DEF Range
<1>5. Range(k) \ m.bad \subseteq Range(r)
  BY <1>2, <1>4
<1>6. QED
  BY <1>3, <1>5 DEF Complete, k

\* The loop down a chain from an entry that is ready.
LEMMA ChainEnds ==
  ASSUME NEW m, IsTree(m), NEW N \in Nat, NEW depth \in [Places -> 0 .. N],
         Depths(m, N, depth), NEW start \in Lists(m), Ready(m, start)
  PROVE  ChainEnd(m, depth, start, LinkChain(m, start))
<1> DEFINE D == Lists(m)
           rank == [l \in D |-> N - depth[l.at]]
           S == {l \in D : Ready(m, l) => ChainEnd(m, depth, l, LinkChain(m, l))}
<1>1. rank \in [D -> 0 .. N] /\ \A l \in D : rank[l] = N - depth[l.at]
  <2>1. \A l \in D : l.at \in Places /\ depth[l.at] \in 0 .. N
    BY ListFacts
  <2>2. QED
    BY <2>1
<1> HIDE DEF rank
<1>2. ASSUME NEW l \in D, \A y \in D : rank[y] < rank[l] => y \in S, Ready(m, l)
      PROVE  ChainEnd(m, depth, l, LinkChain(m, l))
  <2> DEFINE r == LinkChain(m, l)
             c == m.kids[l.at][1]
             n == Len(m.kids[l.at])
  <2>1. /\ l.at \in Places /\ l.at \in Range(l.list) /\ IsInjective(l.list)
        /\ UpClosed(m, l.list) /\ Range(m.kids[l.at]) \cap Range(l.list) = {}
        /\ n \in Nat
    BY <1>2, ListFacts, KidFacts DEF Ready
  <2>2. r = DownStep(m, [k \in D |-> LinkChain(m, k)], l)
    BY ChainRecursion
  <2>3. Extends(m, l.at, l.list, l.list) /\ New(l.list, l.list) = {}
    BY <2>1, ExtendsItself DEF New
  <2>4. CASE n # 1
    <3>1. r = l
      BY <2>2, <2>4 DEF DownStep
    <3>2. n = 0 => Complete(m, l.list, l.at)
      BY <2>1, FewComplete
    <3>3. depth[l.at] <= depth[l.at]
      BY <2>1
    <3>4. n = 0 \/ n >= 2
      <4> HIDE DEF n
      <4>1. QED
        BY <2>1, <2>4
    <3> HIDE DEF r
    <3>5. ChainEnd(m, depth, l, l)
      BY <2>1, <2>3, <3>2, <3>3, <3>4 DEF ChainEnd, NotAfter
    <3>6. QED
      BY <3>1, <3>5 DEF r
  <2>5. CASE n = 1 /\ c \in m.bad
    <3>1. r = [l EXCEPT !.at = l.before, !.ret = "some bad"]
      BY <2>2, <2>5 DEF DownStep
    <3>2. r \in D /\ r.list = l.list /\ r.at = l.before
          /\ (r.at = l.at \/ m.kids[r.at] = <<l.at>>)
      <4> DEFINE b == [l EXCEPT !.at = l.before, !.ret = "some bad"]
      <4>1. b \in D /\ b.list = l.list /\ b.at = l.before
            /\ (b.at = l.at \/ m.kids[b.at] = <<l.at>>)
        <5> HIDE DEF b
        <5>1. QED
          BY BackFacts DEF b
      <4>2. r = b
        BY <3>1
      <4> HIDE DEF b, r
      <4>3. QED
        BY <4>1, <4>2
    <3>3. Complete(m, l.list, l.at)
      BY <2>1, <2>5, FewComplete
    <3>4. ~(Len(m.kids[r.at]) >= 2)
      <4> HIDE DEF r
      <4>1. CASE r.at = l.at
        <5>1. Len(m.kids[r.at]) = 1
          BY <2>5, <4>1
        <5>2. QED
          BY <5>1
      <4>2. CASE m.kids[r.at] = <<l.at>>
        <5>1. Len(<<l.at>>) = 1
          OBVIOUS
        <5>2. QED
          BY <4>2, <5>1
      <4>3. r.at = l.at \/ m.kids[r.at] = <<l.at>>
        BY <3>2
      <4>4. QED
        BY ONLY <4>1, <4>2, <4>3
    <3> HIDE DEF r
    <3>5. QED
      BY <2>3, <3>2, <3>3, <3>4 DEF ChainEnd, r
  <2>6. CASE n = 1 /\ c \notin m.bad
    <3> DEFINE k == LinkAfter(l, c, l.at)
    <3>1. m.kids[l.at] = <<c>> /\ c \in Entries /\ Range(m.kids[l.at]) = {c}
      BY <2>1, <2>6, OnlyChild
    <3>2. c \notin Range(l.list) /\ NotAfter(l.list, l.at, l.at)
      BY <2>1, <3>1 DEF NotAfter
    <3> HIDE DEF c
    <3>3. /\ Ready(m, k) /\ k.at = c /\ k.before = l.at
          /\ Extends(m, l.at, l.list, k.list) /\ New(l.list, k.list) = {c}
          /\ Before(k.list, l.at, c)
      <4>1. k = LinkAfter(l, c, l.at) /\ c \in Range(m.kids[l.at]) /\ c \notin m.bad
        BY <2>6, <3>1 DEF c
      <4> HIDE DEF k
      <4>2. /\ IsTree(m) /\ l \in Lists(m) /\ IsInjective(l.list) /\ UpClosed(m, l.list)
            /\ l.at \in Range(l.list) /\ m.kids[l.at] = <<c>>
        BY <2>1, <3>1
      <4>3. \A x : x \in New(l.list, k.list) <=> x = c
        BY ONLY <3>2, <4>1, <4>2, ChildReady
      <4>4. /\ Ready(m, k) /\ k.at = c /\ k.before = l.at
            /\ Extends(m, l.at, l.list, k.list) /\ Before(k.list, l.at, c)
        BY ONLY <3>2, <4>1, <4>2, ChildReady
      <4>5. QED
        BY <4>3, <4>4
    <3>4. r = LinkChain(m, k)
      <4>1. k \in D
        BY <3>3 DEF Ready
      <4>2. r = [j \in D |-> LinkChain(m, j)][k]
        BY <2>2, <2>6 DEF DownStep, c
      <4>3. QED
        BY <4>1, <4>2
    <3>5. depth[l.at] < depth[c] /\ depth[l.at] \in Nat /\ depth[c] \in Nat
      <4>1. c \in Range(m.kids[l.at]) /\ c \in Places
        BY <2>1, <3>1, KidFacts
      <4>2. QED
        BY <2>1, <4>1 DEF Depths
    <3> HIDE DEF k, r
    <3>6. ChainEnd(m, depth, k, r)
      <4>1. k \in D
        BY <3>3 DEF Ready
      <4>2. rank[k] < rank[l]
        BY <1>1, <3>3, <3>5, <4>1
      <4>3. k \in S
        BY <1>2, <4>1, <4>2
      <4>4. QED
        BY <3>3, <3>4, <4>3
    <3>7. /\ r \in D /\ Extends(m, c, k.list, r.list)
          /\ r.at = l.at \/ NotAfter(r.list, c, r.at)
          /\ \A x \in New(k.list, r.list) \cup {c} :
               (x = r.at /\ Len(m.kids[r.at]) >= 2) \/ Complete(m, r.list, x)
          /\ Len(m.kids[r.at]) >= 2 =>
               /\ r.at \in New(k.list, r.list) \cup {c} /\ depth[c] <= depth[r.at]
               /\ Range(m.kids[r.at]) \cap Range(r.list) = {}
      BY <3>3, <3>6 DEF ChainEnd
    <3>8. Extends(m, l.at, l.list, r.list)
      BY <3>3, <3>7, ExtendsTransitive
    <3>9. NotAfter(r.list, l.at, r.at)
      <4>1. CASE r.at = l.at
        BY <4>1 DEF NotAfter
      <4>2. CASE NotAfter(r.list, c, r.at)
        <5>1. Before(r.list, l.at, c) /\ IsInjective(r.list)
          BY <3>3, <3>7 DEF Extends
        <5>2. r.list \in Seq(Places)
          BY <3>7, ListFacts
        <5>3. QED
          BY <4>2, <5>1, <5>2, BeforeTransitive DEF NotAfter
      <4>3. QED
        BY <3>7, <4>1, <4>2
    <3>10. New(l.list, r.list) = New(k.list, r.list) \cup {c}
      <4>1. Range(l.list) \subseteq Range(k.list) /\ Range(k.list) \subseteq Range(r.list)
        BY <3>3, <3>7 DEF Extends
      <4>2. QED
        BY <3>3, <4>1 DEF New
    <3>11. Complete(m, r.list, l.at)
      <4>1. c \in Range(r.list)
        BY <3>10 DEF New
      <4>2. QED
        BY <2>1, <2>6, <4>1, FewComplete DEF c
    <3>12. Len(m.kids[r.at]) >= 2 => depth[l.at] <= depth[r.at]
      <4>1. r.at \in Places
        BY <3>7, ListFacts
      <4>2. depth[r.at] \in Nat
        BY <4>1
      <4>3. QED
        BY <3>5, <3>7, <4>2
    <3>13. ChainEnd(m, depth, l, r)
      BY <3>7, <3>8, <3>9, <3>10, <3>11, <3>12 DEF ChainEnd
    <3>14. QED
      BY <3>13 DEF r
  <2>7. QED
    BY <2>1, <2>4, <2>5, <2>6
<1>3. \A l \in D : (\A y \in D : rank[y] < rank[l] => y \in S) => l \in S
  BY <1>2
<1>4. D \subseteq S
  <2> HIDE DEF S, D
  <2>1. QED
    BY <1>1, <1>3, RankInduction
<1>5. QED
  BY <1>4

-----------------------------------------------------------------------------
(* The recursion of link_entry_for_save_file                               *)

\* A fold has computed only one value.
LEMMA StepsUnique ==
  ASSUME NEW X, NEW base, NEW F, NEW n \in Nat, NEW v, NEW w,
         HasSteps(X, base, F, n, v), HasSteps(X, base, F, n, w)
  PROVE  v = w
<1>1. PICK f \in [0 .. n -> X] : FoldSteps(f, base, F, n) /\ f[n] = v
  BY DEF HasSteps
<1>2. PICK g \in [0 .. n -> X] : FoldSteps(g, base, F, n) /\ g[n] = w
  BY DEF HasSteps
<1> DEFINE S == {k \in 0 .. n : f[k] = g[k]}
<1>3. 0 \in S
  BY <1>1, <1>2 DEF FoldSteps
<1>4. ASSUME NEW k \in 1 .. n, k - 1 \in S
      PROVE  k \in S
  <2>1. f[k - 1] = g[k - 1] /\ k \in 0 .. n
    BY <1>4
  <2>2. f[k] = F[<<f[k - 1], k>>] /\ g[k] = F[<<g[k - 1], k>>]
    BY <1>1, <1>2 DEF FoldSteps
  <2>3. QED
    BY <2>1, <2>2
<1>5. \A k \in 0 .. n : k \in S
  <2> HIDE DEF S
  <2>1. QED
    BY <1>3, <1>4, PrefixInduction
<1>6. QED
  BY <1>1, <1>2, <1>5

\* What is linked of the children of p, and one step of that.
LinkKids(m, f, base, p) ==
  FoldLeft(LAMBDA acc, c : LinkChild(m, f, acc, c), base, m.kids[p])

KidStep(m, f, p) ==
  [x \in Lists(m) \X (1 .. Len(m.kids[p])) |-> LinkChild(m, f, x[1], m.kids[p][x[2]])]

\* What a bad child makes of a call.
LEMMA BadFacts ==
  ASSUME NEW m, NEW l \in Lists(m), NEW r, r = [l EXCEPT !.ret = "some bad"]
  PROVE  r \in Lists(m) /\ r.list = l.list /\ r.at = l.at /\ r.before = l.before
<1>1. /\ l \in [list : Seq(Places), at : Places, before : Places, ret : {"ok", "some bad"}]
      /\ {l.at, l.before} \subseteq Range(l.list)
      /\ l.before = l.at \/ m.kids[l.before] = <<l.at>>
  BY DEF Lists
<1>2. /\ r \in [list : Seq(Places), at : Places, before : Places, ret : {"ok", "some bad"}]
      /\ r.list = l.list /\ r.at = l.at /\ r.before = l.before
  BY <1>1
<1>3. QED
  BY <1>1, <1>2 DEF Lists

\* A good child is linked behind the last entry.
LEMMA LinkChildGets ==
  ASSUME NEW m, NEW l \in Lists(m), NEW c \in Places, NEW r, r = LinkAfter(l, c, c)
  PROVE  r \in Lists(m) /\ r.at = c
BY LinkAfterFacts

\* A step has a value if the calls it makes have, and depends only on them.
LEMMA KidStepFacts ==
  ASSUME NEW m, IsTree(m), NEW p \in Places, NEW f,
         \A y \in Lists(m) : y.at \in Range(m.kids[p]) => f[y] \in Lists(m)
  PROVE  /\ KidStep(m, f, p) \in [Lists(m) \X (1 .. Len(m.kids[p])) -> Lists(m)]
         /\ \A x \in Lists(m), i \in 1 .. Len(m.kids[p]) :
              KidStep(m, f, p)[<<x, i>>] = LinkChild(m, f, x, m.kids[p][i])
<1> DEFINE D == Lists(m)
           n == Len(m.kids[p])
<1>1. ASSUME NEW l \in D, NEW i \in 1 .. n
      PROVE  LinkChild(m, f, l, m.kids[p][i]) \in D
  <2> DEFINE c == m.kids[p][i]
  <2>1. c \in Range(m.kids[p]) /\ c \in Places
    BY KidFacts DEF Range
  <2>2. CASE c \in m.bad
    <3> DEFINE r == [l EXCEPT !.ret = "some bad"]
    <3>1. r \in D
      BY BadFacts
    <3>2. LinkChild(m, f, l, c) = r
      BY <2>2 DEF LinkChild
    <3>3. QED
      BY <3>1, <3>2
  <2>3. CASE c \notin m.bad
    <3> DEFINE r == LinkAfter(l, c, c)
    <3>1. LinkChild(m, f, l, c) = f[r]
      BY <2>3 DEF LinkChild
    <3>2. r \in D /\ r.at = c
      <4> HIDE DEF c
      <4>1. QED
        BY <2>1, LinkChildGets
    <3> HIDE DEF r
    <3>3. QED
      BY <2>1, <3>1, <3>2
  <2>4. QED
    BY <2>2, <2>3
<1>2. \A x \in D \X (1 .. n) : LinkChild(m, f, x[1], m.kids[p][x[2]]) \in D
  BY <1>1
<1>3. QED
  BY <1>2 DEF KidStep

\* The children of p are linked one by one.
LEMMA LinkTrace ==
  ASSUME NEW m, IsTree(m), NEW p \in Places, NEW base \in Lists(m), NEW f,
         \A y \in Lists(m) : y.at \in Range(m.kids[p]) => f[y] \in Lists(m)
  PROVE  HasSteps(Lists(m), base, KidStep(m, f, p), Len(m.kids[p]), LinkKids(m, f, base, p))
<1> DEFINE D == Lists(m)
           q == m.kids[p]
           n == Len(q)
           F == KidStep(m, f, p)
           Next1(r, i) == LinkChild(m, f, r, q[i])
           Solves(g) == g = [s \in SUBSET (1 .. n) |->
                               IF s = {} THEN base
                               ELSE Next1(g[s \ {Max(s)}], Max(s))]
           iter == CHOOSE g : Solves(g)
<1>1. n \in Nat /\ DOMAIN q = 1 .. n
  BY KidFacts
<1>2. LinkKids(m, f, base, p) = iter[1 .. n]
  <2> HIDE DEF q, n
  <2>1. QED
    BY <1>1 DEF LinkKids, FoldLeft, MapThenFoldSet, q
<1>3. F \in [D \X (1 .. n) -> D] /\ \A r \in D, i \in 1 .. n : F[<<r, i>>] = Next1(r, i)
  <2>1. /\ KidStep(m, f, p) \in [Lists(m) \X (1 .. Len(m.kids[p])) -> Lists(m)]
        /\ \A x \in Lists(m), i \in 1 .. Len(m.kids[p]) :
             KidStep(m, f, p)[<<x, i>>] = LinkChild(m, f, x, m.kids[p][i])
    <3>1. /\ IsTree(m) /\ p \in Places
          /\ \A y \in Lists(m) : y.at \in Range(m.kids[p]) => f[y] \in Lists(m)
      OBVIOUS
    <3>2. KidStep(m, f, p) \in [Lists(m) \X (1 .. Len(m.kids[p])) -> Lists(m)]
      BY ONLY <3>1, KidStepFacts
    <3>3. \A x \in Lists(m), i \in 1 .. Len(m.kids[p]) :
             KidStep(m, f, p)[<<x, i>>] = LinkChild(m, f, x, m.kids[p][i])
      BY DEF KidStep
    <3>4. QED
      BY <3>2, <3>3
  <2>2. QED
    BY <2>1
<1> HIDE DEF F, n, q, D, Next1
<1>4. PICK h \in [SUBSET (1 .. n) -> D] : Folds(h, base, F, n)
  <2>1. HasFold(D, base, F, n)
    <3>1. base \in D
      BY DEF D
    <3>2. QED
      BY <1>1, <1>3, <3>1, FoldExists
  <2>2. QED
    BY <2>1 DEF HasFold
<1>5. \A s \in SUBSET (1 .. n) : s # {} => Max(s) \in 1 .. n
  BY <1>1, GreatestElement
<1>6. Solves(h)
  <2>1. h = [s \in SUBSET (1 .. n) |-> h[s]]
    BY <1>4
  <2>2. ASSUME NEW s \in SUBSET (1 .. n)
        PROVE  h[s] = IF s = {} THEN base ELSE Next1(h[s \ {Max(s)}], Max(s))
    <3>1. h[s] = IF s = {} THEN base ELSE F[<<h[s \ {Max(s)}], Max(s)>>]
      BY <1>4 DEF Folds
    <3>2. h[s \ {Max(s)}] \in D
      BY <1>4
    <3>3. QED
      BY <1>3, <1>5, <3>1, <3>2
  <2>3. QED
    BY <2>1, <2>2
<1>7. Solves(iter)
  <2> HIDE DEF Solves
  <2>1. QED
    BY <1>6
<1> HIDE DEF iter
<1>8. iter[{}] = base
  <2>1. {} \in SUBSET (1 .. n)
    OBVIOUS
  <2>2. QED
    BY <1>7, <2>1
<1>9. ASSUME NEW s \in SUBSET (1 .. n), s # {}, iter[s \ {Max(s)}] \in D
      PROVE  iter[s] = F[<<iter[s \ {Max(s)}], Max(s)>>]
  <2>1. iter[s] = Next1(iter[s \ {Max(s)}], Max(s))
    BY <1>7, <1>9
  <2>2. QED
    BY <1>3, <1>5, <1>9, <2>1
<1>10. HasSteps(D, base, F, n, iter[1 .. n])
  <2> HIDE DEF Solves
  <2>1. base \in D
    BY DEF D
  <2>2. QED
    BY <1>1, <1>3, <1>8, <1>9, <2>1, TraceOf
<1>11. QED
  BY <1>2, <1>10 DEF F, n, q, D

\* What linking the children comes to depends only on the calls it makes.
LEMMA SameCalls ==
  ASSUME NEW m, IsTree(m), NEW p \in Places, NEW base \in Lists(m), NEW f, NEW g,
         \A y \in Lists(m) : y.at \in Range(m.kids[p]) => f[y] \in Lists(m) /\ f[y] = g[y]
  PROVE  LinkKids(m, f, base, p) = LinkKids(m, g, base, p)
<1> DEFINE D == Lists(m)
           n == Len(m.kids[p])
<1>1. \A y \in Lists(m) : y.at \in Range(m.kids[p]) => g[y] \in Lists(m)
  OBVIOUS
<1>2. \A l \in D, i \in 1 .. n : LinkChild(m, f, l, m.kids[p][i]) = LinkChild(m, g, l, m.kids[p][i])
  <2>1. TAKE l \in D, i \in 1 .. n
  <2> DEFINE c == m.kids[p][i]
  <2>2. c \in Range(m.kids[p]) /\ c \in Places
    BY KidFacts DEF Range
  <2>3. LinkAfter(l, c, c) \in D /\ LinkAfter(l, c, c).at = c
    <3> HIDE DEF c
    <3>1. QED
      BY <2>2, LinkChildGets
  <2>4. QED
    BY <2>2, <2>3 DEF LinkChild
<1>3. KidStep(m, f, p) = KidStep(m, g, p)
  BY <1>2 DEF KidStep
<1>4. /\ HasSteps(D, base, KidStep(m, f, p), n, LinkKids(m, f, base, p))
      /\ HasSteps(D, base, KidStep(m, g, p), n, LinkKids(m, g, base, p))
  <2>1. HasSteps(D, base, KidStep(m, f, p), n, LinkKids(m, f, base, p))
    BY LinkTrace
  <2>2. HasSteps(D, base, KidStep(m, g, p), n, LinkKids(m, g, base, p))
    BY <1>1, LinkTrace
  <2>3. QED
    BY <2>1, <2>2
<1>5. n \in Nat
  BY KidFacts
<1>6. QED
  BY <1>3, <1>4, <1>5, StepsUnique

\* The values a fold has computed.
LEMMA StepsValue ==
  ASSUME NEW X, NEW base, NEW F, NEW n \in Nat, NEW v, HasSteps(X, base, F, n, v)
  PROVE  v \in X
BY DEF HasSteps

\* A chain that ends at an entry with several children has not gone back.
LEMMA ChainDeeper ==
  ASSUME NEW m, IsTree(m), NEW N \in Nat, NEW depth \in [Places -> 0 .. N],
         Depths(m, N, depth), NEW start \in Lists(m), NEW p, p = LinkChain(m, start).at
  PROVE  p \in Places /\ (Len(m.kids[p]) >= 2 => depth[start.at] <= depth[p])
<1> DEFINE D == Lists(m)
           rank == [l \in D |-> N - depth[l.at]]
           Deeper(l, r) == Len(m.kids[r.at]) >= 2 => depth[l.at] <= depth[r.at]
           S == {l \in D : Deeper(l, LinkChain(m, l))}
<1>1. rank \in [D -> 0 .. N] /\ \A l \in D : rank[l] = N - depth[l.at]
  <2>1. \A l \in D : l.at \in Places /\ depth[l.at] \in 0 .. N
    BY ListFacts
  <2>2. QED
    BY <2>1
<1> HIDE DEF rank
<1>2. ASSUME NEW l \in D, \A y \in D : rank[y] < rank[l] => y \in S
      PROVE  Deeper(l, LinkChain(m, l))
  <2> DEFINE r == LinkChain(m, l)
             c == m.kids[l.at][1]
             n == Len(m.kids[l.at])
  <2>1. l.at \in Places /\ n \in Nat /\ depth[l.at] \in Nat
    BY ListFacts, KidFacts
  <2>2. r = DownStep(m, [k \in D |-> LinkChain(m, k)], l) /\ r \in D
    BY ChainRecursion
  <2>3. CASE n # 1
    <3>1. r = l
      BY <2>2, <2>3 DEF DownStep
    <3>2. QED
      BY <2>1, <3>1
  <2>4. CASE n = 1 /\ c \in m.bad
    <3>1. r = [l EXCEPT !.at = l.before, !.ret = "some bad"]
      BY <2>2, <2>4 DEF DownStep
    <3>2. r.at = l.at \/ m.kids[r.at] = <<l.at>>
      <4> DEFINE b == [l EXCEPT !.at = l.before, !.ret = "some bad"]
      <4>1. b.at = l.at \/ m.kids[b.at] = <<l.at>>
        <5> HIDE DEF b
        <5>1. QED
          BY BackFacts DEF b
      <4>2. r = b
        BY <3>1
      <4> HIDE DEF b, r
      <4>3. QED
        BY <4>1, <4>2
    <3> HIDE DEF r
    <3>3. CASE r.at = l.at
      BY <2>1, <3>3 DEF r
    <3>4. CASE m.kids[r.at] = <<l.at>>
      <4>1. Len(<<l.at>>) = 1
        OBVIOUS
      <4>2. Len(m.kids[r.at]) = 1
        BY <3>4, <4>1
      <4>3. QED
        BY <4>2 DEF r
    <3>5. QED
      BY ONLY <3>2, <3>3, <3>4
  <2>5. CASE n = 1 /\ c \notin m.bad
    <3> DEFINE k == LinkAfter(l, c, l.at)
    <3>1. m.kids[l.at] = <<c>> /\ c \in Entries /\ Range(m.kids[l.at]) = {c} /\ c \in Places
      BY <2>1, <2>5, OnlyChild, KidFacts
    <3>2. k \in D /\ k.at = c
      <4> HIDE DEF c
      <4>1. QED
        BY <3>1, LinkAfterFacts
    <3>3. r = LinkChain(m, k)
      <4>1. r = [j \in D |-> LinkChain(m, j)][k]
        BY <2>2, <2>5 DEF DownStep
      <4>2. QED
        BY <3>2, <4>1
    <3>4. depth[l.at] < depth[c] /\ depth[c] \in Nat
      <4>1. c \in Range(m.kids[l.at])
        BY <3>1
      <4>2. QED
        BY <2>1, <3>1, <4>1 DEF Depths
    <3> HIDE DEF k, c, r
    <3>5. rank[k] < rank[l]
      BY <1>1, <2>1, <3>2, <3>4
    <3>6. Deeper(k, r)
      BY <1>2, <3>2, <3>3, <3>5
    <3>7. depth[r.at] \in Nat
      BY <2>2, ListFacts
    <3>8. Deeper(l, r)
      BY <2>1, <3>2, <3>4, <3>6, <3>7
    <3>9. QED
      BY <3>8 DEF r
  <2> HIDE DEF n, c, Deeper
  <2>6. QED
    BY <2>3, <2>4, <2>5
<1>3. \A l \in D : (\A y \in D : rank[y] < rank[l] => y \in S) => l \in S
  BY <1>2
<1>4. D \subseteq S
  <2> HIDE DEF S, D
  <2>1. QED
    BY <1>1, <1>3, RankInduction
<1>5. LinkChain(m, start) \in D
  BY ChainRecursion
<1>6. QED
  BY <1>4, <1>5, ListFacts

\* One call of link_entry_for_save_file, when f is what its calls make.
LinkStep(m, f, l) ==
  LET chain == LinkChain(m, l) IN
  IF Len(m.kids[chain.at]) <= 1 THEN chain ELSE LinkKids(m, f, chain, chain.at)

\* A call has a value if the calls for deeper entries have one.
LEMMA LinkStepValue ==
  ASSUME NEW m, IsTree(m), NEW N \in Nat, NEW depth \in [Places -> 0 .. N],
         Depths(m, N, depth), NEW l \in Lists(m), NEW f,
         \A y \in Lists(m) : depth[l.at] < depth[y.at] => f[y] \in Lists(m)
  PROVE  LinkStep(m, f, l) \in Lists(m)
<1> DEFINE chain == LinkChain(m, l)
           p == chain.at
           n == Len(m.kids[p])
<1>1. chain \in Lists(m)
  BY ChainRecursion
<1>2. p \in Places /\ n \in Nat /\ l.at \in Places
  BY <1>1, ListFacts, KidFacts
<1>3. CASE n <= 1
  BY <1>1, <1>3 DEF LinkStep
<1>4. CASE n >= 2
  <2>1. depth[l.at] <= depth[p]
    BY <1>4, ChainDeeper
  <2>2. \A c \in Range(m.kids[p]) : depth[p] < depth[c] /\ depth[c] \in Nat
    BY <1>2, KidFacts DEF Depths
  <2>3. \A y \in Lists(m) : y.at \in Range(m.kids[p]) => f[y] \in Lists(m)
    <3>1. TAKE y \in Lists(m)
    <3>2. HAVE y.at \in Range(m.kids[p])
    <3>3. depth[l.at] \in Nat /\ depth[p] \in Nat
      BY <1>2
    <3>4. depth[l.at] < depth[y.at]
      BY <2>1, <2>2, <3>2, <3>3
    <3>5. QED
      BY <3>4
  <2>4. LinkStep(m, f, l) = LinkKids(m, f, chain, p)
    BY <1>2, <1>4 DEF LinkStep
  <2> HIDE DEF p, chain
  <2>5. HasSteps(Lists(m), chain, KidStep(m, f, p), Len(m.kids[p]), LinkKids(m, f, chain, p))
    BY <1>1, <1>2, <2>3, LinkTrace
  <2>6. Len(m.kids[p]) \in Nat
    BY <1>2
  <2>7. LinkKids(m, f, chain, p) \in Lists(m)
    BY <2>5, <2>6, StepsValue
  <2>8. QED
    BY <2>4, <2>7
<1> HIDE DEF n
<1>5. QED
  BY <1>2, <1>3, <1>4

\* Two functions that make the same of those calls.
Agree(m, depth, l, f, g) ==
  \A y \in Lists(m) : depth[l.at] < depth[y.at] => f[y] \in Lists(m) /\ f[y] = g[y]

\* It depends only on those calls.
LEMMA LinkStepSame ==
  ASSUME NEW m, IsTree(m), NEW N \in Nat, NEW depth \in [Places -> 0 .. N],
         Depths(m, N, depth), NEW l \in Lists(m), NEW f, NEW g,
         Agree(m, depth, l, f, g)
  PROVE  LinkStep(m, f, l) = LinkStep(m, g, l)
<1> DEFINE chain == LinkChain(m, l)
           p == chain.at
           n == Len(m.kids[p])
<1>1. chain \in Lists(m)
  BY ChainRecursion
<1>2. p \in Places /\ n \in Nat /\ l.at \in Places
  BY <1>1, ListFacts, KidFacts
<1>3. CASE n <= 1
  BY <1>3 DEF LinkStep
<1>4. CASE n >= 2
  <2>1. depth[l.at] <= depth[p]
    BY <1>4, ChainDeeper
  <2>2. \A c \in Range(m.kids[p]) : depth[p] < depth[c] /\ depth[c] \in Nat
    BY <1>2, KidFacts DEF Depths
  <2>3. \A y \in Lists(m) : y.at \in Range(m.kids[p]) => f[y] \in Lists(m) /\ f[y] = g[y]
    <3>1. TAKE y \in Lists(m)
    <3>2. HAVE y.at \in Range(m.kids[p])
    <3>3. depth[l.at] \in Nat /\ depth[p] \in Nat
      BY <1>2
    <3>4. depth[l.at] < depth[y.at]
      BY <2>1, <2>2, <3>2, <3>3
    <3>5. QED
      BY <3>4 DEF Agree
  <2>4. /\ LinkStep(m, f, l) = LinkKids(m, f, chain, p)
        /\ LinkStep(m, g, l) = LinkKids(m, g, chain, p)
    BY <1>2, <1>4 DEF LinkStep
  <2> HIDE DEF p, chain
  <2>5. LinkKids(m, f, chain, p) = LinkKids(m, g, chain, p)
    BY <1>1, <1>2, <2>3, SameCalls
  <2>6. QED
    BY <2>4, <2>5
<1> HIDE DEF n
<1>5. QED
  BY <1>2, <1>3, <1>4

\* The recursion of link_entry_for_save_file ends, and is what a call says.
LEMMA LinkRecursion ==
  ASSUME NEW m, IsTree(m)
  PROVE  \A l \in Lists(m) :
           /\ LinkEntry(m, l) \in Lists(m)
           /\ LinkEntry(m, l) = LinkStep(m, [k \in Lists(m) |-> LinkEntry(m, k)], l)
<1> DEFINE D == Lists(m)
           Solves(f) == f = [l \in D |-> LinkStep(m, f, l)]
           link == CHOOSE f : Solves(f)
<1>1. \A l \in D : LinkEntry(m, l) = link[l]
  BY DEF LinkEntry, LinkStep, LinkKids
<1>0. PICK N \in Nat : \E depth \in [Places -> 0 .. N] : Depths(m, N, depth)
  BY DEF IsTree
<1>2. PICK depth \in [Places -> 0 .. N] : Depths(m, N, depth)
  BY <1>0
<1> DEFINE rank == [l \in D |-> N - depth[l.at]]
<1>3. rank \in [D -> 0 .. N] /\ \A l \in D : l.at \in Places /\ rank[l] = N - depth[l.at]
  <2>1. \A l \in D : l.at \in Places /\ depth[l.at] \in 0 .. N
    BY ListFacts
  <2>2. QED
    BY <2>1
<1> HIDE DEF rank
<1>4. \A l, y \in D : depth[l.at] < depth[y.at] => rank[y] < rank[l]
  <2>1. TAKE l, y \in D
  <2>2. /\ rank[l] = N - depth[l.at] /\ rank[y] = N - depth[y.at]
        /\ depth[l.at] \in Nat /\ depth[y.at] \in Nat
    BY <1>3
  <2>3. QED
    BY <2>2
<1>5. ASSUME NEW f, NEW l \in D,
             \A y \in D : rank[y] < rank[l] => f[y] \in D
      PROVE  LinkStep(m, f, l) \in D
  <2>1. \A y \in Lists(m) : depth[l.at] < depth[y.at] => f[y] \in Lists(m)
    BY <1>4, <1>5
  <2>2. QED
    BY <1>2, <2>1, LinkStepValue
<1>6. ASSUME NEW f \in [D -> D], NEW g, NEW l \in D,
             \A y \in D : rank[y] < rank[l] => f[y] = g[y]
      PROVE  LinkStep(m, f, l) = LinkStep(m, g, l)
  <2>1. Agree(m, depth, l, f, g)
    BY <1>4, <1>6 DEF Agree
  <2>2. QED
    BY <1>2, <2>1, LinkStepSame
<1> HIDE DEF D
<1>7. \E f : Solves(f)
  <2>1. CASE D = {}
    <3> DEFINE f == [l \in D |-> 0]
    <3>1. f = [l \in D |-> LinkStep(m, f, l)]
      BY <2>1
    <3>2. QED
      BY <3>1
  <2>2. CASE D # {}
    <3> DEFINE F == [x \in [D -> D] \X D |-> LinkStep(m, x[1], x[2])]
    <3>1. \A f \in [D -> D] : \A l \in D : F[<<f, l>>] = LinkStep(m, f, l)
      OBVIOUS
    <3> HIDE DEF F
    <3>2. HasValues(F, D, D)
      BY <1>5, <3>1 DEF HasValues
    <3>3. LooksBelow(F, D, D, rank)
      BY <1>6, <3>1 DEF LooksBelow
    <3>4. PICK r \in D : TRUE
      BY <2>2
    <3>5. HasFixedPoint(F, D, D)
      <4>1. N \in Nat /\ rank \in [D -> 0 .. N]
        BY <1>3
      <4>2. QED
        BY <3>2, <3>3, <3>4, <4>1, RecursionExists
    <3>6. PICK f \in [D -> D] : \A l \in D : f[l] = F[<<f, l>>]
      BY <3>5 DEF HasFixedPoint
    <3>7. \A l \in D : f[l] = LinkStep(m, f, l)
      BY <3>1, <3>6
    <3>8. Solves(f)
      BY <3>7
    <3> HIDE DEF Solves
    <3>9. QED
      BY <3>8
  <2>3. QED
    BY <2>1, <2>2
<1>8. Solves(link)
  <2> HIDE DEF Solves
  <2>1. QED
    BY <1>7
<1> HIDE DEF link
<1>9. \A l \in D : link[l] = LinkStep(m, link, l)
  BY <1>8
<1> DEFINE S == {l \in D : link[l] \in D}
<1>10. \A l \in D : (\A y \in D : rank[y] < rank[l] => y \in S) => l \in S
  BY <1>5, <1>9
<1>11. D \subseteq S
  <2> HIDE DEF S
  <2>1. QED
    BY <1>3, <1>10, RankInduction
<1>12. ASSUME NEW l \in D
       PROVE  LinkStep(m, link, l) = LinkStep(m, [k \in D |-> LinkEntry(m, k)], l)
  <2> DEFINE g == [k \in D |-> LinkEntry(m, k)]
  <2>1. g \in [D -> D] /\ \A y \in D : link[y] = g[y]
    BY <1>1, <1>11 DEF D
  <2> HIDE DEF g
  <2>2. LinkStep(m, g, l) = LinkStep(m, link, l)
    BY <1>6, <2>1
  <2>3. QED
    BY <2>2 DEF g
<1>13. QED
  BY <1>1, <1>9, <1>11, <1>12 DEF D

-----------------------------------------------------------------------------
(* What link_entry_for_save_file links                                     *)

\* The order of a list, with equality.
LEMMA NotAfterTransitive ==
  ASSUME NEW Y, NEW s \in Seq(Y), IsInjective(s), NEW x, NEW y, NEW z
  PROVE  /\ Before(s, x, y) /\ NotAfter(s, y, z) => Before(s, x, z)
         /\ NotAfter(s, x, y) /\ Before(s, y, z) => Before(s, x, z)
         /\ NotAfter(s, x, y) /\ NotAfter(s, y, z) => NotAfter(s, x, z)
<1>1. Before(s, x, y) /\ Before(s, y, z) => Before(s, x, z)
  BY BeforeTransitive
<1>2. QED
  BY <1>1 DEF NotAfter

\* What a call comes to: all it has linked is complete, and what it got.
CallEnds(m, l, r) ==
  /\ r \in Lists(m) /\ Extends(m, l.at, l.list, r.list)
  /\ r.at = l.before \/ NotAfter(r.list, l.at, r.at)
  /\ \A x \in New(l.list, r.list) \cup {l.at} : Complete(m, r.list, x)

\* What the calls for the first i children of p have come to, from the list s.
KidsLinked(m, p, s, acc, i) ==
  /\ acc \in Lists(m) /\ Extends(m, p, s, acc.list) /\ NotAfter(acc.list, p, acc.at)
  /\ \A x \in New(s, acc.list) : Complete(m, acc.list, x)
  /\ \A j \in DOMAIN m.kids[p] : j > i => m.kids[p][j] \notin Range(acc.list)
  /\ \A j \in DOMAIN m.kids[p] : j <= i /\ m.kids[p][j] \notin m.bad =>
       m.kids[p][j] \in Range(acc.list) /\ NotAfter(acc.list, m.kids[p][j], acc.at)
  /\ \A j, k \in DOMAIN m.kids[p] :
       j < k /\ k <= i /\ m.kids[p][j] \notin m.bad /\ m.kids[p][k] \notin m.bad
         => Before(acc.list, m.kids[p][j], m.kids[p][k])

\* A good child, and what is below it.
LEMMA GoodChild ==
  ASSUME NEW m, IsTree(m), NEW p \in Places, NEW s, p \in Range(s), UpClosed(m, s),
         NEW i \in DOMAIN m.kids[p], NEW last, last = i - 1,
         NEW acc, KidsLinked(m, p, s, acc, last),
         NEW c, c = m.kids[p][i], c \notin m.bad,
         NEW k, k = LinkAfter(acc, c, c)
  PROVE  /\ Ready(m, k) /\ k.at = c /\ k.before = c
         /\ \A r : CallEnds(m, k, r) => KidsLinked(m, p, s, r, i)
<1> DEFINE q == m.kids[p]
           n == Len(q)
<1>1. /\ acc \in Lists(m) /\ Extends(m, p, s, acc.list) /\ NotAfter(acc.list, p, acc.at)
      /\ \A x \in New(s, acc.list) : Complete(m, acc.list, x)
      /\ \A j \in DOMAIN q : j > i - 1 => q[j] \notin Range(acc.list)
      /\ \A j \in DOMAIN q : j <= i - 1 /\ q[j] \notin m.bad =>
           q[j] \in Range(acc.list) /\ NotAfter(acc.list, q[j], acc.at)
      /\ \A j, h \in DOMAIN q :
           j < h /\ h <= i - 1 /\ q[j] \notin m.bad /\ q[h] \notin m.bad
             => Before(acc.list, q[j], q[h])
  BY DEF KidsLinked
<1>2. DOMAIN q = 1 .. n /\ n \in Nat /\ IsInjective(q) /\ c \in Range(q) /\ c \in Entries
      /\ c \in Places /\ c # p
  BY KidFacts DEF Range
<1>3. acc.list \in Seq(Places) /\ Range(acc.list) \subseteq Places
  BY <1>1, ListFacts
<1>4. p \in Range(acc.list) /\ IsInjective(acc.list) /\ UpClosed(m, acc.list)
  <2>1. p \in Range(acc.list) /\ IsInjective(acc.list)
    BY <1>1 DEF Extends
  <2>2. UpClosed(m, acc.list)
    BY <1>1, ExtendsKeeps
  <2>3. QED
    BY <2>1, <2>2
<1>5. c \notin Range(acc.list)
  <2>1. i > i - 1 /\ q[i] = c /\ i \in DOMAIN q
    BY <1>2
  <2>2. QED
    BY <1>1, <2>1
<1>6. /\ Ready(m, k) /\ k.at = c /\ k.before = c
      /\ Extends(m, p, acc.list, k.list) /\ New(acc.list, k.list) = {c}
      /\ Before(k.list, acc.at, c) /\ Before(k.list, p, c)
  <2> HIDE DEF q
  <2>1. c \in Range(m.kids[p])
    BY <1>2 DEF q
  <2>2. /\ IsTree(m) /\ acc \in Lists(m) /\ k = LinkAfter(acc, c, c) /\ c \notin m.bad
        /\ NotAfter(acc.list, p, acc.at)
    BY <1>1
  <2>3. \A x : x \in New(acc.list, k.list) <=> x = c
    BY ONLY <1>4, <1>5, <2>1, <2>2, ChildReady
  <2>4. /\ Ready(m, k) /\ k.at = c /\ k.before = c
        /\ Extends(m, p, acc.list, k.list) /\ Before(k.list, acc.at, c)
        /\ Before(k.list, p, c)
    BY ONLY <1>4, <1>5, <2>1, <2>2, ChildReady
  <2>5. QED
    BY <2>3, <2>4
<1>7. ASSUME NEW r, CallEnds(m, k, r)
      PROVE  KidsLinked(m, p, s, r, i)
  <2>1. /\ r \in Lists(m) /\ Extends(m, c, k.list, r.list) /\ NotAfter(r.list, c, r.at)
        /\ \A x \in New(k.list, r.list) \cup {c} : Complete(m, r.list, x)
    BY <1>6, <1>7 DEF CallEnds, NotAfter
  <2>2. r.list \in Seq(Places) /\ IsInjective(r.list)
    BY <2>1, ListFacts DEF Extends
  <2>3. /\ Range(s) \subseteq Range(acc.list) /\ Range(acc.list) \subseteq Range(k.list)
        /\ Range(k.list) \subseteq Range(r.list)
        /\ \A x, y : Before(acc.list, x, y) => Before(k.list, x, y)
        /\ \A x, y : Before(k.list, x, y) => Before(r.list, x, y)
        /\ \A x \in New(k.list, r.list) : \E h \in New(k.list, r.list) \cup {c} :
             x \in Range(m.kids[h])
    BY <1>1, <1>6, <2>1 DEF Extends
  <2>4. c \in Range(r.list) /\ c \in New(s, k.list)
    BY <1>5, <1>6, <2>3 DEF New
  <2>5. Extends(m, p, acc.list, r.list)
    <3>1. c \in New(acc.list, k.list) \cup {p}
      BY <1>6
    <3>2. QED
      BY <1>6, <2>1, <3>1, ExtendsTransitive
  <2>6. Extends(m, p, s, r.list)
    BY <1>1, <2>5, ExtendsTransitive
  <2>7. NotAfter(r.list, p, r.at)
    <3>1. Before(r.list, p, c)
      BY <1>6, <2>3
    <3>2. Before(r.list, p, r.at)
      BY <2>1, <2>2, <3>1, NotAfterTransitive
    <3>3. QED
      BY <3>2 DEF NotAfter
  <2>8. ASSUME NEW x \in New(s, r.list)
        PROVE  Complete(m, r.list, x)
    <3>1. CASE x \in New(s, acc.list)
      BY <1>1, <2>5, <3>1, ExtendsKeeps
    <3>2. CASE x \in New(acc.list, k.list)
      BY <1>6, <2>1, <3>2
    <3>3. CASE x \in New(k.list, r.list)
      BY <2>1, <3>3
    <3>4. QED
      BY <2>8, <3>1, <3>2, <3>3 DEF New
  <2>9. ASSUME NEW j \in DOMAIN q, j > i
        PROVE  q[j] \notin Range(r.list)
    <3> DEFINE x == q[j]
    <3>1. j > i - 1 /\ i \in DOMAIN q /\ j # i
      BY <1>2, <2>9
    <3>2. x \notin Range(acc.list) /\ x # c
      BY <1>1, <1>2, <3>1 DEF IsInjective
    <3>3. x \notin Range(k.list)
      BY <1>6, <3>2 DEF New
    <3>4. x \notin New(k.list, r.list)
      <4>1. SUFFICES ASSUME x \in New(k.list, r.list)
                     PROVE  FALSE
        OBVIOUS
      <4>2. PICK h \in New(k.list, r.list) \cup {c} : x \in Range(m.kids[h])
        BY <2>3, <4>1
      <4>3. h \in Places
        <5>1. Range(r.list) \subseteq Places
          BY <2>1, ListFacts
        <5>2. QED
          BY <1>2, <4>2, <5>1 DEF New
      <4>4. x \in Range(m.kids[p])
        BY DEF Range
      <4>5. h = p
        <5> HIDE DEF x
        <5>1. QED
          BY <4>2, <4>3, <4>4, KidFacts
      <4>6. p \in Range(k.list)
        BY <1>4, <2>3
      <4>7. QED
        BY <1>2, <4>2, <4>5, <4>6 DEF New
    <3>5. QED
      BY <3>3, <3>4 DEF New
  <2>10. ASSUME NEW j \in DOMAIN q, j < i, q[j] \notin m.bad
         PROVE  q[j] \in Range(r.list) /\ Before(r.list, q[j], c)
    <3>1. j <= i - 1
      BY <1>2, <2>10
    <3>2. q[j] \in Range(acc.list) /\ NotAfter(acc.list, q[j], acc.at)
      BY <1>1, <2>10, <3>1
    <3>3. NotAfter(r.list, q[j], acc.at) /\ Before(r.list, acc.at, c)
      BY <1>6, <2>3, <3>2 DEF NotAfter
    <3>4. Before(r.list, q[j], c)
      BY <2>2, <3>3, NotAfterTransitive
    <3>5. QED
      BY <2>3, <3>2, <3>4
  <2>11. ASSUME NEW j \in DOMAIN q, j <= i, q[j] \notin m.bad
         PROVE  q[j] \in Range(r.list) /\ NotAfter(r.list, q[j], r.at)
    <3>1. CASE j = i
      <4>1. q[j] = c
        BY <3>1
      <4>2. QED
        BY <2>1, <2>4, <4>1
    <3>2. CASE j < i
      <4>1. q[j] \in Range(r.list) /\ Before(r.list, q[j], c)
        BY <2>10, <2>11, <3>2
      <4>2. Before(r.list, q[j], r.at)
        BY <2>1, <2>2, <4>1, NotAfterTransitive
      <4>3. QED
        BY <4>1, <4>2 DEF NotAfter
    <3>3. j \in Int /\ i \in Int
      BY <1>2
    <3>4. QED
      BY <2>11, <3>1, <3>2, <3>3
  <2>12. ASSUME NEW j \in DOMAIN q, NEW h \in DOMAIN q, j < h, h <= i,
                q[j] \notin m.bad, q[h] \notin m.bad
         PROVE  Before(r.list, q[j], q[h])
    <3>0. j \in Int /\ h \in Int /\ i \in Int
      BY <1>2
    <3>1. CASE h = i
      <4>1. q[h] = c /\ j < i
        BY <2>12, <3>1
      <4>2. QED
        BY <2>10, <2>12, <4>1
    <3>2. CASE h <= i - 1
      <4>1. Before(acc.list, q[j], q[h])
        BY <1>1, <2>12, <3>2
      <4>2. QED
        BY <2>3, <4>1
    <3>3. QED
      BY <2>12, <3>0, <3>1, <3>2
  <2> HIDE DEF q
  <2>13. KidsLinked(m, p, s, r, i)
    <3>1. \A j \in DOMAIN q : j > i => q[j] \notin Range(r.list)
      BY <2>9
    <3>2. \A j \in DOMAIN q : j <= i /\ q[j] \notin m.bad =>
             q[j] \in Range(r.list) /\ NotAfter(r.list, q[j], r.at)
      BY <2>11
    <3>3. \A j, h \in DOMAIN q :
             j < h /\ h <= i /\ q[j] \notin m.bad /\ q[h] \notin m.bad
               => Before(r.list, q[j], q[h])
      BY <2>12
    <3>4. \A x \in New(s, r.list) : Complete(m, r.list, x)
      BY <2>8
    <3>5. QED
      BY <2>1, <2>6, <2>7, <3>1, <3>2, <3>3, <3>4 DEF KidsLinked, q
  <2>14. QED
    BY <2>13
<1>8. QED
  BY <1>6, <1>7

\* A child that verify_entry accepts is linked, behind those before it.
LEMMA GoodChildLinked ==
  ASSUME NEW m, IsTree(m), NEW p \in Places, NEW s, p \in Range(s), UpClosed(m, s),
         NEW i \in DOMAIN m.kids[p], NEW last, last = i - 1,
         NEW acc, KidsLinked(m, p, s, acc, last),
         NEW c, c = m.kids[p][i], c \notin m.bad,
         NEW k, k = LinkAfter(acc, c, c), NEW r, CallEnds(m, k, r)
  PROVE  KidsLinked(m, p, s, r, i)
BY GoodChild

\* A bad child links nothing.
LEMMA BadChild ==
  ASSUME NEW m, IsTree(m), NEW p \in Places, NEW s,
         NEW i \in DOMAIN m.kids[p], NEW acc, KidsLinked(m, p, s, acc, i - 1),
         m.kids[p][i] \in m.bad, NEW r, r = [acc EXCEPT !.ret = "some bad"]
  PROVE  KidsLinked(m, p, s, r, i)
<1> DEFINE q == m.kids[p]
           n == Len(q)
<1>1. /\ acc \in Lists(m) /\ Extends(m, p, s, acc.list) /\ NotAfter(acc.list, p, acc.at)
      /\ \A x \in New(s, acc.list) : Complete(m, acc.list, x)
      /\ \A j \in DOMAIN q : j > i - 1 => q[j] \notin Range(acc.list)
      /\ \A j \in DOMAIN q : j <= i - 1 /\ q[j] \notin m.bad =>
           q[j] \in Range(acc.list) /\ NotAfter(acc.list, q[j], acc.at)
      /\ \A j, h \in DOMAIN q :
           j < h /\ h <= i - 1 /\ q[j] \notin m.bad /\ q[h] \notin m.bad
             => Before(acc.list, q[j], q[h])
  BY DEF KidsLinked
<1>2. r \in Lists(m) /\ r.list = acc.list /\ r.at = acc.at
  BY <1>1, BadFacts
<1>3. DOMAIN q = 1 .. n /\ n \in Nat
  BY KidFacts
<1>0. q[i] \in m.bad /\ i \in DOMAIN q
  OBVIOUS
<1> HIDE DEF q, n
<1>4. q[i] \in m.bad /\ i \in Int /\ i \in DOMAIN q /\ \A j \in DOMAIN q : j \in Int
  BY ONLY <1>0, <1>3
<1>5. \A j \in DOMAIN q : j > i => j > i - 1
  BY ONLY <1>4
<1>6. \A j \in DOMAIN q : j <= i /\ q[j] \notin m.bad => j <= i - 1
  <2>1. TAKE j \in DOMAIN q
  <2>2. HAVE j <= i /\ q[j] \notin m.bad
  <2>3. j # i
    BY <1>4, <2>2
  <2>4. j \in Int
    BY <1>4
  <2>5. QED
    BY ONLY <1>4, <2>2, <2>3, <2>4
<1>7. /\ \A j \in DOMAIN q : j > i => q[j] \notin Range(r.list)
      /\ \A j \in DOMAIN q : j <= i /\ q[j] \notin m.bad =>
           q[j] \in Range(r.list) /\ NotAfter(r.list, q[j], r.at)
      /\ \A j, h \in DOMAIN q :
           j < h /\ h <= i /\ q[j] \notin m.bad /\ q[h] \notin m.bad
             => Before(r.list, q[j], q[h])
  BY <1>1, <1>2, <1>5, <1>6
<1>8. QED
  BY <1>1, <1>2, <1>7 DEF KidsLinked, q

\* A call that is ready links all that is good below its entry.
LEMMA CallsEnd ==
  ASSUME NEW m, IsTree(m), NEW start \in Lists(m), Ready(m, start)
  PROVE  CallEnds(m, start, LinkEntry(m, start))
<1>0. PICK N \in Nat : \E depth \in [Places -> 0 .. N] : Depths(m, N, depth)
  BY DEF IsTree
<1>1. PICK depth \in [Places -> 0 .. N] : Depths(m, N, depth)
  BY <1>0
<1> DEFINE D == Lists(m)
           rank == [l \in D |-> N - depth[l.at]]
           S == {l \in D : Ready(m, l) => CallEnds(m, l, LinkEntry(m, l))}
<1>2. rank \in [D -> 0 .. N] /\ \A l \in D : rank[l] = N - depth[l.at]
  <2>1. \A l \in D : l.at \in Places /\ depth[l.at] \in 0 .. N
    BY ListFacts
  <2>2. QED
    BY <2>1
<1> HIDE DEF rank
<1>3. ASSUME NEW l \in D, \A y \in D : rank[y] < rank[l] => y \in S, Ready(m, l)
      PROVE  CallEnds(m, l, LinkEntry(m, l))
  <2> DEFINE f == [k \in D |-> LinkEntry(m, k)]
             chain == LinkChain(m, l)
             p == chain.at
             q == m.kids[p]
             n == Len(q)
             r == LinkEntry(m, l)
  <2>1. ChainEnd(m, depth, l, chain)
    BY <1>1, <1>3, ChainEnds
  <2>2. r = LinkStep(m, f, l) /\ r \in D /\ \A k \in D : f[k] = LinkEntry(m, k) /\ f[k] \in D
    BY LinkRecursion
  <2>3. /\ chain \in D /\ Extends(m, l.at, l.list, chain.list)
        /\ p = l.before \/ NotAfter(chain.list, l.at, p)
        /\ \A x \in New(l.list, chain.list) \cup {l.at} :
             (x = p /\ n >= 2) \/ Complete(m, chain.list, x)
        /\ n >= 2 =>
             /\ p \in New(l.list, chain.list) \cup {l.at} /\ depth[l.at] <= depth[p]
             /\ Range(q) \cap Range(chain.list) = {}
    BY <2>1 DEF ChainEnd
  <2>4. /\ p \in Places /\ p \in Range(chain.list) /\ l.at \in Range(l.list)
        /\ l.at \in Places /\ l.before \in Range(l.list) /\ UpClosed(m, l.list)
    BY <1>3, <2>3, ListFacts DEF Ready
  <2>5. q \in Seq(Entries) /\ DOMAIN q = 1 .. n /\ n \in Nat
    BY <2>4, KidFacts
  <2>6. CASE n <= 1
    <3>1. r = chain
      BY <2>2, <2>6 DEF LinkStep
    <3>2. ~(n >= 2)
      <4> HIDE DEF n
      <4>1. QED
        BY <2>5, <2>6
    <3> HIDE DEF n, chain, r
    <3>3. CallEnds(m, l, chain)
      BY <2>3, <3>2 DEF CallEnds
    <3>4. QED
      BY <3>1, <3>3 DEF r
  <2>7. CASE n >= 2
    <3> DEFINE s == chain.list
    <3>1. r = LinkKids(m, f, chain, p)
      <4>1. ~(n <= 1)
        <5> HIDE DEF n
        <5>1. QED
          BY <2>5, <2>7
      <4>2. QED
        BY <2>2, <4>1 DEF LinkStep
    <3> HIDE DEF f, n, r, chain
    <3>2. \A y \in Lists(m) : y.at \in Range(m.kids[p]) => f[y] \in Lists(m)
      BY <2>2
    <3>3. HasSteps(D, chain, KidStep(m, f, p), n, r)
      BY <2>3, <2>4, <3>1, <3>2, LinkTrace DEF n
    <3>4. PICK g \in [0 .. n -> D] : FoldSteps(g, chain, KidStep(m, f, p), n) /\ g[n] = r
      BY <3>3 DEF HasSteps
    <3>0. g[0] = chain
      BY <3>4 DEF FoldSteps
    <3>5. \A i \in 1 .. n : g[i] = LinkChild(m, f, g[i - 1], q[i])
      <4>1. TAKE i \in 1 .. n
      <4>2. g[i] = KidStep(m, f, p)[<<g[i - 1], i>>]
        BY <3>4 DEF FoldSteps
      <4>3. i - 1 \in 0 .. n
        BY <2>5
      <4>4. g[i - 1] \in Lists(m)
        BY <3>4, <4>3
      <4>5. KidStep(m, f, p)[<<g[i - 1], i>>] = LinkChild(m, f, g[i - 1], q[i])
        BY <4>4 DEF KidStep, n
      <4>6. QED
        BY <4>2, <4>5
    <3>6. p \in Range(s) /\ UpClosed(m, s) /\ IsInjective(s)
      <4>1. UpClosed(m, s)
        BY <2>3, <2>4, ExtendsKeeps
      <4>2. QED
        BY <2>3, <2>4, <4>1 DEF Extends
    <3> DEFINE T == {i \in 0 .. n : KidsLinked(m, p, s, g[i], i)}
    <3>7. 0 \in T
      <4>1. 0 \in 0 .. n /\ g[0] = chain
        BY <2>5, <3>0
      <4>2. Extends(m, p, s, s) /\ New(s, s) = {} /\ NotAfter(s, p, p)
        BY <3>6, ExtendsItself DEF New, NotAfter
      <4>3. \A j \in DOMAIN q : q[j] \notin Range(s) /\ ~(j <= 0)
        <5>1. \A j \in DOMAIN q : q[j] \in Range(q)
          BY DEF Range
        <5>2. \A j \in DOMAIN q : ~(j <= 0)
          BY <2>5
        <5>3. QED
          BY <2>3, <2>7, <5>1, <5>2
      <4>4. KidsLinked(m, p, s, chain, 0)
        BY <2>3, <4>2, <4>3 DEF KidsLinked
      <4>5. QED
        BY <4>1, <4>4
    <3>8. ASSUME NEW i \in 1 .. n, i - 1 \in T
          PROVE  i \in T
      <4> DEFINE acc == g[i - 1]
                 c == q[i]
                 k == LinkAfter(acc, c, c)
      <4>1. KidsLinked(m, p, s, acc, i - 1) /\ i \in DOMAIN q /\ i \in 0 .. n
        BY <2>5, <3>8
      <4>2. g[i] = LinkChild(m, f, acc, c)
        BY <3>5
      <4>3. CASE c \in m.bad
        <5>1. g[i] = [acc EXCEPT !.ret = "some bad"]
          BY <4>2, <4>3 DEF LinkChild
        <5> HIDE DEF acc
        <5>2. KidsLinked(m, p, s, g[i], i)
          BY <2>4, <4>1, <4>3, <5>1, BadChild
        <5>3. QED
          BY <4>1, <5>2
      <4>4. CASE c \notin m.bad
        <5>1. g[i] = f[k]
          BY <4>2, <4>4 DEF LinkChild
        <5> HIDE DEF acc, k
        <5>2. /\ Ready(m, k) /\ k.at = c /\ k.before = c
              /\ \A y : CallEnds(m, k, y) => KidsLinked(m, p, s, y, i)
          <6>1. k = LinkAfter(acc, c, c)
            BY DEF k
          <6> DEFINE last == i - 1
          <6> HIDE DEF c, s, last
          <6>2. c = m.kids[p][i]
            BY DEF c
          <6>3. /\ IsTree(m) /\ p \in Places /\ p \in Range(s) /\ UpClosed(m, s)
                /\ i \in DOMAIN m.kids[p] /\ KidsLinked(m, p, s, acc, last)
                /\ c \notin m.bad /\ last = i - 1
            BY <2>4, <3>6, <4>1, <4>4 DEF last
          <6>4. Ready(m, k) /\ k.at = c /\ k.before = c
            BY ONLY <6>1, <6>2, <6>3, GoodChild
          <6>5. ASSUME NEW y, CallEnds(m, k, y)
                PROVE  KidsLinked(m, p, s, y, i)
            BY ONLY <6>1, <6>2, <6>3, <6>5, GoodChildLinked
          <6>6. QED
            BY <6>4, <6>5
        <5>3. k \in D
          BY <5>2 DEF Ready
        <5>4. rank[k] < rank[l]
          <6>1. c \in Range(q) /\ c \in Places
            BY <2>4, <4>1, KidFacts DEF Range
          <6>2. depth[p] < depth[c] /\ depth[p] \in Nat /\ depth[c] \in Nat /\ depth[l.at] \in Nat
            BY <1>1, <2>4, <6>1 DEF Depths
          <6>3. depth[l.at] < depth[c]
            BY <2>3, <2>7, <6>2
          <6>4. rank[k] = N - depth[c] /\ rank[l] = N - depth[l.at]
            BY <1>2, <5>2, <5>3
          <6>5. QED
            BY <6>2, <6>3, <6>4
        <5>5. CallEnds(m, k, LinkEntry(m, k))
          BY <1>3, <5>2, <5>3, <5>4
        <5>6. KidsLinked(m, p, s, g[i], i)
          BY <2>2, <5>1, <5>2, <5>3, <5>5
        <5>7. QED
          BY <4>1, <5>6
      <4>5. QED
        BY <4>3, <4>4
    <3>9. \A i \in 0 .. n : i \in T
      <4> HIDE DEF T
      <4>1. QED
        BY <2>5, <3>7, <3>8, PrefixInduction
    <3>10. KidsLinked(m, p, s, r, n)
      BY <2>5, <3>4, <3>9
    <3>11. /\ r \in D /\ Extends(m, p, s, r.list) /\ NotAfter(r.list, p, r.at)
           /\ \A x \in New(s, r.list) : Complete(m, r.list, x)
           /\ \A j \in DOMAIN q : q[j] \notin m.bad => q[j] \in Range(r.list)
           /\ \A j, k \in DOMAIN q : j < k /\ q[j] \notin m.bad /\ q[k] \notin m.bad
                 => Before(r.list, q[j], q[k])
      <4>1. \A j \in DOMAIN q : j <= n
        BY <2>5
      <4> HIDE DEF s
      <4>2. QED
        BY <3>10, <4>1 DEF KidsLinked
    <3>12. Complete(m, r.list, p)
      <4>1. Range(q) \ m.bad \subseteq Range(r.list)
        BY <3>11 DEF Range
      <4>2. QED
        BY <3>11, <4>1 DEF Complete
    <3>13. Extends(m, l.at, l.list, r.list)
      BY <2>3, <2>7, <3>11, ExtendsTransitive
    <3>14. NotAfter(r.list, l.at, r.at)
      <4>1. NotAfter(s, l.at, p)
        BY <2>3, <2>4, <2>7 DEF New, NotAfter
      <4>2. NotAfter(r.list, l.at, p)
        BY <3>11, <4>1, ExtendsKeeps
      <4>3. r.list \in Seq(Places) /\ IsInjective(r.list)
        BY <3>11, ListFacts DEF Extends
      <4>4. QED
        BY <3>11, <4>2, <4>3, NotAfterTransitive
    <3>15. ASSUME NEW x \in New(l.list, r.list) \cup {l.at}
           PROVE  Complete(m, r.list, x)
      <4>1. CASE x \in New(s, r.list)
        BY <3>11, <4>1
      <4>2. CASE x \in New(l.list, s) \cup {l.at}
        <5>1. x = p \/ Complete(m, s, x)
          BY <2>3, <4>2
        <5>2. QED
          BY <3>11, <3>12, <5>1, ExtendsKeeps
      <4>3. QED
        BY <3>15, <4>1, <4>2 DEF New
    <3>16. CallEnds(m, l, r)
      BY <3>11, <3>13, <3>14, <3>15 DEF CallEnds
    <3>17. QED
      BY <3>16 DEF r
  <2>8. n <= 1 \/ n >= 2
    <3> HIDE DEF n
    <3>1. QED
      BY <2>5
  <2>9. QED
    BY <2>6, <2>7, <2>8
<1>4. \A l \in D : (\A y \in D : rank[y] < rank[l] => y \in S) => l \in S
  BY <1>3
<1>5. D \subseteq S
  <2> HIDE DEF S, D
  <2>1. QED
    BY <1>2, <1>4, RankInduction
<1>6. QED
  BY <1>5

\* What save_file links, in the order of the file.
SaveOrder(m, s) ==
  /\ s \in Seq(Places) /\ s # <<>> /\ s[1] = Root /\ IsInjective(s)
  /\ Range(s) = Kept(m)
  /\ \A x \in Range(s) \ {Root} :
       /\ x \in Entries \ m.bad
       /\ \E p \in Range(s) : x \in Range(m.kids[p]) /\ Before(s, p, x)
  /\ \A x \in Range(s) : Complete(m, s, x)

\* What StartSave links from the root.
LEMMA SaveOrders ==
  ASSUME NEW m, IsTree(m), NEW start,
         start = [list |-> <<Root>>, at |-> Root, before |-> Root, ret |-> "ok"]
  PROVE  SaveOrder(m, LinkEntry(m, start).list) /\ LinkEntry(m, start) \in Lists(m)
<1> DEFINE r == LinkEntry(m, start)
           s == r.list
           b == <<Root>>
<1>1. /\ b \in Seq(Places) /\ b[1] = Root /\ DOMAIN b = {1} /\ Len(b) = 1
      /\ Range(b) = {Root} /\ IsInjective(b) /\ Root \in Places
  <2>1. Root \in Places
    BY DataFileAssumption DEF Root, Places
  <2>2. b \in Seq(Places) /\ b[1] = Root /\ DOMAIN b = {1} /\ Len(b) = 1
    BY <2>1
  <2> HIDE DEF b
  <2>3. Range(b) = {Root} /\ IsInjective(b)
    BY <2>2 DEF Range, IsInjective
  <2>4. QED
    BY <2>1, <2>2, <2>3
<1>2. /\ start.list = b /\ start.at = Root /\ start.before = Root
      /\ start \in [list : Seq(Places), at : Places, before : Places, ret : {"ok", "some bad"}]
  BY <1>1
<1> HIDE DEF b
<1>3. start \in Lists(m)
  BY <1>1, <1>2 DEF Lists
<1>4. Ready(m, start)
  <2>1. UpClosed(m, b)
    BY <1>1 DEF UpClosed
  <2>2. Range(m.kids[Root]) \cap Range(b) = {}
    BY <1>1, KidFacts
  <2>3. QED
    BY <1>1, <1>2, <1>3, <2>1, <2>2 DEF Ready
<1>5. CallEnds(m, start, r)
  BY <1>3, <1>4, CallsEnd
<1> HIDE DEF r
<1>6. /\ r \in Lists(m) /\ Extends(m, Root, b, s)
      /\ \A x \in New(b, s) \cup {Root} : Complete(m, s, x)
  BY <1>2, <1>5 DEF CallEnds
<1>7. s \in Seq(Places) /\ Range(s) \subseteq Places
  BY <1>6, ListFacts
<1> HIDE DEF s
<1>8. /\ IsInjective(s) /\ s[1] = Root /\ Root \in Range(s) /\ New(b, s) = Range(s) \ {Root}
      /\ \A x \in New(b, s) : /\ x \in Entries \ m.bad
                              /\ \E p \in New(b, s) \cup {Root} :
                                   x \in Range(m.kids[p]) /\ Before(s, p, x)
  <2>1. New(b, s) = Range(s) \ {Root}
    BY <1>1 DEF New
  <2>2. QED
    BY <1>1, <1>6, <2>1 DEF Extends
<1>9. \A x \in Range(s) \ {Root} :
        /\ x \in Entries \ m.bad
        /\ \E p \in Range(s) : x \in Range(m.kids[p]) /\ Before(s, p, x)
  BY <1>8
<1>10. \A x \in Range(s) : Complete(m, s, x)
  BY <1>6, <1>8
<1>11. DOMAIN s = 1 .. Len(s) /\ Len(s) \in Nat /\ s # <<>>
  <2>1. DOMAIN s = 1 .. Len(s) /\ Len(s) \in Nat
    BY <1>7
  <2>2. s # <<>>
    BY <1>8 DEF Range
  <2>3. QED
    BY <2>1, <2>2
<1>12. Kept(m) \subseteq Range(s)
  <2>1. \A p \in Range(s) : Range(m.kids[p]) \ m.bad \subseteq Range(s)
    BY <1>10 DEF Complete
  <2>2. QED
    BY <1>7, <1>8, <2>1 DEF Kept
<1>13. Range(s) \subseteq Kept(m)
  <2>1. ASSUME NEW S \in SUBSET Places, Root \in S,
               \A p \in S : Range(m.kids[p]) \ m.bad \subseteq S
        PROVE  Range(s) \subseteq S
    <3> DEFINE U == {i \in 1 .. Len(s) : s[i] \notin S}
    <3>1. SUFFICES ASSUME U # {}
                   PROVE  FALSE
      BY <1>11 DEF Range
    <3>2. U \subseteq Nat
      OBVIOUS
    <3>3. PICK i \in U : \A j \in U : i <= j
      <4> HIDE DEF U
      <4>1. QED
        BY <3>1, <3>2, LeastElement
    <3>4. i \in 1 .. Len(s) /\ s[i] \notin S /\ s[i] \in Range(s) /\ s[i] # Root
      BY <1>11, <2>1 DEF Range
    <3>5. PICK p \in Range(s) : s[i] \in Range(m.kids[p]) /\ Before(s, p, s[i])
      BY <1>9, <3>4
    <3>6. s[i] \notin m.bad
      BY <1>9, <3>4
    <3>7. PICK j, k \in DOMAIN s : j < k /\ s[j] = p /\ s[k] = s[i]
      BY <3>5 DEF Before
    <3>8. k = i
      BY <1>8, <1>11, <3>4, <3>7 DEF IsInjective
    <3>9. j \in 1 .. Len(s) /\ ~(i <= j)
      BY <1>11, <3>7, <3>8
    <3>10. p \in S
      BY <3>3, <3>7, <3>9
    <3>11. QED
      BY <2>1, <3>4, <3>5, <3>6, <3>10
  <2>2. QED
    BY <1>7, <2>1 DEF Kept
<1>14. SaveOrder(m, s)
  BY <1>7, <1>8, <1>9, <1>10, <1>11, <1>12, <1>13 DEF SaveOrder
<1>15. QED
  BY <1>6, <1>14 DEF s, r

-----------------------------------------------------------------------------
(* What a saved list and a read list have in common                        *)

\* The steps of Only.
LEMMA OnlySteps ==
  ASSUME NEW Y, NEW q \in Seq(Y), NEW set
  PROVE  \E f \in [0 .. Len(q) -> Seq(Y)] :
           /\ f[0] = <<>> /\ f[Len(q)] = Only(q, set)
           /\ \A k \in 1 .. Len(q) :
                f[k] = IF q[k] \in set THEN Append(f[k - 1], q[k]) ELSE f[k - 1]
<1> DEFINE n == Len(q)
<1>1. PICK f \in [0 .. n -> Seq(Y)] :
        FoldSteps(f, <<>>, OnlyStep(Y, q, set), n) /\ f[n] = Only(q, set)
  BY OnlyTrace DEF HasSteps
<1>2. \A k \in 1 .. n :
        f[k] = IF q[k] \in set THEN Append(f[k - 1], q[k]) ELSE f[k - 1]
  <2>1. TAKE k \in 1 .. n
  <2>2. f[k] = OnlyStep(Y, q, set)[<<f[k - 1], k>>]
    BY <1>1 DEF FoldSteps
  <2>3. k - 1 \in 0 .. n
    OBVIOUS
  <2>4. f[k - 1] \in Seq(Y)
    BY <2>3
  <2>5. QED
    BY <2>2, <2>4 DEF OnlyStep
<1>3. f[0] = <<>>
  BY <1>1 DEF FoldSteps
<1>4. QED
  BY <1>1, <1>2, <1>3

\* Only looks at no more of a set than the members of the list.
LEMMA OnlySame ==
  ASSUME NEW Y, NEW q \in Seq(Y), NEW a, NEW b,
         \A x \in Range(q) : x \in a <=> x \in b
  PROVE  Only(q, a) = Only(q, b)
<1> DEFINE n == Len(q)
<1>1. PICK f \in [0 .. n -> Seq(Y)] :
        /\ f[0] = <<>> /\ f[n] = Only(q, a)
        /\ \A k \in 1 .. n : f[k] = IF q[k] \in a THEN Append(f[k - 1], q[k]) ELSE f[k - 1]
  BY OnlySteps
<1>2. PICK g \in [0 .. n -> Seq(Y)] :
        /\ g[0] = <<>> /\ g[n] = Only(q, b)
        /\ \A k \in 1 .. n : g[k] = IF q[k] \in b THEN Append(g[k - 1], q[k]) ELSE g[k - 1]
  BY OnlySteps
<1>3. n \in Nat /\ \A k \in 1 .. n : q[k] \in a <=> q[k] \in b
  BY DEF Range
<1> DEFINE S == {k \in 0 .. n : f[k] = g[k]}
<1>4. 0 \in S
  BY <1>1, <1>2, <1>3
<1>5. ASSUME NEW k \in 1 .. n, k - 1 \in S
      PROVE  k \in S
  BY <1>1, <1>2, <1>3, <1>5
<1>6. \A k \in 0 .. n : k \in S
  <2> HIDE DEF S, n
  <2>1. QED
    BY <1>3, <1>4, <1>5, PrefixInduction
<1>7. QED
  BY <1>1, <1>2, <1>3, <1>6

\* One more member, which comes behind all that are kept.
LEMMA OnlyLast ==
  ASSUME NEW Y, NEW q \in Seq(Y), IsInjective(q), NEW set, NEW i \in 1 .. Len(q),
         NEW e, e = q[i], e \notin set, \A j \in 1 .. Len(q) : j > i => q[j] \notin set
  PROVE  Only(q, set \cup {e}) = Append(Only(q, set), e)
<1> DEFINE n == Len(q)
           all == set \cup {e}
<1>0. q \in Seq(Y)
  OBVIOUS
<1>1. PICK f \in [0 .. n -> Seq(Y)] :
        /\ f[0] = <<>> /\ f[n] = Only(q, set)
        /\ \A k \in 1 .. n : f[k] = IF q[k] \in set THEN Append(f[k - 1], q[k]) ELSE f[k - 1]
  BY ONLY <1>0, OnlySteps
<1>2. PICK g \in [0 .. n -> Seq(Y)] :
        /\ g[0] = <<>> /\ g[n] = Only(q, all)
        /\ \A k \in 1 .. n : g[k] = IF q[k] \in all THEN Append(g[k - 1], q[k]) ELSE g[k - 1]
  <2> HIDE DEF all
  <2>1. QED
    BY ONLY <1>0, OnlySteps
<1>3. /\ n \in Nat /\ \A k \in 1 .. n : q[k] = e => k = i
      /\ \A k \in 1 .. n : k > i => q[k] \notin set
  BY DEF IsInjective
<1>4. \A k \in 1 .. n : q[k] \in all <=> (q[k] \in set \/ k = i)
  BY <1>3
<1> HIDE DEF all
<1> DEFINE S == {k \in 0 .. n : IF k < i THEN f[k] = g[k] ELSE g[k] = Append(f[k], e)}
<1>5. 0 \in S
  BY <1>1, <1>2, <1>3
<1>6. ASSUME NEW k \in 1 .. n, k - 1 \in S
      PROVE  k \in S
  <2>1. /\ f[k] = IF q[k] \in set THEN Append(f[k - 1], q[k]) ELSE f[k - 1]
        /\ g[k] = IF q[k] \in all THEN Append(g[k - 1], q[k]) ELSE g[k - 1]
    BY <1>1, <1>2
  <2>2. CASE k < i
    <3>1. k - 1 < i /\ k # i
      BY <2>2
    <3>2. f[k - 1] = g[k - 1]
      BY <1>6, <3>1
    <3>3. f[k] = g[k]
      BY <1>4, <2>1, <3>1, <3>2
    <3>4. QED
      BY <2>2, <3>3
  <2>3. CASE k = i
    <3>1. f[k - 1] = g[k - 1]
      BY <1>6, <2>3
    <3>2. g[k] = Append(g[k - 1], e) /\ f[k] = f[k - 1]
      BY <1>4, <2>1, <2>3
    <3>3. QED
      BY <2>3, <3>1, <3>2
  <2>4. CASE k > i
    <3>1. ~(k - 1 < i) /\ k # i /\ ~(k < i)
      BY <2>4
    <3>2. g[k - 1] = Append(f[k - 1], e)
      BY <1>6, <3>1
    <3>3. q[k] \notin set /\ q[k] \notin all
      BY <1>3, <1>4, <2>4, <3>1
    <3>4. QED
      BY <2>1, <3>1, <3>2, <3>3
  <2>5. k < i \/ k = i \/ k > i
    OBVIOUS
  <2> HIDE DEF S
  <2>6. QED
    BY <2>2, <2>3, <2>4, <2>5
<1>7. \A k \in 0 .. n : k \in S
  <2> HIDE DEF S, n
  <2>1. QED
    BY <1>3, <1>5, <1>6, PrefixInduction
<1>8. ~(n < i) /\ n \in 0 .. n
  BY <1>3
<1>9. QED
  BY <1>1, <1>2, <1>7, <1>8 DEF all

\* Of an empty part nothing is kept.
LEMMA OnlyNone ==
  ASSUME NEW Y, NEW q \in Seq(Y), NEW set, Range(q) \cap set = {}
  PROVE  Only(q, set) = <<>>
<1> DEFINE r == Only(q, set)
<1>1. r \in Seq(Y) /\ Range(r) = {}
  BY OnlyIs
<1> HIDE DEF r
<1>2. r = <<>>
  <2>1. \A k \in 1 .. Len(r) : r[k] \in Range(r)
    BY <1>1 DEF Range
  <2>2. Len(r) = 0
    BY <1>1, <2>1
  <2>3. QED
    BY <1>1, <2>2
<1>3. QED
  BY <1>2 DEF r

\* The checksums of a section in which no kind is left out are read as they were.
LEMMA ReadSumsFacts ==
  ASSUME NEW d \in Data
  PROVE  /\ ReadSums(d) \in Data /\ ReadSums(d).loads = d.loads /\ ReadSums(d).used = d.used
         /\ NoGap(d) => SameSums(ReadSums(d), d)
<1> DEFINE Nth(k) == Cardinality({s \in d.used : s < k})
           from == [s \in Slots |-> {k \in d.used : Nth(k) = s}]
           bytes == [s \in Slots |-> IF from[s] = {} THEN 0
                                     ELSE d.bytes[CHOOSE k \in from[s] : TRUE]]
           str == [s \in Slots |-> IF s \in from[s] THEN d.bytes[s] ELSE 0]
           r == [d EXCEPT !.bytes = bytes, !.str = str]
<1>1. ReadSums(d) = r
  BY DEF ReadSums
<1>2. d.used \subseteq Slots /\ d.bytes \in [Slots -> Sums] /\ d.str \in [Slots -> Sums]
  BY DEF Data
<1>3. \A s \in Slots : from[s] \subseteq d.used
  OBVIOUS
<1>4. bytes \in [Slots -> Sums] /\ str \in [Slots -> Sums]
  <2> HIDE DEF from
  <2>1. 0 \in Sums
    BY DEF Sums
  <2>2. \A s \in Slots : from[s] # {} => d.bytes[CHOOSE k \in from[s] : TRUE] \in Sums
    <3>1. TAKE s \in Slots
    <3>2. HAVE from[s] # {}
    <3>3. (CHOOSE k \in from[s] : TRUE) \in from[s]
      BY <3>2
    <3>4. QED
      BY <1>2, <1>3, <3>3
  <2>3. QED
    BY <1>2, <2>1, <2>2
<1>5. ASSUME NoGap(d)
      PROVE  \A s \in d.used : bytes[s] = d.bytes[s] /\ str[s] = d.bytes[s]
  <2>1. \A k \in d.used : Nth(k) = k
    <3>1. TAKE k \in d.used
    <3>2. k \in 0 .. 2 /\ 0 .. k \subseteq d.used /\ d.used \subseteq 0 .. 2
      BY <1>2, <1>5 DEF NoGap, Slots
    <3>3. {s \in d.used : s < k} = 0 .. k - 1
      BY <3>2
    <3>4. Cardinality(0 .. k - 1) = k
      <4>1. 0 \in Int /\ k - 1 \in Int
        BY <3>2
      <4>2. Cardinality(0 .. k - 1) = IF 0 > k - 1 THEN 0 ELSE (k - 1) - 0 + 1
        BY <4>1, FS_Interval
      <4>3. QED
        BY <3>2, <4>2
    <3>5. QED
      BY <3>3, <3>4
  <2> HIDE DEF Nth
  <2>2. \A s \in Slots : from[s] = d.used \cap {s}
    BY <2>1
  <2>3. \A s \in Slots : from[s] # {} => (CHOOSE k \in from[s] : TRUE) = s
    <3>1. TAKE s \in Slots
    <3>2. HAVE from[s] # {}
    <3>3. (CHOOSE k \in from[s] : TRUE) \in from[s]
      BY <3>2
    <3>4. QED
      BY <2>2, <3>3
  <2> HIDE DEF from
  <2>4. QED
    BY <1>2, <2>2, <2>3
<1> HIDE DEF bytes, str
<1>6. r \in Data /\ r.loads = d.loads /\ r.used = d.used
  BY <1>4 DEF Data
<1>7. NoGap(d) => SameSums(r, d)
  BY <1>2, <1>5, <1>6 DEF SameSums, Data
<1>8. QED
  BY <1>1, <1>6, <1>7

-----------------------------------------------------------------------------
(* The shape of a database in memory                                       *)

\* A tree in which an entry that is not in use has no children.
Shape(m) ==
  /\ IsTree(m)
  /\ \A e \in Entries : e \notin InUse(m) => m.kids[e] = <<>>

\* A place is the root or an entry, and not both.
LEMMA PlaceFacts ==
  /\ Root \in Places /\ Root \notin Entries /\ Entries \subseteq Places
  /\ \A x \in Places : x = Root \/ x \in Entries
BY DataFileAssumption DEF Root, Places, Entries

\* An entry is in use if it is a child of some place.
LEMMA InUseFacts ==
  ASSUME NEW m, m.kids \in [Places -> Seq(Entries)]
  PROVE  /\ InUse(m) \subseteq Entries
         /\ \A x : x \in InUse(m) <=> \E p \in Places : x \in Range(m.kids[p])
<1>1. \A p \in Places : Range(m.kids[p]) \subseteq Entries
  <2>1. TAKE p \in Places
  <2>2. m.kids[p] \in Seq(Entries)
    OBVIOUS
  <2>3. QED
    BY <2>2 DEF Range
<1>2. \A x : x \in InUse(m) <=> \E p \in Places : x \in Range(m.kids[p])
  BY DEF InUse
<1>3. QED
  BY <1>1, <1>2

\* An entry has one place if no list repeats one and no two lists share one.
LEMMA OneParentIs ==
  ASSUME NEW m, m.kids \in [Places -> Seq(Entries)],
         \A p \in Places : IsInjective(m.kids[p]),
         \A p, q \in Places : \A x : x \in Range(m.kids[p]) /\ x \in Range(m.kids[q]) => p = q
  PROVE  OneParent(m)
<1>1. SUFFICES ASSUME NEW p \in Places, NEW q \in Places, NEW i \in DOMAIN m.kids[p],
                      NEW j \in DOMAIN m.kids[q], m.kids[p][i] = m.kids[q][j]
               PROVE  p = q /\ i = j
  BY DEF OneParent
<1>2. m.kids[p][i] \in Range(m.kids[p]) /\ m.kids[q][j] \in Range(m.kids[q])
  BY DEF Range
<1>3. p = q
  BY <1>1, <1>2
<1>4. QED
  BY <1>1, <1>3 DEF IsInjective

\* A new entry below one that is in use.
LEMMA ShapeAdds ==
  ASSUME NEW m, Shape(m), NEW p \in InUse(m) \cup {Root}, NEW e \in Entries \ InUse(m),
         NEW w, w.kids = [m.kids EXCEPT ![p] = Append(@, e)]
  PROVE  Shape(w) /\ InUse(w) = InUse(m) \cup {e}
<1>1. IsTree(m) /\ m.kids \in [Places -> Seq(Entries)] /\ InUse(m) \subseteq Entries
  BY InUseFacts DEF Shape, IsTree
<1>2. p \in Places /\ e \in Places /\ e \in Entries /\ e \notin InUse(m) /\ p # e
  BY <1>1, PlaceFacts
<1>3. m.kids[e] = <<>>
  BY <1>2 DEF Shape
<1>4. /\ w.kids[p] = Append(m.kids[p], e) /\ w.kids[p] \in Seq(Entries)
      /\ Range(w.kids[p]) = Range(m.kids[p]) \cup {e} /\ IsInjective(w.kids[p])
      /\ \A q \in Places : q # p => w.kids[q] = m.kids[q]
  <2>1. w.kids[p] = Append(m.kids[p], e) /\ \A q \in Places : q # p => w.kids[q] = m.kids[q]
    BY <1>1, <1>2
  <2>2. m.kids[p] \in Seq(Entries) /\ IsInjective(m.kids[p])
    BY <1>1, <1>2, KidFacts
  <2>3. e \notin Range(m.kids[p])
    BY <1>1, <1>2, InUseFacts
  <2> DEFINE s == m.kids[p]
             t == Append(s, e)
  <2>4. s \in Seq(Entries) /\ IsInjective(s) /\ e \notin Range(s)
    BY <2>2, <2>3
  <2> HIDE DEF s
  <2>5. t \in Seq(Entries) /\ Range(t) = Range(s) \cup {e} /\ IsInjective(t)
    BY <1>2, <2>4, AppendFacts
  <2>6. w.kids[p] = t
    BY <2>1 DEF s
  <2> HIDE DEF t
  <2>7. QED
    BY <2>1, <2>5, <2>6 DEF s, t
<1>5. w.kids \in [Places -> Seq(Entries)]
  <2>1. \A q \in Places : w.kids[q] \in Seq(Entries)
    BY <1>1, <1>4
  <2>2. w.kids = [q \in Places |-> w.kids[q]]
    BY <1>1
  <2>3. QED
    BY <2>1, <2>2
<1>6. OneParent(w)
  <2>1. \A q \in Places : IsInjective(w.kids[q])
    BY <1>1, <1>4, KidFacts
  <2>2. \A q \in Places : e \notin Range(m.kids[q])
    BY <1>1, <1>2, InUseFacts
  <2>3. \A q, r \in Places : \A x : x \in Range(w.kids[q]) /\ x \in Range(w.kids[r]) => q = r
    <3>1. \A q, r \in Places : \A x : x \in Range(m.kids[q]) /\ x \in Range(m.kids[r]) => q = r
      <4>1. TAKE q, r \in Places
      <4>2. Range(m.kids[q]) \cap Range(m.kids[r]) # {} => q = r
        BY <1>1, KidFacts
      <4>3. QED
        BY <4>2
    <3>2. TAKE q, r \in Places
    <3>3. TAKE x
    <3>4. HAVE x \in Range(w.kids[q]) /\ x \in Range(w.kids[r])
    <3>5. CASE x = e
      <4>1. q = p /\ r = p
        BY <1>4, <2>2, <3>4, <3>5
      <4>2. QED
        BY <4>1
    <3>6. CASE x # e
      <4>1. x \in Range(m.kids[q]) /\ x \in Range(m.kids[r])
        BY <1>4, <3>4, <3>6
      <4>2. QED
        BY <3>1, <4>1
    <3>7. QED
      BY <3>5, <3>6
  <2>4. QED
    BY <1>5, <2>1, <2>3, OneParentIs
<1>7. \E N \in Nat : \E depth \in [Places -> 0 .. N] : Depths(w, N, depth)
  <2>0. PICK N \in Nat : \E depth \in [Places -> 0 .. N] : Depths(m, N, depth)
    BY <1>1 DEF IsTree
  <2>1. PICK depth \in [Places -> 0 .. N] : Depths(m, N, depth)
    BY <2>0
  <2> DEFINE deep == [depth EXCEPT ![e] = depth[p] + 1]
  <2>2. /\ \A q \in Places : depth[q] \in 0 .. N
        /\ deep[e] = depth[p] + 1 /\ \A q \in Places : q # e => deep[q] = depth[q]
        /\ deep \in [Places -> 0 .. N + 1]
    <3>1. \A q \in Places : depth[q] \in 0 .. N
      OBVIOUS
    <3>2. depth[p] + 1 \in 0 .. N + 1 /\ \A q \in Places : depth[q] \in 0 .. N + 1
      BY <1>2, <3>1
    <3>3. QED
      BY <1>2, <3>1, <3>2
  <2> HIDE DEF deep
  <2>3. ASSUME NEW q \in Places, NEW c \in Range(w.kids[q])
        PROVE  deep[q] < deep[c]
    <3>1. CASE c = e
      <4>1. q = p
        BY <1>1, <1>2, <1>4, <2>3, <3>1, InUseFacts
      <4>2. QED
        BY <1>2, <2>2, <3>1, <4>1
    <3>2. CASE c # e
      <4>1. c \in Range(m.kids[q])
        BY <1>4, <2>3, <3>2
      <4>2. q # e
        BY <1>3, <4>1 DEF Range
      <4>3. depth[q] < depth[c] /\ c \in Places
        BY <1>1, <2>1, <4>1, KidFacts DEF Depths
      <4>4. QED
        BY <2>2, <3>2, <4>2, <4>3
    <3>3. QED
      BY <3>1, <3>2
  <2>4. Depths(w, N + 1, deep)
    BY <2>2, <2>3 DEF Depths
  <2>5. N + 1 \in Nat /\ deep \in [Places -> 0 .. N + 1]
    BY <2>2
  <2>6. QED
    BY <2>4, <2>5
<1>8. InUse(w) = InUse(m) \cup {e}
  <2>1. \A x : x \in InUse(w) <=> \E q \in Places : x \in Range(w.kids[q])
    BY <1>5, InUseFacts
  <2>2. \A x : x \in InUse(m) <=> \E q \in Places : x \in Range(m.kids[q])
    BY <1>1, InUseFacts
  <2>3. QED
    BY <1>2, <1>4, <2>1, <2>2
<1>9. \A x \in Entries : x \notin InUse(w) => w.kids[x] = <<>>
  <2>1. TAKE x \in Entries
  <2>2. HAVE x \notin InUse(w)
  <2>3. x \notin InUse(m) /\ x # e
    BY <1>8, <2>2
  <2>4. x # p
    BY <2>3, PlaceFacts
  <2>5. w.kids[x] = m.kids[x] /\ m.kids[x] = <<>>
    BY <1>4, <2>3, <2>4, PlaceFacts DEF Shape
  <2>6. QED
    BY <2>5
<1>10. QED
  BY <1>5, <1>6, <1>7, <1>8, <1>9 DEF Shape, IsTree

\* w has what is left of m without e, which has no children; k is then in the place of
\* the children of p.
CutOff(m, p, e, k, w) ==
  /\ Shape(m) /\ p \in Places /\ e \in Range(m.kids[p]) /\ m.kids[e] = <<>>
  /\ k = Only(m.kids[p], Entries \ {e}) /\ w.kids = [m.kids EXCEPT ![p] = k]

\* An entry that has no children goes.
LEMMA ShapeCuts ==
  ASSUME NEW m, NEW p, NEW e, NEW k, NEW w, CutOff(m, p, e, k, w)
  PROVE  /\ Shape(w)
         /\ \A x : x \in InUse(w) <=> x \in InUse(m) /\ x # e
         /\ \A x : x \in Range(w.kids[p]) <=> x \in Range(m.kids[p]) /\ x # e
<1>0. /\ Shape(m) /\ p \in Places /\ e \in Range(m.kids[p]) /\ m.kids[e] = <<>>
      /\ k = Only(m.kids[p], Entries \ {e}) /\ w.kids = [m.kids EXCEPT ![p] = k]
  BY DEF CutOff
<1> USE <1>0
<1>1. IsTree(m) /\ m.kids \in [Places -> Seq(Entries)] /\ InUse(m) \subseteq Entries
  BY InUseFacts DEF Shape, IsTree
<1>2. /\ e \in Entries /\ e \in Places /\ p # e
      /\ m.kids[p] \in Seq(Entries) /\ IsInjective(m.kids[p]) /\ Range(m.kids[p]) \subseteq Entries
  BY <1>1, KidFacts
<1>3. /\ w.kids[p] \in Seq(Entries)
      /\ Range(w.kids[p]) = Range(m.kids[p]) \ {e} /\ IsInjective(w.kids[p])
      /\ \A q \in Places : q # p => w.kids[q] = m.kids[q]
  <2> DEFINE s == m.kids[p]
             set == Entries \ {e}
             t == Only(s, set)
  <2>1. w.kids[p] = t /\ \A q \in Places : q # p => w.kids[q] = m.kids[q]
    BY <1>1
  <2>2. s \in Seq(Entries) /\ IsInjective(s) /\ Range(s) \subseteq Entries
    BY <1>2
  <2> HIDE DEF s, set
  <2>3. t \in Seq(Entries) /\ Range(t) = Range(s) \cap set /\ IsInjective(t)
    BY <2>2, OnlyIs
  <2> HIDE DEF t
  <2>4. Range(t) = Range(s) \ {e}
    BY <2>2, <2>3 DEF set
  <2>5. QED
    BY <2>1, <2>3, <2>4 DEF s
<1>4. \A q \in Places : Range(w.kids[q]) \subseteq Range(m.kids[q])
  BY <1>3
<1>5. w.kids \in [Places -> Seq(Entries)]
  <2>1. \A q \in Places : w.kids[q] \in Seq(Entries)
    BY <1>1, <1>3
  <2>2. w.kids = [q \in Places |-> w.kids[q]]
    BY <1>1
  <2>3. QED
    BY <2>1, <2>2
<1>6. OneParent(w)
  <2>1. \A q \in Places : IsInjective(w.kids[q])
    BY <1>1, <1>3, KidFacts
  <2>2. \A q, r \in Places : \A x : x \in Range(w.kids[q]) /\ x \in Range(w.kids[r]) => q = r
    <3>1. TAKE q, r \in Places
    <3>2. Range(m.kids[q]) \cap Range(m.kids[r]) # {} => q = r
      BY <1>1, KidFacts
    <3>3. QED
      BY <1>4, <3>2
  <2>3. QED
    BY <1>5, <2>1, <2>2, OneParentIs
<1>7. \E N \in Nat : \E depth \in [Places -> 0 .. N] : Depths(w, N, depth)
  <2>0. PICK N \in Nat : \E depth \in [Places -> 0 .. N] : Depths(m, N, depth)
    BY <1>1 DEF IsTree
  <2>1. PICK depth \in [Places -> 0 .. N] : Depths(m, N, depth)
    BY <2>0
  <2>2. Depths(w, N, depth)
    BY <1>4, <2>1 DEF Depths
  <2>3. QED
    BY <2>2
<1>8. InUse(w) = InUse(m) \ {e}
  <2>1. \A x : x \in InUse(w) <=> \E q \in Places : x \in Range(w.kids[q])
    BY <1>5, InUseFacts
  <2>2. \A x : x \in InUse(m) <=> \E q \in Places : x \in Range(m.kids[q])
    BY <1>1, InUseFacts
  <2>3. \A q \in Places : q # p => e \notin Range(m.kids[q])
    <3>1. TAKE q \in Places
    <3>2. Range(m.kids[q]) \cap Range(m.kids[p]) # {} => q = p
      BY <1>1, KidFacts
    <3>3. QED
      BY <3>2
  <2>4. QED
    BY <1>3, <2>1, <2>2, <2>3
<1>9. \A x \in Entries : x \notin InUse(w) => w.kids[x] = <<>>
  <2>1. TAKE x \in Entries
  <2>2. HAVE x \notin InUse(w)
  <2>3. x \in Places /\ m.kids[x] = <<>>
    BY <1>8, <2>2, PlaceFacts DEF Shape
  <2>4. x # p
    BY <2>3 DEF Range
  <2>5. QED
    BY <1>3, <2>3, <2>4
<1>10. QED
  BY <1>3, <1>5, <1>6, <1>7, <1>8, <1>9 DEF Shape, IsTree

\* Where an entry is.
LEMMA ParentIs ==
  ASSUME NEW m, IsTree(m), NEW p \in Places, NEW e \in Range(m.kids[p])
  PROVE  (CHOOSE x \in Places : e \in Range(m.kids[x])) = p
<1> DEFINE q == CHOOSE x \in Places : e \in Range(m.kids[x])
<1>1. q \in Places /\ e \in Range(m.kids[q])
  OBVIOUS
<1> HIDE DEF q
<1>2. Range(m.kids[p]) \cap Range(m.kids[q]) # {} => p = q
  BY <1>1, KidFacts
<1>3. QED
  BY <1>1, <1>2 DEF q

\* A database as the commands make it: a tree.
Good(m) == m \in Db /\ m.bad \subseteq InUse(m) /\ Shape(m)

\* The fields of a database.
LEMMA DbFields ==
  ASSUME NEW m \in Db
  PROVE  /\ m.kids \in [Places -> Seq(Entries)] /\ m.spare \in [Places -> Nat]
         /\ m.bad \in SUBSET Entries /\ m.data \in [Entries -> Data]
         /\ m.own \in SUBSET Places /\ m.dangling \in BOOLEAN
BY DEF Db

\* The file data that del_entry leaves.
LEMMA PlainFacts == Plain \in Data
<1>1. 0 \in Sums
  BY DEF Sums
<1>2. QED
  BY <1>1 DEF Plain, Data

\* A database without entries.
LEMMA GoodEmpty ==
  ASSUME NEW m \in Db, m.kids = EmptyDb.kids, m.bad = {}
  PROVE  Good(m) /\ InUse(m) = {}
<1>1. \A p \in Places : m.kids[p] = <<>>
  BY DEF EmptyDb
<1>2. m.kids \in [Places -> Seq(Entries)]
  BY DbFields
<1>3. \A p \in Places : Range(m.kids[p]) = {} /\ IsInjective(m.kids[p])
  BY <1>1 DEF Range, IsInjective
<1>4. InUse(m) = {}
  BY <1>2, <1>3, InUseFacts
<1>5. OneParent(m)
  BY <1>2, <1>3, OneParentIs
<1>6. IsTree(m)
  <2> DEFINE depth == [p \in Places |-> 0]
  <2>1. depth \in [Places -> 0 .. 0]
    OBVIOUS
  <2> HIDE DEF depth
  <2>2. Depths(m, 0, depth)
    BY <1>3, <2>1 DEF Depths
  <2>3. \E N \in Nat : \E d \in [Places -> 0 .. N] : Depths(m, N, d)
    BY <2>1, <2>2
  <2>4. QED
    BY <1>2, <1>5, <2>3 DEF IsTree
<1>7. Shape(m)
  BY <1>1, <1>6, PlaceFacts DEF Shape
<1>8. QED
  BY <1>4, <1>7 DEF Good

\* The database of newdb has no entries.
LEMMA EmptyFacts == EmptyDb \in Db /\ Good(EmptyDb) /\ InUse(EmptyDb) = {}
<1>1. EmptyDb \in Db
  BY PlainFacts DEF EmptyDb, Db
<1>2. EmptyDb.bad = {}
  BY DEF EmptyDb
<1>3. QED
  BY <1>1, <1>2, GoodEmpty

\* What put_into_children_array changes.
LEMMA PutFacts ==
  ASSUME NEW m \in Db, NEW p \in Places, NEW e \in Entries, NEW moves \in BOOLEAN,
         NEW w, w = PutChild(m, p, e, moves)
  PROVE  /\ w \in Db /\ w.kids = [m.kids EXCEPT ![p] = Append(@, e)]
         /\ w.bad = m.bad /\ w.data = m.data
<1> DEFINE g == IF m.spare[p] = 0 THEN Grow(m, p, 1, moves) ELSE m
<1>1. /\ m.kids \in [Places -> Seq(Entries)] /\ m.spare \in [Places -> Nat]
      /\ m.bad \in SUBSET Entries /\ m.data \in [Entries -> Data]
      /\ m.own \in SUBSET Places /\ m.dangling \in BOOLEAN
  BY DbFields
<1>2. g \in Db /\ g.kids = m.kids /\ g.bad = m.bad /\ g.data = m.data /\ g.spare[p] \in Nat \ {0}
  <2>1. CASE m.spare[p] # 0
    BY <1>1, <2>1
  <2>2. CASE m.spare[p] = 0
    <3> DEFINE u == Grow(m, p, 1, moves)
    <3>1. u = [m EXCEPT !.spare[p] = @ + 1,
                        !.own = IF moves THEN @ \ {p} ELSE @,
                        !.dangling = @ \/ (moves /\ p \in m.own)]
      BY DEF Grow
    <3>2. g = u
      BY <2>2
    <3> HIDE DEF g, u
    <3>3. [m.spare EXCEPT ![p] = @ + 1] \in [Places -> Nat]
          /\ [m.spare EXCEPT ![p] = @ + 1][p] = m.spare[p] + 1
      BY <1>1
    <3>4. /\ u.kids = m.kids /\ u.bad = m.bad /\ u.data = m.data
          /\ u.spare = [m.spare EXCEPT ![p] = @ + 1]
          /\ u.own = (IF moves THEN m.own \ {p} ELSE m.own)
          /\ u \in Db
      BY <1>1, <3>1, <3>3 DEF Db
    <3>5. u.spare[p] \in Nat \ {0}
      BY <1>1, <3>3, <3>4
    <3>6. QED
      BY <3>2, <3>4, <3>5
  <2>3. QED
    BY <2>1, <2>2
<1>3. w = [g EXCEPT !.kids[p] = Append(@, e), !.spare[p] = @ - 1]
  BY DEF PutChild
<1> HIDE DEF g
<1>4. /\ g.kids \in [Places -> Seq(Entries)] /\ g.spare \in [Places -> Nat]
      /\ g.bad \in SUBSET Entries /\ g.data \in [Entries -> Data]
      /\ g.own \in SUBSET Places /\ g.dangling \in BOOLEAN
  BY <1>2, DbFields
<1>5. [g.spare EXCEPT ![p] = @ - 1] \in [Places -> Nat]
  <2>1. g.spare[p] - 1 \in Nat
    BY <1>2
  <2>2. QED
    BY <1>4, <2>1
<1>6. [g.kids EXCEPT ![p] = Append(@, e)] \in [Places -> Seq(Entries)]
  <2>1. Append(g.kids[p], e) \in Seq(Entries)
    BY <1>4
  <2>2. QED
    BY <1>4, <2>1
<1>7. /\ w.kids = [g.kids EXCEPT ![p] = Append(@, e)] /\ w.spare = [g.spare EXCEPT ![p] = @ - 1]
      /\ w.bad = g.bad /\ w.data = g.data /\ w.own = g.own /\ w.dangling = g.dangling
      /\ w = [kids |-> w.kids, spare |-> w.spare, bad |-> w.bad, data |-> w.data, own |-> w.own,
              dangling |-> w.dangling]
  BY <1>2, <1>3 DEF Db
<1>8. w \in Db
  BY <1>4, <1>5, <1>6, <1>7 DEF Db
<1>9. QED
  BY <1>2, <1>7, <1>8

\* A new entry with its file data.
LEMMA AddGood ==
  ASSUME NEW m, Good(m), NEW p \in InUse(m) \cup {Root}, NEW e \in Entries \ InUse(m),
         NEW w \in Db, w.kids = [m.kids EXCEPT ![p] = Append(@, e)],
         w.bad \subseteq m.bad \cup {e}
  PROVE  Good(w) /\ \A x : x \in InUse(w) <=> x \in InUse(m) \/ x = e
<1>1. m \in Db /\ Shape(m) /\ m.bad \subseteq InUse(m)
  BY DEF Good
<1>2. /\ p \in InUse(m) \cup {Root} /\ e \in Entries \ InUse(m)
      /\ w.kids = [m.kids EXCEPT ![p] = Append(@, e)]
  OBVIOUS
<1>3. Shape(w) /\ InUse(w) = InUse(m) \cup {e}
  BY ONLY <1>1, <1>2, ShapeAdds
<1>4. QED
  BY <1>1, <1>3 DEF Good

\* What del_entry changes.
LEMMA CutGood ==
  ASSUME NEW m, Good(m), NEW e \in InUse(m), m.kids[e] = <<>>, NEW w, w = Cut(m, e)
  PROVE  /\ Good(w) /\ InUse(w) = InUse(m) \ {e} /\ w.own \subseteq m.own
         /\ \A q \in Places : Range(w.kids[q]) = Range(m.kids[q]) \ {e}
<1> DEFINE p == CHOOSE x \in Places : e \in Range(m.kids[x])
           cut == [m.kids EXCEPT ![p] = Only(@, Entries \ {e})]
<1>1. /\ m \in Db /\ Shape(m) /\ m.bad \subseteq InUse(m)
      /\ m.kids \in [Places -> Seq(Entries)] /\ m.spare \in [Places -> Nat]
      /\ m.bad \in SUBSET Entries /\ m.data \in [Entries -> Data]
      /\ m.own \in SUBSET Places /\ m.dangling \in BOOLEAN /\ IsTree(m)
  BY DbFields DEF Good, Shape
<1>2. e \in Entries /\ e \in Places /\ p \in Places /\ e \in Range(m.kids[p])
  <2>1. e \in Entries /\ \E x \in Places : e \in Range(m.kids[x])
    BY <1>1, InUseFacts
  <2>2. QED
    BY <2>1, PlaceFacts
<1>3. w = [m EXCEPT !.kids[p] = Only(@, Entries \ {e}), !.spare[p] = @ + 1, !.spare[e] = 0,
                    !.bad = @ \ {e}, !.own = @ \ {e}, !.data[e] = Plain]
  BY DEF Cut
<1> HIDE DEF p
<1>4. cut \in [Places -> Seq(Entries)]
  <2> DEFINE s == m.kids[p]
             set == Entries \ {e}
  <2>1. s \in Seq(Entries)
    BY <1>1, <1>2
  <2> HIDE DEF s, set
  <2>2. Only(s, set) \in Seq(Entries)
    BY <2>1, OnlyIs
  <2>3. Only(m.kids[p], Entries \ {e}) \in Seq(Entries)
    BY <2>2 DEF s, set
  <2>4. QED
    BY <1>1, <2>3
<1>5. /\ w.kids = cut /\ w.bad = m.bad \ {e} /\ w.own = m.own \ {e}
      /\ w.data = [m.data EXCEPT ![e] = Plain] /\ w.dangling = m.dangling
      /\ w.spare = [[m.spare EXCEPT ![p] = @ + 1] EXCEPT ![e] = 0]
      /\ w = [kids |-> w.kids, spare |-> w.spare, bad |-> w.bad, data |-> w.data, own |-> w.own,
              dangling |-> w.dangling]
  BY <1>1, <1>3 DEF Db
<1> HIDE DEF cut
<1>6. w.data \in [Entries -> Data] /\ w.spare \in [Places -> Nat]
  <2>1. w.data \in [Entries -> Data]
    BY <1>1, <1>5, PlainFacts
  <2> DEFINE more == [m.spare EXCEPT ![p] = @ + 1]
  <2>2. more \in [Places -> Nat] /\ w.spare = [more EXCEPT ![e] = 0]
    BY <1>1, <1>2, <1>5
  <2> HIDE DEF more
  <2>3. w.spare \in [Places -> Nat]
    BY <1>2, <2>2
  <2>4. QED
    BY <2>1, <2>3
<1>7. w \in Db
  BY <1>1, <1>4, <1>5, <1>6 DEF Db
<1>8. w.kids = [m.kids EXCEPT ![p] = Only(@, Entries \ {e})]
  BY <1>5 DEF cut
<1>9. Shape(w) /\ InUse(w) = InUse(m) \ {e} /\ Range(w.kids[p]) = Range(m.kids[p]) \ {e}
  <2>1. m.kids[e] = <<>> /\ Shape(m) /\ p \in Places /\ e \in Range(m.kids[p])
    BY <1>1, <1>2
  <2> DEFINE k == Only(m.kids[p], Entries \ {e})
  <2>0. k = Only(m.kids[p], Entries \ {e}) /\ w.kids = [m.kids EXCEPT ![p] = k]
    BY <1>8
  <2> HIDE DEF k
  <2>2. /\ Shape(w)
        /\ \A x : x \in InUse(w) <=> x \in InUse(m) /\ x # e
        /\ \A x : x \in Range(w.kids[p]) <=> x \in Range(m.kids[p]) /\ x # e
    <3>1. CutOff(m, p, e, k, w)
      BY <2>0, <2>1 DEF CutOff
    <3>2. QED
      BY ONLY <3>1, ShapeCuts
  <2>3. QED
    BY <2>2
<1>10. Good(w)
  BY <1>1, <1>5, <1>7, <1>9 DEF Good
<1>11. \A q \in Places : Range(w.kids[q]) = Range(m.kids[q]) \ {e}
  <2>1. TAKE q \in Places
  <2>2. CASE q = p
    BY <1>9, <2>2
  <2>3. CASE q # p
    <3>1. w.kids[q] = m.kids[q]
      BY <1>1, <1>8, <2>3
    <3>2. Range(m.kids[q]) \cap Range(m.kids[p]) # {} => q = p
      BY <1>1, <1>2, KidFacts
    <3>3. e \notin Range(m.kids[q])
      BY <1>2, <2>3, <3>2
    <3>4. QED
      BY <3>1, <3>3
  <2>4. QED
    BY <2>2, <2>3
<1>12. QED
  BY <1>5, <1>9, <1>10, <1>11

-----------------------------------------------------------------------------
(* What load_file makes of a file                                          *)

\* An item that load_file can take for an entry is one that save_file has written.
Readable(x) ==
  x.kind = "entry" =>
    /\ x.id \in Entries /\ x.parent \in Places /\ x.kids \in Nat
    /\ x.data \in Data

\* What reading some entries can have come to.
Results == {l \in [ok : BOOLEAN, m : Db] : Good(l.m)}

\* An entry that load_file takes.
Takes(l, x) ==
  /\ l.ok /\ x.kind = "entry"
  /\ x.parent = Root \/ x.parent \in InUse(l.m)
  /\ x.id \notin InUse(l.m)
  /\ x.data.loads

\* What load_entry sets of an entry that it has put below its parent.
Recorded(w, e, n, own, c) == [w EXCEPT !.spare[e] = n, !.own = own, !.data[e] = c]

\* w: the database with a new entry e below p; m: with what its item says, too.
Loads(old, p, e, n, d, own, w, c, m) ==
  /\ Good(old) /\ p \in InUse(old) \cup {Root} /\ e \in Entries \ InUse(old)
  /\ n \in Nat /\ d \in Data /\ own \in SUBSET Places
  /\ w = PutChild(old, p, e, FALSE) /\ c = ReadSums(d) /\ m = Recorded(w, e, n, own, c)

\* m is old with a new entry e below p.
Took(old, p, e, c, m) ==
  /\ m.kids = [old.kids EXCEPT ![p] = Append(@, e)]
  /\ m.data = [old.data EXCEPT ![e] = c]
  /\ \A x : x \in InUse(m) <=> x \in InUse(old) \/ x = e

\* What an entry that is taken changes.
LEMMA TakenFacts ==
  ASSUME NEW old, NEW p, NEW e, NEW n, NEW d, NEW own, NEW w, NEW c, NEW m,
         Loads(old, p, e, n, d, own, w, c, m)
  PROVE  m \in Db /\ Good(m) /\ Took(old, p, e, c, m)
<1> DEFINE moves == FALSE
<1>0. /\ Good(old) /\ p \in InUse(old) \cup {Root} /\ e \in Entries \ InUse(old)
      /\ n \in Nat /\ d \in Data /\ own \in SUBSET Places
      /\ w = PutChild(old, p, e, moves) /\ c = ReadSums(d) /\ m = Recorded(w, e, n, own, c)
      /\ moves \in BOOLEAN
  BY DEF Loads
<1> HIDE DEF moves
<1>1. old \in Db /\ old.kids \in [Places -> Seq(Entries)]
  BY <1>0, DbFields DEF Good
<1>2. p \in Places /\ e \in Entries /\ e \in Places /\ moves \in BOOLEAN
  BY <1>0, <1>1, InUseFacts, PlaceFacts
<1>3. /\ w \in Db /\ w.kids = [old.kids EXCEPT ![p] = Append(@, e)]
      /\ w.bad = old.bad /\ w.data = old.data
  <2>1. w = PutChild(old, p, e, moves)
    BY <1>0
  <2>2. QED
    BY ONLY <1>1, <1>2, <2>1, PutFacts
<1>4. c \in Data
  BY <1>0, ReadSumsFacts
<1>5. /\ w.kids \in [Places -> Seq(Entries)] /\ w.spare \in [Places -> Nat]
      /\ w.bad \in SUBSET Entries /\ w.data \in [Entries -> Data]
      /\ w.own \in SUBSET Places /\ w.dangling \in BOOLEAN
  BY <1>3, DbFields
<1>6. m = [w EXCEPT !.spare[e] = n, !.own = own, !.data[e] = c]
  BY <1>0 DEF Recorded
<1>7. /\ m.kids = w.kids /\ m.bad = w.bad /\ m.data = [w.data EXCEPT ![e] = c]
      /\ m.spare = [w.spare EXCEPT ![e] = n] /\ m.own = own
      /\ m.dangling = w.dangling
      /\ m = [kids |-> m.kids, spare |-> m.spare, bad |-> m.bad, data |-> m.data,
              own |-> m.own, dangling |-> m.dangling]
  <2>1. w \in Db
    BY <1>3
  <2>2. QED
    BY ONLY <2>1, <1>6 DEF Db
<1>8. m.spare \in [Places -> Nat] /\ m.data \in [Entries -> Data]
  <2>1. n \in Nat
    BY <1>0
  <2>2. QED
    BY ONLY <1>2, <1>4, <1>5, <1>7, <2>1
<1>9. m \in Db
  <2>1. own \in SUBSET Places
    BY <1>0
  <2>2. QED
    BY ONLY <1>5, <1>7, <1>8, <2>1 DEF Db
<1>10. /\ m.kids = [old.kids EXCEPT ![p] = Append(@, e)]
       /\ m.data = [old.data EXCEPT ![e] = c] /\ m.bad \subseteq old.bad \cup {e}
  BY ONLY <1>3, <1>7
<1>11. Good(old) /\ p \in InUse(old) \cup {Root} /\ e \in Entries \ InUse(old)
  BY <1>0
<1>12. Good(m)
  BY ONLY <1>4, <1>9, <1>10, <1>11, AddGood
<1>13. \A x : x \in InUse(m) <=> x \in InUse(old) \/ x = e
  BY ONLY <1>4, <1>9, <1>10, <1>11, AddGood
<1>14. QED
  BY <1>9, <1>10, <1>12, <1>13 DEF Took

\* An item is taken or fails the load; either way what was read is a database.
LEMMA LoadEntryFacts ==
  ASSUME NEW l \in Results, NEW x, Readable(x), NEW r, r = LoadEntry(l, x)
  PROVE  /\ r \in Results
         /\ ~Takes(l, x) => ~r.ok
         /\ Takes(l, x) =>
              /\ r.ok
              /\ Took(l.m, x.parent, x.id, ReadSums(x.data), r.m)
<1>1. l \in [ok : BOOLEAN, m : Db] /\ Good(l.m) /\ l.m \in Db
  BY DEF Results
<1>2. CASE ~Takes(l, x)
  <2>1. r = [l EXCEPT !.ok = FALSE]
    BY <1>2 DEF LoadEntry, Takes
  <2>2. r \in [ok : BOOLEAN, m : Db] /\ r.m = l.m /\ ~r.ok
    BY <1>1, <2>1
  <2>3. QED
    BY <1>1, <1>2, <2>2 DEF Results
<1>3. CASE Takes(l, x)
  <2> DEFINE old == l.m
             p == x.parent
             e == x.id
             n == x.kids
             d == x.data
             moves == FALSE
             w == PutChild(old, p, e, moves)
             c == ReadSums(d)
             own == IF n > 0 THEN w.own \cup {e} ELSE w.own
             m == Recorded(w, e, n, own, c)
  <2>1. /\ e \in Entries /\ p \in Places /\ n \in Nat /\ d \in Data
        /\ p \in InUse(old) \cup {Root}
        /\ e \in Entries \ InUse(old) /\ e \in Places /\ l.ok
    BY <1>3, PlaceFacts DEF Readable, Takes
  <2>2. r = [l EXCEPT !.m = m]
    BY <1>3 DEF LoadEntry, Takes, Recorded
  <2>3. w = PutChild(old, p, e, moves) /\ c = ReadSums(d)
    OBVIOUS
  <2>4. m = Recorded(w, e, n, own, c)
    OBVIOUS
  <2>5. old \in Db /\ Good(old) /\ moves \in BOOLEAN
    BY <1>1
  <2> HIDE DEF w, m, c, n, d, e, p, old, moves
  <2>6. w \in Db
    BY ONLY <2>1, <2>3, <2>5, PutFacts
  <2>7. own \in SUBSET Places
    <3>1. w.own \in SUBSET Places
      BY <2>6, DbFields
    <3>2. QED
      BY <2>1, <3>1
  <2> HIDE DEF own
  <2>8. m \in Db /\ Good(m) /\ Took(old, p, e, c, m)
    <3>1. /\ Good(old) /\ p \in InUse(old) \cup {Root} /\ e \in Entries \ InUse(old)
          /\ n \in Nat /\ d \in Data /\ own \in SUBSET Places
          /\ moves \in BOOLEAN
      BY <2>1, <2>5, <2>7
    <3>2. w = PutChild(old, p, e, moves)
      BY <2>3
    <3>3. c = ReadSums(d)
      BY <2>3
    <3>4. m = Recorded(w, e, n, own, c)
      BY <2>4
    <3>0. Loads(old, p, e, n, d, own, w, c, m)
      BY <3>1, <3>2, <3>3, <3>4 DEF Loads, moves
    <3>5. m \in Db /\ Good(m)
      BY ONLY <3>0, TakenFacts
    <3>6. Took(old, p, e, c, m)
      BY ONLY <3>0, TakenFacts
    <3>7. QED
      BY <3>5, <3>6
  <2>9. r \in [ok : BOOLEAN, m : Db] /\ r.m = m /\ r.ok
    BY <1>1, <2>1, <2>2, <2>8
  <2>10. r \in Results
    BY <2>8, <2>9 DEF Results
  <2>11. QED
    BY <1>3, <2>3, <2>8, <2>9, <2>10 DEF p, e, c, d, old
<1>4. QED
  BY <1>2, <1>3

\* One step of the reading, and its steps.
LoadStep(q) ==
  [x \in Results \X (1 .. Len(q)) |-> LoadEntry(x[1], q[x[2]])]

\* The loop of load_file, step by step.
LEMMA LoadTrace ==
  ASSUME NEW Y, NEW q \in Seq(Y), NEW base \in Results,
         \A i \in 1 .. Len(q) : Readable(q[i])
  PROVE  HasSteps(Results, base, LoadStep(q), Len(q), FoldLeft(LoadEntry, base, q))
<1> DEFINE D == Results
           n == Len(q)
           F == LoadStep(q)
           Next1(r, i) == LoadEntry(r, q[i])
           Solves(g) == g = [s \in SUBSET (1 .. n) |->
                               IF s = {} THEN base
                               ELSE Next1(g[s \ {Max(s)}], Max(s))]
           iter == CHOOSE g : Solves(g)
<1>1. n \in Nat /\ DOMAIN q = 1 .. n
  OBVIOUS
<1>2. FoldLeft(LoadEntry, base, q) = iter[1 .. n]
  <2> HIDE DEF n
  <2>1. QED
    BY <1>1 DEF FoldLeft, MapThenFoldSet
<1>3. F \in [D \X (1 .. n) -> D] /\ \A r \in D, i \in 1 .. n : F[<<r, i>>] = Next1(r, i)
  <2>1. \A x \in D \X (1 .. n) : LoadEntry(x[1], q[x[2]]) \in D
    BY LoadEntryFacts
  <2> HIDE DEF D, n
  <2>2. QED
    BY <2>1 DEF LoadStep, D, n
<1> HIDE DEF F, n, D, Next1
<1>4. PICK h \in [SUBSET (1 .. n) -> D] : Folds(h, base, F, n)
  <2>1. HasFold(D, base, F, n)
    <3>1. base \in D
      BY DEF D
    <3>2. QED
      BY <1>1, <1>3, <3>1, FoldExists
  <2>2. QED
    BY <2>1 DEF HasFold
<1>5. \A s \in SUBSET (1 .. n) : s # {} => Max(s) \in 1 .. n
  BY <1>1, GreatestElement
<1>6. Solves(h)
  <2>1. h = [s \in SUBSET (1 .. n) |-> h[s]]
    BY <1>4
  <2>2. ASSUME NEW s \in SUBSET (1 .. n)
        PROVE  h[s] = IF s = {} THEN base ELSE Next1(h[s \ {Max(s)}], Max(s))
    <3>1. h[s] = IF s = {} THEN base ELSE F[<<h[s \ {Max(s)}], Max(s)>>]
      BY <1>4 DEF Folds
    <3>2. h[s \ {Max(s)}] \in D
      BY <1>4
    <3>3. QED
      BY <1>3, <1>5, <3>1, <3>2
  <2>3. QED
    BY <2>1, <2>2
<1>7. Solves(iter)
  <2> HIDE DEF Solves
  <2>1. QED
    BY <1>6
<1> HIDE DEF iter
<1>8. iter[{}] = base
  <2>1. {} \in SUBSET (1 .. n)
    OBVIOUS
  <2>2. QED
    BY <1>7, <2>1
<1>9. ASSUME NEW s \in SUBSET (1 .. n), s # {}, iter[s \ {Max(s)}] \in D
      PROVE  iter[s] = F[<<iter[s \ {Max(s)}], Max(s)>>]
  <2>1. iter[s] = Next1(iter[s \ {Max(s)}], Max(s))
    BY <1>7, <1>9
  <2>2. QED
    BY <1>3, <1>5, <1>9, <2>1
<1>10. HasSteps(D, base, F, n, iter[1 .. n])
  <2> HIDE DEF Solves
  <2>1. base \in D
    BY DEF D
  <2>2. QED
    BY <1>1, <1>3, <1>8, <1>9, <2>1, TraceOf
<1>11. QED
  BY <1>2, <1>10 DEF F, n, D

\* A text that save_file has written, or a part of it.
ReadableText(t) ==
  /\ t \in Seq(Range(t))
  /\ Len(t) >= 1 => t[1] = Torn \/ t[1].kids \in Nat
  /\ Len(t) >= 2 => t[2] = Torn \/ t[2].n \in Nat
  /\ \A i \in 3 .. Len(t) : Readable(t[i])

Start(n) == [ok |-> TRUE, m |-> [EmptyDb EXCEPT !.spare[Root] = n, !.own = {Root}]]

\* What load_file begins with.
LEMMA StartFacts ==
  ASSUME NEW n \in Nat
  PROVE  /\ Start(n) \in Results /\ Start(n).ok /\ InUse(Start(n).m) = {}
         /\ Start(n).m.kids = EmptyDb.kids
<1> DEFINE m == [EmptyDb EXCEPT !.spare[Root] = n, !.own = {Root}]
<1>1. /\ EmptyDb \in Db /\ EmptyDb.spare \in [Places -> Nat] /\ Root \in Places
      /\ EmptyDb.bad = {}
  BY EmptyFacts, DbFields, PlaceFacts DEF EmptyDb
<1>2. /\ m.kids = EmptyDb.kids /\ m.bad = EmptyDb.bad /\ m.data = EmptyDb.data /\ m \in Db
  BY <1>1 DEF Db
<1>3. Start(n) = [ok |-> TRUE, m |-> m]
  BY DEF Start
<1> HIDE DEF m
<1>4. Good(m) /\ InUse(m) = {}
  BY <1>1, <1>2, GoodEmpty
<1>5. QED
  BY <1>2, <1>3, <1>4 DEF Results

\* The entries that are read of a text.
LEMMA EntriesReadFacts ==
  ASSUME NEW Y, NEW t \in Seq(Y), NEW n \in Nat, t[2].n = n, Len(t) >= 2,
         NEW k, k = IF n + 2 < Len(t) THEN n ELSE Len(t) - 2
  PROVE  /\ EntriesRead(t) \in Seq(Y) /\ Len(EntriesRead(t)) = k /\ k \in Nat /\ k + 2 <= Len(t)
         /\ \A i \in 1 .. k : EntriesRead(t)[i] = t[i + 2]
<1> DEFINE len == Len(t)
<1>1. len \in Nat /\ DOMAIN t = 1 .. len /\ (\A i \in 1 .. len : t[i] \in Y) /\ len >= 2
  OBVIOUS
<1>2. n \in Nat /\ k = (IF n + 2 < len THEN n ELSE len - 2)
  OBVIOUS
<1>3. EntriesRead(t) = SubSeq(t, 3, IF n + 2 < len THEN n + 2 ELSE len)
  BY DEF EntriesRead
<1> HIDE DEF len
<1>4. k \in Nat /\ k + 2 <= len /\ (IF n + 2 < len THEN n + 2 ELSE len) = k + 2
  BY ONLY <1>1, <1>2
<1> DEFINE h == k + 2
<1>5. h \in Int /\ 3 \in Int /\ h <= len
  BY ONLY <1>4
<1>6. \A i \in 3 .. h : t[i] \in Y
  <2>1. \A i \in 3 .. h : i \in 1 .. len
    BY ONLY <1>1, <1>5
  <2>2. QED
    BY <1>1, <2>1
<1>7. h - 3 + 1 = k /\ (\A i \in 1 .. k : 3 + i - 1 = i + 2) /\ (~(3 <= h) => k = 0)
  BY ONLY <1>4
<1>8. EntriesRead(t) = SubSeq(t, 3, h)
  BY <1>3, <1>4
<1> HIDE DEF h
<1>9. /\ SubSeq(t, 3, h) \in Seq(Y)
      /\ Len(SubSeq(t, 3, h)) = IF 3 <= h THEN h - 3 + 1 ELSE 0
      /\ \A i \in 1 .. h - 3 + 1 : SubSeq(t, 3, h)[i] = t[3 + i - 1]
  BY ONLY <1>5, <1>6, SubSeqProperties
<1> DEFINE r == SubSeq(t, 3, h)
<1>10. /\ r \in Seq(Y) /\ Len(r) = IF 3 <= h THEN h - 3 + 1 ELSE 0
       /\ \A i \in 1 .. h - 3 + 1 : r[i] = t[3 + i - 1]
  BY <1>9
<1>11. EntriesRead(t) = r
  BY <1>8
<1> HIDE DEF r
<1>12. Len(r) = k
  BY ONLY <1>7, <1>10
<1>13. \A i \in 1 .. k : r[i] = t[i + 2]
  BY ONLY <1>7, <1>10
<1>14. k + 2 <= Len(t)
  BY <1>4 DEF len
<1>15. QED
  BY <1>4, <1>10, <1>11, <1>12, <1>13, <1>14

\* Whatever load_file reads of a file is a database as the commands make it.
LEMMA LoadGood ==
  ASSUME NEW t, ReadableText(t)
  PROVE  Load(t).ok \in BOOLEAN /\ Good(Load(t).m)
<1>1. CASE Len(t) < 2 \/ t[1] = Torn \/ t[2] = Torn
  <2>1. Load(t) = [ok |-> FALSE, m |-> EmptyDb]
    BY <1>1 DEF Load
  <2>2. QED
    BY <2>1, EmptyFacts
<1>2. CASE ~(Len(t) < 2 \/ t[1] = Torn \/ t[2] = Torn)
  <2> DEFINE n == t[2].n
             k == IF n + 2 < Len(t) THEN n ELSE Len(t) - 2
             q == EntriesRead(t)
             start == Start(t[1].kids)
             read == FoldLeft(LoadEntry, start, q)
  <2>1. /\ t \in Seq(Range(t)) /\ Len(t) \in Nat /\ Len(t) >= 2 /\ n \in Nat /\ t[1].kids \in Nat
        /\ \A i \in 3 .. Len(t) : Readable(t[i])
    BY <1>2 DEF ReadableText
  <2>2. Load(t) = [ok |-> read.ok /\ WholeFile(t, n), m |-> read.m]
    BY <1>2 DEF Load, Start
  <2> HIDE DEF read, q, start, k, n
  <2>3. /\ q \in Seq(Range(t)) /\ Len(q) = k /\ k \in Nat /\ k + 2 <= Len(t)
        /\ \A i \in 1 .. k : q[i] = t[i + 2]
    <3>1. k = IF n + 2 < Len(t) THEN n ELSE Len(t) - 2
      BY DEF k
    <3>2. t[2].n = n
      BY DEF n
    <3>3. QED
      BY <2>1, <3>1, <3>2, EntriesReadFacts DEF q
  <2>4. \A i \in 1 .. Len(q) : Readable(q[i])
    BY <2>1, <2>3
  <2>5. start \in Results
    BY <2>1, StartFacts DEF start
  <2>6. HasSteps(Results, start, LoadStep(q), Len(q), read)
    BY <2>3, <2>4, <2>5, LoadTrace DEF read
  <2>7. read \in Results
    <3>1. Len(q) \in Nat
      BY <2>3
    <3>2. QED
      BY <2>6, <3>1, StepsValue
  <2>8. read.ok \in BOOLEAN /\ Good(read.m)
    BY <2>7 DEF Results
  <2>9. Load(t).m = read.m /\ Load(t).ok = (read.ok /\ WholeFile(t, n))
    BY <2>2
  <2>10. QED
    BY <2>8, <2>9
<1>3. QED
  BY <1>1, <1>2

-----------------------------------------------------------------------------
(* A file that has been written to its end                                 *)

\* The first i that save_file has linked, but for the root.
Upto(s, i) == {x \in Range(s) : \E j \in 2 .. i : x = s[j]}

\* What load_file has made of their items.
LoadedTo(m, s, i, l) ==
  /\ l \in Results /\ l.ok
  /\ \A x : x \in InUse(l.m) <=> x \in Upto(s, i)
  /\ \A p \in Places : l.m.kids[p] = Only(m.kids[p], Upto(s, i))
  /\ \A j \in 2 .. i : l.m.data[s[j]] = ReadSums(m.data[s[j]])

\* The list of a save: the root first, then good entries, none twice.
LEMMA OrderFacts ==
  ASSUME NEW m, NEW s, SaveOrder(m, s)
  PROVE  /\ Len(s) \in Nat /\ Len(s) >= 1 /\ DOMAIN s = 1 .. Len(s)
         /\ \A i \in 1 .. Len(s) : s[i] \in Range(s) /\ s[i] \in Places
         /\ \A i, j \in 1 .. Len(s) : s[i] = s[j] => i = j
         /\ \A x \in Range(s) : \E i \in 1 .. Len(s) : x = s[i]
         /\ \A i \in 2 .. Len(s) : s[i] # Root /\ s[i] \in Entries /\ s[i] \notin m.bad
<1>1. s \in Seq(Places) /\ s # <<>> /\ s[1] = Root /\ IsInjective(s)
  BY DEF SaveOrder
<1>2. Len(s) \in Nat /\ Len(s) >= 1 /\ DOMAIN s = 1 .. Len(s)
  BY <1>1
<1>3. \A i \in 1 .. Len(s) : s[i] \in Range(s) /\ s[i] \in Places
  BY <1>1, <1>2 DEF Range
<1>4. \A i, j \in 1 .. Len(s) : s[i] = s[j] => i = j
  BY <1>1, <1>2 DEF IsInjective
<1>5. \A x \in Range(s) : \E i \in 1 .. Len(s) : x = s[i]
  BY <1>2 DEF Range
<1>6. \A i \in 2 .. Len(s) : s[i] # Root /\ s[i] \in Entries /\ s[i] \notin m.bad
  <2>1. TAKE i \in 2 .. Len(s)
  <2>2. s[i] # Root
    BY <1>1, <1>2, <1>4
  <2>3. s[i] \in Range(s) \ {Root}
    BY <1>2, <1>3, <2>2
  <2>4. s[i] \in Entries \ m.bad
    BY <2>3 DEF SaveOrder
  <2>5. QED
    BY <2>2, <2>4
<1>7. QED
  BY <1>2, <1>3, <1>4, <1>5, <1>6

\* What is linked after an entry is not among the first.
LEMMA UptoFacts ==
  ASSUME NEW m, NEW s, SaveOrder(m, s), NEW i \in 2 .. Len(s), NEW last, last = i - 1,
         NEW e, e = s[i]
  PROVE  /\ e \notin Upto(s, last)
         /\ \A x : x \in Upto(s, i) <=> x \in Upto(s, last) \/ x = e
         /\ \A x \in Upto(s, last) : x \in Entries /\ x \notin m.bad /\ ~Before(s, e, x)
         /\ \A x : Before(s, x, e) => x = Root \/ x \in Upto(s, last)
<1>1. /\ Len(s) \in Nat /\ DOMAIN s = 1 .. Len(s)
      /\ \A j \in 1 .. Len(s) : s[j] \in Range(s)
      /\ \A j, k \in 1 .. Len(s) : s[j] = s[k] => j = k
      /\ \A j \in 2 .. Len(s) : s[j] \in Entries /\ s[j] \notin m.bad
      /\ s[1] = Root
  BY OrderFacts DEF SaveOrder
<1>2. i \in Nat /\ last \in Nat /\ last < i /\ i \in 1 .. Len(s)
      /\ (\A j : j \in 2 .. i <=> j \in 2 .. last \/ j = i)
      /\ \A j \in 2 .. last : j \in 2 .. Len(s)
  BY <1>1
<1>3. \A x \in Upto(s, last) : \E j \in 2 .. last : x = s[j]
  BY DEF Upto
<1>4. e \notin Upto(s, last)
  <2>1. SUFFICES ASSUME e \in Upto(s, last)
                 PROVE  FALSE
    OBVIOUS
  <2>2. PICK j \in 2 .. last : s[i] = s[j]
    BY <1>3, <2>1
  <2>3. j \in 1 .. Len(s) /\ j # i
    BY <1>1, <1>2
  <2>4. QED
    BY <1>1, <1>2, <2>2, <2>3
<1>5. \A x : x \in Upto(s, i) <=> x \in Upto(s, last) \/ x = e
  BY <1>1, <1>2 DEF Upto
<1>6. \A x \in Upto(s, last) : x \in Entries /\ x \notin m.bad /\ ~Before(s, e, x)
  <2>1. TAKE x \in Upto(s, last)
  <2>2. PICK j \in 2 .. last : x = s[j]
    BY <1>3
  <2>3. x \in Entries /\ x \notin m.bad
    BY <1>1, <1>2, <2>2
  <2>4. ~Before(s, e, x)
    <3>1. SUFFICES ASSUME NEW a \in DOMAIN s, NEW b \in DOMAIN s, a < b, s[a] = e, s[b] = x
                   PROVE  FALSE
      BY DEF Before
    <3>2. a = i
      BY <1>1, <1>2, <3>1
    <3>3. b = j
      BY <1>1, <1>2, <2>2, <3>1
    <3>4. QED
      BY <1>2, <3>1, <3>2, <3>3
  <2>5. QED
    BY <2>3, <2>4
<1>7. ASSUME NEW x, Before(s, x, e)
      PROVE  x = Root \/ x \in Upto(s, last)
  <2>1. PICK a, b \in DOMAIN s : a < b /\ s[a] = x /\ s[b] = e
    BY <1>7 DEF Before
  <2>2. b = i
    BY <1>1, <1>2, <2>1
  <2>3. a = 1 \/ a \in 2 .. last
    BY <1>1, <1>2, <2>1, <2>2
  <2>4. a \in 2 .. last => x \in Upto(s, last)
    BY <1>1, <1>2, <2>1 DEF Upto
  <2>5. QED
    BY <1>1, <2>1, <2>3, <2>4
<1>8. QED
  BY <1>4, <1>5, <1>6, <1>7

\* The item of an entry that is linked.
LEMMA ItemFacts ==
  ASSUME NEW m, Good(m), NEW p \in Places, NEW e \in Range(m.kids[p]), NEW x, x = Item(m, e)
  PROVE  /\ x.kind = "entry" /\ x.id = e /\ x.data = m.data[e] /\ x.parent = p
         /\ Readable(x)
<1>1. /\ IsTree(m) /\ m.kids \in [Places -> Seq(Entries)] /\ m.data \in [Entries -> Data]
  BY DbFields DEF Good, Shape
<1>2. e \in Entries /\ e \in Places
  BY <1>1, KidFacts
<1>3. x.kind = "entry" /\ x.id = e /\ x.data = m.data[e] /\ x.kids = Len(m.kids[e])
      /\ x.parent = CHOOSE y \in Places : e \in Range(m.kids[y])
  BY DEF Item
<1>4. x.parent = p
  BY <1>1, <1>3, ParentIs
<1>5. x.kids \in Nat
  BY <1>1, <1>2, <1>3, KidFacts
<1>6. x.data \in Data
  BY <1>1, <1>2, <1>3 DEF Good
<1>7. QED
  BY <1>2, <1>3, <1>4, <1>5, <1>6 DEF Readable

\* Loading one more entry leaves what load_file should have read so far.
LEMMA LoadOne ==
  ASSUME NEW m, Good(m), NEW s, SaveOrder(m, s), NEW i \in 2 .. Len(s), NEW last, last = i - 1,
         NEW l, LoadedTo(m, s, last, l), NEW e, e = s[i], m.data[e].loads,
         NEW x, x = Item(m, e), NEW r, r = LoadEntry(l, x)
  PROVE  LoadedTo(m, s, i, r)
<1> DEFINE A == Upto(s, last)
           B == Upto(s, i)
<1>1. /\ IsTree(m) /\ m.kids \in [Places -> Seq(Entries)] /\ m.data \in [Entries -> Data]
  BY DbFields DEF Good, Shape
<1>2. /\ e \notin A /\ (\A y : y \in B <=> y \in A \/ y = e)
      /\ (\A y \in A : y \in Entries /\ y \notin m.bad /\ ~Before(s, e, y))
      /\ (\A y : Before(s, y, e) => y = Root \/ y \in A)
  BY UptoFacts
<1>3. /\ e \in Entries /\ e \notin m.bad /\ e \in Range(s) \ {Root}
      /\ i \in Nat /\ last \in Nat /\ last < i /\ Len(s) \in Nat
      /\ \A j \in 2 .. i : j = i \/ j \in 2 .. last
  <2>1. Len(s) \in Nat /\ i \in 1 .. Len(s)
    BY OrderFacts
  <2>2. QED
    BY <2>1, OrderFacts
<1>4. PICK p \in Range(s) : e \in Range(m.kids[p]) /\ Before(s, p, e)
  BY <1>3 DEF SaveOrder
<1>5. p \in Places /\ Complete(m, s, p) /\ (p = Root \/ p \in A)
  <2>1. p \in Places
    BY OrderFacts
  <2>2. QED
    BY <1>2, <1>4, <2>1 DEF SaveOrder
<1>6. /\ l \in Results /\ l.ok /\ (\A y : y \in InUse(l.m) <=> y \in A)
      /\ (\A q \in Places : l.m.kids[q] = Only(m.kids[q], A))
      /\ (\A j \in 2 .. last : l.m.data[s[j]] = ReadSums(m.data[s[j]]))
  BY DEF LoadedTo
<1>7. /\ x.kind = "entry" /\ x.id = e /\ x.data = m.data[e] /\ x.parent = p /\ Readable(x)
  BY <1>4, <1>5, ItemFacts
<1>8. Takes(l, x)
  BY <1>2, <1>5, <1>6, <1>7 DEF Takes
<1>9. r \in Results /\ r.ok /\ Took(l.m, p, e, ReadSums(m.data[e]), r.m)
  <2>1. r \in Results /\ r.ok /\ Took(l.m, x.parent, x.id, ReadSums(x.data), r.m)
    BY <1>6, <1>7, <1>8, LoadEntryFacts
  <2>2. QED
    BY <1>7, <2>1
<1>10. l.m.kids \in [Places -> Seq(Entries)] /\ l.m.data \in [Entries -> Data]
  <2>1. l.m \in Db
    BY <1>6 DEF Results
  <2>2. QED
    BY <2>1, DbFields
<1>11. /\ r.m.kids = [l.m.kids EXCEPT ![p] = Append(@, e)]
       /\ r.m.data = [l.m.data EXCEPT ![e] = ReadSums(m.data[e])]
       /\ \A y : y \in InUse(r.m) <=> y \in InUse(l.m) \/ y = e
  BY <1>9 DEF Took
<1> HIDE DEF A, B
<1>12. \A y : y \in InUse(r.m) <=> y \in B
  BY ONLY <1>2, <1>6, <1>11
<1>13. \A q \in Places : q # p => r.m.kids[q] = Only(m.kids[q], B)
  <2>1. TAKE q \in Places
  <2>2. HAVE q # p
  <2>3. r.m.kids[q] = Only(m.kids[q], A)
    BY <1>6, <1>10, <1>11, <2>2
  <2>4. e \notin Range(m.kids[q])
    <3>1. Range(m.kids[p]) \cap Range(m.kids[q]) # {} => p = q
      BY <1>1, <1>5, KidFacts
    <3>2. QED
      BY <1>4, <2>2, <3>1
  <2>5. m.kids[q] \in Seq(Entries) /\ \A y \in Range(m.kids[q]) : y \in A <=> y \in B
    BY <1>1, <1>2, <2>4
  <2>6. Only(m.kids[q], A) = Only(m.kids[q], B)
    <3> DEFINE u == m.kids[q]
    <3>1. u \in Seq(Entries) /\ \A y \in Range(u) : y \in A <=> y \in B
      BY <2>5
    <3> HIDE DEF u
    <3>2. Only(u, A) = Only(u, B)
      BY ONLY <3>1, OnlySame
    <3>3. QED
      BY <3>2 DEF u
  <2>7. QED
    BY <2>3, <2>6
<1>14. r.m.kids[p] = Only(m.kids[p], B)
  <2> DEFINE u == m.kids[p]
  <2>1. u \in Seq(Entries) /\ IsInjective(u) /\ DOMAIN u = 1 .. Len(u) /\ Len(u) \in Nat
    BY <1>1, <1>5, KidFacts
  <2>2. PICK t \in 1 .. Len(u) : u[t] = e
    BY <1>4, <2>1 DEF Range
  <2>3. \A j \in 1 .. Len(u) : j > t => u[j] \notin A
    <3>1. TAKE j \in 1 .. Len(u)
    <3>2. HAVE j > t
    <3>3. CASE u[j] \in m.bad
      BY <1>2, <3>3
    <3>4. CASE u[j] \notin m.bad
      <4>1. t < j /\ t \in DOMAIN u /\ j \in DOMAIN u
        BY <2>1, <3>2
      <4>2. Before(s, u[t], u[j])
        BY <1>3, <1>5, <2>2, <3>4, <4>1 DEF Complete
      <4>3. QED
        BY <1>2, <2>2, <4>2
    <3>5. QED
      BY <3>3, <3>4
  <2>4. r.m.kids[p] = Append(Only(u, A), e)
    BY <1>5, <1>6, <1>10, <1>11
  <2> HIDE DEF u
  <2>5. e = u[t]
    BY <2>2
  <2>6. Only(u, A \cup {e}) = Append(Only(u, A), e)
    BY ONLY <1>2, <2>1, <2>2, <2>3, <2>5, OnlyLast
  <2>7. A \cup {e} = B
    BY <1>2
  <2>8. QED
    BY <2>4, <2>6, <2>7 DEF u
<1>15. \A j \in 2 .. i : r.m.data[s[j]] = ReadSums(m.data[s[j]])
  <2>1. TAKE j \in 2 .. i
  <2>2. CASE j = i
    BY <1>3, <1>10, <1>11, <2>2
  <2>3. CASE j # i
    <3>1. j \in 2 .. last /\ j \in 2 .. Len(s)
      BY <1>3, <2>3
    <3>2. s[j] \in Upto(s, last)
      BY <3>1, OrderFacts DEF Upto
    <3>3. s[j] # e /\ s[j] \in Entries
      BY <1>2, <3>2 DEF A
    <3>4. QED
      BY <1>6, <1>10, <1>11, <3>1, <3>3
  <2>4. QED
    BY <2>2, <2>3
<1>16. QED
  BY <1>9, <1>12, <1>13, <1>14, <1>15 DEF LoadedTo, B

\* All of them: what was to be saved.
LEMMA LoadedAll ==
  ASSUME NEW m, Good(m), NEW s, SaveOrder(m, s), NEW l, LoadedTo(m, s, Len(s), l)
  PROVE  /\ l.m.kids = ToSave(m).kids
         /\ \A e \in Entries : (\E p \in Places : e \in Range(ToSave(m).kids[p])) =>
              l.m.data[e] = ReadSums(m.data[e])
<1> DEFINE A == Upto(s, Len(s))
           K == Kept(m)
           whole == ToSave(m).kids
<1>1. /\ IsTree(m) /\ m.kids \in [Places -> Seq(Entries)]
  BY DbFields DEF Good, Shape
<1>2. /\ l \in Results /\ (\A p \in Places : l.m.kids[p] = Only(m.kids[p], A))
      /\ (\A j \in 2 .. Len(s) : l.m.data[s[j]] = ReadSums(m.data[s[j]]))
  BY DEF LoadedTo
<1>3. /\ Range(s) = K /\ s[1] = Root
      /\ \A x \in Range(s) \ {Root} : \E p \in Range(s) : x \in Range(m.kids[p])
  BY DEF SaveOrder
<1>4. \A x : x \in A <=> x \in K /\ x # Root
  <2>1. /\ Len(s) \in Nat /\ Len(s) >= 1
        /\ \A x \in Range(s) : \E i \in 1 .. Len(s) : x = s[i]
        /\ \A i \in 2 .. Len(s) : s[i] # Root /\ s[i] \in Range(s)
    BY OrderFacts
  <2>2. ASSUME NEW x \in Range(s), x # Root
        PROVE  x \in A
    <3>1. PICK i \in 1 .. Len(s) : x = s[i]
      BY <2>1
    <3>2. i \in 2 .. Len(s)
      BY <1>3, <2>1, <2>2, <3>1
    <3>3. QED
      BY <3>1, <3>2 DEF Upto
  <2>3. ASSUME NEW x \in A
        PROVE  x \in Range(s) /\ x # Root
    BY <2>1 DEF Upto
  <2>4. QED
    BY <1>3, <2>2, <2>3
<1>5. whole = [p \in Places |-> IF p \in K THEN Only(m.kids[p], K) ELSE <<>>]
  BY DEF ToSave
<1>6. K \subseteq Places
  BY DEF Kept
<1>7. \A p \in Places : m.kids[p] \in Seq(Entries) /\ Range(m.kids[p]) \subseteq Entries
  BY <1>1, KidFacts
<1> HIDE DEF A, K, whole
<1>8. ASSUME NEW p \in Places
      PROVE  l.m.kids[p] = whole[p]
  <2> DEFINE u == m.kids[p]
  <2>1. u \in Seq(Entries) /\ Range(u) \subseteq Entries
    BY <1>7
  <2>2. l.m.kids[p] = Only(u, A)
    BY <1>2
  <2>3. whole[p] = IF p \in K THEN Only(u, K) ELSE <<>>
    BY <1>5
  <2>4. CASE p \in K
    <3>1. \A y \in Range(u) : y \in A <=> y \in K
      BY <1>4, <2>1, PlaceFacts
    <3> HIDE DEF u
    <3>2. Only(u, A) = Only(u, K)
      BY ONLY <2>1, <3>1, OnlySame
    <3>3. QED
      BY <2>2, <2>3, <2>4, <3>2
  <2>5. CASE p \notin K
    <3>1. Range(u) \cap A = {}
      <4>1. SUFFICES ASSUME NEW x \in Range(u), x \in A
                     PROVE  FALSE
        OBVIOUS
      <4>2. PICK q \in K : x \in Range(m.kids[q])
        BY <1>3, <1>4, <4>1
      <4>3. q \in Places
        BY <1>6, <4>2
      <4>4. Range(m.kids[p]) \cap Range(m.kids[q]) # {} => p = q
        BY <1>1, <4>3, KidFacts
      <4>5. QED
        BY <2>5, <4>1, <4>2, <4>4
    <3> HIDE DEF u
    <3>2. Only(u, A) = <<>>
      BY ONLY <2>1, <3>1, OnlyNone
    <3>3. QED
      BY <2>2, <2>3, <2>5, <3>2
  <2>6. QED
    BY <2>4, <2>5
<1>9. l.m.kids = whole
  <2>1. l.m.kids \in [Places -> Seq(Entries)]
    <3>1. l.m \in Db
      BY <1>2 DEF Results
    <3>2. QED
      BY <3>1, DbFields
  <2>2. l.m.kids = [p \in Places |-> l.m.kids[p]] /\ whole = [p \in Places |-> whole[p]]
    BY <1>5, <2>1
  <2>3. QED
    BY <1>8, <2>2
<1>10. ASSUME NEW e \in Entries, NEW p \in Places, e \in Range(whole[p])
       PROVE  l.m.data[e] = ReadSums(m.data[e])
  <2> DEFINE u == m.kids[p]
  <2>1. p \in K /\ whole[p] = Only(u, K)
    <3>1. Range(<<>>) = {}
      BY DEF Range
    <3>2. QED
      BY <1>5, <1>10, <3>1
  <2>2. u \in Seq(Entries)
    BY <1>7
  <2> HIDE DEF u
  <2>3. Range(Only(u, K)) = Range(u) \cap K
    BY <2>2, OnlyIs
  <2>4. e \in Range(s)
    BY <1>3, <1>10, <2>1, <2>3
  <2>5. PICK i \in 1 .. Len(s) : e = s[i]
    BY <2>4, OrderFacts
  <2>6. i \in 2 .. Len(s)
    BY <1>3, <2>5, OrderFacts, PlaceFacts
  <2>7. QED
    BY <1>2, <2>5, <2>6
<1>11. QED
  BY <1>9, <1>10 DEF whole

\* The entries that are to be whole.
LEMMA SavedEntries ==
  ASSUME NEW m, Good(m), NEW s, SaveOrder(m, s), NEW i \in 2 .. Len(s)
  PROVE  \E p \in Places : s[i] \in Range(ToSave(m).kids[p])
<1> DEFINE K == Kept(m)
           e == s[i]
<1>1. /\ IsTree(m) /\ Range(s) = K
  BY DEF Good, Shape, SaveOrder
<1>2. e \in Range(s) /\ e # Root
  <2>1. i \in 1 .. Len(s)
    BY OrderFacts
  <2>2. QED
    BY <2>1, OrderFacts
<1>3. PICK p \in Range(s) : e \in Range(m.kids[p])
  BY <1>2 DEF SaveOrder
<1>4. p \in Places /\ p \in K
  BY <1>1, <1>3 DEF Kept
<1>5. ToSave(m).kids[p] = Only(m.kids[p], K)
  BY <1>4 DEF ToSave
<1> DEFINE u == m.kids[p]
<1>6. u \in Seq(Entries) /\ e \in Range(u) /\ e \in K
  BY <1>1, <1>2, <1>3, <1>4, KidFacts
<1> HIDE DEF u, e, K
<1>7. Range(Only(u, K)) = Range(u) \cap K
  BY <1>6, OnlyIs
<1>8. e \in Range(ToSave(m).kids[p])
  BY <1>5, <1>6, <1>7 DEF u
<1>9. QED
  BY <1>4, <1>8 DEF e

\* The text of a save with all its entries and its tail.
WholeText(m, s, d) ==
  /\ d \in Seq(Range(d)) /\ Len(d) = Len(s) + 2
  /\ d[1] = Header(Len(m.kids[Root])) /\ d[2] = Total(Len(s) - 1)
  /\ \A i \in 3 .. Len(s) + 1 : d[i] = Item(m, s[i - 1])
  /\ d[Len(s) + 2] = TailItem

\* What load_file goes through, entry by entry.
ReadsBy(m, s, d, f, k) ==
  /\ f \in [0 .. k -> Results] /\ LoadedTo(m, s, 1, f[0])
  /\ \A j \in 1 .. k : /\ f[j] = LoadEntry(f[j - 1], Item(m, s[j + 1]))
                       /\ Readable(Item(m, s[j + 1]))
  /\ Load(d).ok = f[k].ok /\ Load(d).m = f[k].m

LEMMA WholeTrace ==
  ASSUME NEW m, Good(m), NEW s, SaveOrder(m, s), NEW d, WholeText(m, s, d)
  PROVE  \E f : ReadsBy(m, s, d, f, Len(s) - 1)
<1> DEFINE n == Len(s)
           k == n - 1
           q == EntriesRead(d)
           kids == Len(m.kids[Root])
           start == Start(kids)
           read == FoldLeft(LoadEntry, start, q)
<1>1. /\ d \in Seq(Range(d)) /\ Len(d) = n + 2 /\ n \in Nat /\ n >= 1
      /\ d[1] = Header(kids) /\ d[2] = Total(k) /\ d[n + 2] = TailItem
      /\ \A i \in 3 .. n + 1 : d[i] = Item(m, s[i - 1])
  BY OrderFacts DEF WholeText
<1>2. kids \in Nat
  BY PlaceFacts, KidFacts DEF Good, Shape
<1>3. /\ d[1] # Torn /\ d[2] # Torn /\ d[1].kids = kids /\ d[2].n = k
  <2>1. Header(kids).kind = "header" /\ Header(kids).kids = kids
    BY DEF Header
  <2>2. Total(k).kind = "total" /\ Total(k).n = k
    BY DEF Total
  <2>3. Torn.kind = "torn"
    BY DEF Torn
  <2> HIDE DEF kids, k
  <2>4. QED
    BY <1>1, <2>1, <2>2, <2>3
<1>4. Load(d) = [ok |-> read.ok /\ WholeFile(d, k), m |-> read.m]
  <2>1. ~(Len(d) < 2 \/ d[1] = Torn \/ d[2] = Torn)
    BY <1>1, <1>3
  <2> HIDE DEF k, kids, n
  <2>2. QED
    BY <1>3, <2>1 DEF Load, Start
<1> HIDE DEF q, kids, start, read
<1>5. WholeFile(d, k)
  <2>1. Len(d) = k + 3
    BY <1>1
  <2>2. QED
    BY <1>1, <2>1 DEF WholeFile
<1>6. k \in Nat /\ k + 2 < Len(d) /\ Len(d) >= 2
  BY <1>1
<1>7. q \in Seq(Range(d)) /\ Len(q) = k /\ \A i \in 1 .. k : q[i] = d[i + 2]
  <2> HIDE DEF k, n
  <2>1. k = IF k + 2 < Len(d) THEN k ELSE Len(d) - 2
    BY <1>6
  <2>2. d \in Seq(Range(d)) /\ k \in Nat /\ d[2].n = k /\ Len(d) >= 2
    BY <1>1, <1>3, <1>6
  <2>3. /\ EntriesRead(d) \in Seq(Range(d)) /\ Len(EntriesRead(d)) = k
        /\ \A i \in 1 .. k : EntriesRead(d)[i] = d[i + 2]
    BY ONLY <2>1, <2>2, EntriesReadFacts
  <2>4. QED
    BY <2>3 DEF q
<1>8. \A i \in 1 .. k : q[i] = Item(m, s[i + 1])
  <2>1. TAKE i \in 1 .. k
  <2>2. i + 2 \in 3 .. n + 1 /\ (i + 2) - 1 = i + 1
    BY <1>1
  <2>3. d[i + 2] = Item(m, s[i + 1])
    BY <1>1, <2>2
  <2>4. QED
    BY <1>7, <2>3
<1>9. \A i \in 1 .. k : Readable(q[i])
  <2>1. TAKE i \in 1 .. k
  <2> DEFINE j == i + 1
             e == s[j]
  <2>2. j \in 2 .. n /\ j \in 1 .. n
    BY <1>1
  <2> HIDE DEF j, n
  <2>3. e \in Range(s) \ {Root}
    BY <2>2, OrderFacts DEF n
  <2> HIDE DEF e
  <2>4. PICK p \in Range(s) : e \in Range(m.kids[p])
    BY <2>3 DEF SaveOrder
  <2>5. p \in Places
    BY <2>4, OrderFacts
  <2>6. Readable(Item(m, e))
    BY <2>4, <2>5, ItemFacts
  <2>7. QED
    BY <1>8, <2>6 DEF e, j
<1>10. start \in Results /\ start.ok /\ InUse(start.m) = {} /\ start.m.kids = EmptyDb.kids
  BY <1>2, StartFacts DEF start
<1>11. PICK f \in [0 .. k -> Results] :
         f[0] = start /\ f[k] = read /\ \A j \in 1 .. k : f[j] = LoadEntry(f[j - 1], q[j])
  <2> HIDE DEF k
  <2>1. HasSteps(Results, start, LoadStep(q), Len(q), read)
    BY <1>7, <1>9, <1>10, LoadTrace DEF read
  <2>2. PICK f \in [0 .. k -> Results] : FoldSteps(f, start, LoadStep(q), k) /\ f[k] = read
    BY <1>7, <2>1 DEF HasSteps
  <2>3. \A j \in 1 .. k : f[j] = LoadEntry(f[j - 1], q[j])
    <3>1. TAKE j \in 1 .. k
    <3>2. f[j] = LoadStep(q)[<<f[j - 1], j>>] /\ f[j - 1] \in Results
      BY <1>6, <2>2 DEF FoldSteps
    <3>3. <<f[j - 1], j>> \in Results \X (1 .. Len(q))
      BY <1>7, <3>2
    <3>4. LoadStep(q)[<<f[j - 1], j>>] = LoadEntry(<<f[j - 1], j>>[1], q[<<f[j - 1], j>>[2]])
      BY <3>3 DEF LoadStep
    <3>5. QED
      BY <3>2, <3>4
  <2>4. QED
    BY <2>2, <2>3 DEF FoldSteps
<1>12. LoadedTo(m, s, 1, f[0])
  <2>1. Upto(s, 1) = {}
    BY DEF Upto
  <2>2. \A p \in Places : start.m.kids[p] = <<>>
    BY <1>10 DEF EmptyDb
  <2>3. \A p \in Places : Only(m.kids[p], {}) = <<>>
    <3>1. TAKE p \in Places
    <3> DEFINE u == m.kids[p]
    <3>2. u \in Seq(Entries) /\ Range(u) \cap {} = {}
      BY KidFacts DEF Good, Shape
    <3> HIDE DEF u
    <3>3. Only(u, {}) = <<>>
      BY <3>2, OnlyNone
    <3>4. QED
      BY <3>3 DEF u
  <2>4. f[0] = start
    BY <1>11
  <2>5. \A x : x \in InUse(start.m) <=> x \in Upto(s, 1)
    BY <1>10, <2>1
  <2>6. \A p \in Places : start.m.kids[p] = Only(m.kids[p], Upto(s, 1))
    BY <2>1, <2>2, <2>3
  <2>7. \A j \in 2 .. 1 : start.m.data[s[j]] = ReadSums(m.data[s[j]])
    OBVIOUS
  <2>8. LoadedTo(m, s, 1, start)
    BY <1>10, <2>5, <2>6, <2>7 DEF LoadedTo
  <2>9. QED
    BY <2>4, <2>8
<1>13. ReadsBy(m, s, d, f, k)
  <2>1. \A j \in 1 .. k : /\ f[j] = LoadEntry(f[j - 1], Item(m, s[j + 1]))
                          /\ Readable(Item(m, s[j + 1]))
    <3> HIDE DEF k, n
    <3>1. \A j \in 1 .. k : j \in 1 .. Len(q)
      BY <1>7
    <3>2. QED
      BY <1>8, <1>9, <1>11, <3>1
  <2>2. read.ok \in BOOLEAN
    <3>1. k \in 0 .. k
      BY <1>6
    <3> HIDE DEF k, n
    <3>2. QED
      BY <1>11, <3>1 DEF Results
  <2>3. Load(d).ok = read.ok /\ Load(d).m = read.m
    BY <1>4, <1>5, <2>2
  <2> HIDE DEF k, n
  <2>4. QED
    BY <1>11, <1>12, <2>1, <2>3 DEF ReadsBy
<1>14. QED
  BY <1>13 DEF k, n

\* What it makes of them if it takes the data of each.
LEMMA WholeReads ==
  ASSUME NEW m, Good(m), NEW s, SaveOrder(m, s), NEW d, WholeText(m, s, d),
         \A i \in 2 .. Len(s) : m.data[s[i]].loads
  PROVE  \E l : LoadedTo(m, s, Len(s), l) /\ Load(d).ok /\ Load(d).m = l.m
<1> DEFINE n == Len(s)
           k == n - 1
<1>1. n \in Nat /\ n >= 1
  BY OrderFacts
<1>6. k \in Nat
  BY <1>1
<1>11. PICK f : ReadsBy(m, s, d, f, k)
  BY WholeTrace
<1>12. LoadedTo(m, s, 1, f[0])
  BY <1>11 DEF ReadsBy
<1>13. ASSUME NEW j \in 1 .. k, LoadedTo(m, s, j, f[j - 1])
       PROVE  LoadedTo(m, s, j + 1, f[j])
  <2> DEFINE i == j + 1
             e == s[i]
             x == Item(m, e)
             l == f[j - 1]
             r == f[j]
  <2>1. i \in 2 .. n /\ j = i - 1
    BY <1>1
  <2>2. m.data[e].loads
    BY <2>1
  <2>3. x = Item(m, e) /\ e = s[i]
    OBVIOUS
  <2>4. r = LoadEntry(l, x)
    BY <1>11 DEF ReadsBy
  <2>5. LoadedTo(m, s, j, l)
    BY <1>13
  <2>6. i \in 2 .. Len(s)
    BY <2>1
  <2> HIDE DEF x, e, i, l, r, n, k
  <2>7. LoadedTo(m, s, i, r)
    BY <2>1, <2>2, <2>3, <2>4, <2>5, <2>6, LoadOne
  <2>8. QED
    BY <2>7 DEF i, r
<1>14. LoadedTo(m, s, n, f[k])
  <2> DEFINE S == {j \in 0 .. k : LoadedTo(m, s, j + 1, f[j])}
  <2>1. 0 \in S
    BY <1>6, <1>12
  <2>2. \A j \in 1 .. k : j - 1 \in S => j \in S
    <3>1. TAKE j \in 1 .. k
    <3>2. (j - 1) + 1 = j /\ j \in 0 .. k
      BY <1>6
    <3>3. j - 1 \in S => LoadedTo(m, s, j, f[j - 1])
      BY <3>2
    <3>4. QED
      BY <1>13, <3>2, <3>3
  <2> HIDE DEF S, k
  <2>3. 0 .. k \subseteq S
    BY <1>6, <2>1, <2>2, PrefixInduction
  <2>4. k \in S
    BY <1>6, <2>3
  <2>5. k + 1 = n
    BY <1>1 DEF k
  <2>6. QED
    BY <2>4, <2>5 DEF S
<1>16. f[k].ok
  BY <1>14 DEF LoadedTo
<1>17. Load(d).ok /\ Load(d).m = f[k].m
  BY <1>11, <1>16 DEF ReadsBy
<1>18. QED
  BY <1>14, <1>17

\* It takes the data of each if it takes the file.
LEMMA OkMeansLoads ==
  ASSUME NEW m, Good(m), NEW s, SaveOrder(m, s), NEW d, WholeText(m, s, d), Load(d).ok
  PROVE  \A i \in 2 .. Len(s) : m.data[s[i]].loads
<1> DEFINE k == Len(s) - 1
<1>1. k \in Nat /\ Len(s) \in Nat
  BY OrderFacts
<1>2. PICK f : ReadsBy(m, s, d, f, k)
  BY WholeTrace
<1>3. f[k].ok
  BY <1>2 DEF ReadsBy
<1>4. ASSUME NEW j \in 1 .. k, f[j].ok
      PROVE  f[j - 1].ok /\ m.data[s[j + 1]].loads
  <2> DEFINE x == Item(m, s[j + 1])
             l == f[j - 1]
             r == f[j]
  <2>1. r = LoadEntry(l, x) /\ Readable(x) /\ l \in Results
    <3>1. j - 1 \in 0 .. k
      BY <1>1
    <3>2. QED
      BY <1>2, <3>1 DEF ReadsBy
  <2>2. x.data = m.data[s[j + 1]]
    BY DEF Item
  <2>3. r.ok
    BY <1>4
  <2> HIDE DEF x, l, r
  <2>4. Takes(l, x)
    BY <2>1, <2>3, LoadEntryFacts
  <2>5. QED
    BY <2>2, <2>4 DEF Takes, l
<1> DEFINE S == {j \in 0 .. k : f[j].ok => \A i \in 2 .. j + 1 : m.data[s[i]].loads}
<1>5. 0 \in S
  BY <1>1
<1>6. \A j \in 1 .. k : j - 1 \in S => j \in S
  <2>1. TAKE j \in 1 .. k
  <2>2. HAVE j - 1 \in S
  <2>3. ASSUME f[j].ok, NEW i \in 2 .. j + 1
        PROVE  m.data[s[i]].loads
    <3>1. f[j - 1].ok /\ m.data[s[j + 1]].loads
      BY <1>4, <2>3
    <3>2. \A h \in 2 .. (j - 1) + 1 : m.data[s[h]].loads
      BY <2>2, <3>1
    <3>3. i = j + 1 \/ i \in 2 .. (j - 1) + 1
      BY <1>1
    <3>4. QED
      BY <3>1, <3>2, <3>3
  <2>4. j \in 0 .. k
    BY <1>1
  <2>5. QED
    BY <2>3, <2>4
<1> HIDE DEF S, k
<1>7. 0 .. k \subseteq S
  BY <1>1, <1>5, <1>6, PrefixInduction
<1>8. k \in S
  BY <1>1, <1>7
<1>9. \A i \in 2 .. k + 1 : m.data[s[i]].loads
  BY <1>3, <1>8 DEF S
<1>10. k + 1 = Len(s)
  BY <1>1 DEF k
<1>11. QED
  BY <1>9, <1>10

-----------------------------------------------------------------------------
(* The file of a save                                                      *)

\* The entries of these lists.
Of(k) == UNION {Range(k[p]) : p \in Places}

\* What a file that loads gives back of lists and their data.
Gives(d, k, data) ==
  /\ Load(d).m.kids = k
  /\ \A e \in Of(k) : NoGap(data[e]) => SameSums(Load(d).m.data[e], data[e])

\* Every entry that is linked is in the lists that are to be saved.
LEMMA AllLoad ==
  ASSUME NEW m, Good(m), NEW s, SaveOrder(m, s),
         \A e \in Of(ToSave(m).kids) : m.data[e].loads
  PROVE  \A i \in 2 .. Len(s) : m.data[s[i]].loads
<1> DEFINE k == ToSave(m).kids
<1>1. TAKE i \in 2 .. Len(s)
<1>2. \E p \in Places : s[i] \in Range(k[p])
  BY SavedEntries
<1> HIDE DEF k
<1>3. s[i] \in Of(k)
  BY <1>2 DEF Of
<1>4. QED
  BY <1>3 DEF k

\* load_file gives back what was to be saved.
LEMMA LoadWhole ==
  ASSUME NEW m, Good(m), NEW s, SaveOrder(m, s), NEW d, WholeText(m, s, d),
         NEW k, k = ToSave(m).kids, \A i \in 2 .. Len(s) : m.data[s[i]].loads
  PROVE  Load(d).ok /\ Gives(d, k, m.data)
<1>1. \A e : e \in Of(k) <=> \E p \in Places : e \in Range(k[p])
  BY DEF Of
<1>3. PICK l : LoadedTo(m, s, Len(s), l) /\ Load(d).ok /\ Load(d).m = l.m
  BY WholeReads
<1>4. /\ l.m.kids = k
      /\ \A e \in Entries : (\E p \in Places : e \in Range(k[p])) =>
           l.m.data[e] = ReadSums(m.data[e])
  BY <1>3, LoadedAll
<1>5. m.data \in [Entries -> Data] /\ m.kids \in [Places -> Seq(Entries)]
  BY DbFields DEF Good
<1>6. \A p \in Places : Range(k[p]) \subseteq Entries
  <2>1. l.m \in Db
    BY <1>3 DEF LoadedTo, Results
  <2>2. k \in [Places -> Seq(Entries)]
    BY <1>4, <2>1, DbFields
  <2>3. TAKE p \in Places
  <2>4. k[p] \in Seq(Entries)
    BY <2>2
  <2>5. QED
    BY <2>4 DEF Range
<1>7. ASSUME NEW p \in Places, NEW e \in Range(k[p]), NoGap(m.data[e])
      PROVE  SameSums(l.m.data[e], m.data[e])
  <2>1. e \in Entries /\ l.m.data[e] = ReadSums(m.data[e])
    BY <1>4, <1>6, <1>7
  <2>2. m.data[e] \in Data
    BY <1>5, <2>1
  <2>3. QED
    BY <1>7, <2>1, <2>2, ReadSumsFacts
<1>8. QED
  BY <1>1, <1>3, <1>4, <1>7 DEF Gives

\* The items that a save has written, of the entries of s.
Written(m, s, t) ==
  /\ t \in Seq(Range(t)) /\ Len(t) >= 2 /\ Len(t) <= Len(s) + 1
  /\ t[1] = Header(Len(m.kids[Root])) /\ t[2] = Total(0)
  /\ \A i \in 3 .. Len(t) : t[i] = Item(m, s[i - 1])

\* The item of an entry in the list can be read.
LEMMA ItemReadable ==
  ASSUME NEW m, Good(m), NEW s, SaveOrder(m, s), NEW i \in 2 .. Len(s)
  PROVE  Readable(Item(m, s[i]))
<1> DEFINE e == s[i]
<1>1. e \in Range(s) \ {Root}
  <2>1. i \in 1 .. Len(s)
    BY OrderFacts
  <2>2. QED
    BY <2>1, OrderFacts
<1> HIDE DEF e
<1>2. PICK p \in Range(s) : e \in Range(m.kids[p])
  BY <1>1 DEF SaveOrder
<1>3. p \in Places
  BY <1>2, OrderFacts
<1>4. Readable(Item(m, e))
  BY <1>2, <1>3, ItemFacts
<1>5. QED
  BY <1>4 DEF e

\* What a save has written can be read.
LEMMA WrittenReadable ==
  ASSUME NEW m, Good(m), NEW s, SaveOrder(m, s), NEW t, Written(m, s, t)
  PROVE  ReadableText(t)
<1>1. Len(m.kids[Root]) \in Nat
  BY PlaceFacts, KidFacts DEF Good, Shape
<1>2. t[1].kids \in Nat
  BY <1>1 DEF Written, Header
<1>3. t[2].n \in Nat
  BY DEF Written, Total
<1>4. \A i \in 3 .. Len(t) : Readable(t[i])
  <2>1. TAKE i \in 3 .. Len(t)
  <2>2. Len(t) \in Nat /\ Len(t) <= Len(s) + 1 /\ Len(s) \in Nat /\ t[i] = Item(m, s[i - 1])
    BY OrderFacts DEF Written
  <2> DEFINE j == i - 1
  <2>3. j \in 2 .. Len(s)
    BY <2>2
  <2> HIDE DEF j
  <2>4. Readable(Item(m, s[j]))
    BY <2>3, ItemReadable
  <2>5. QED
    BY <2>2, <2>4 DEF j
<1>5. QED
  BY <1>2, <1>3, <1>4 DEF ReadableText, Written

\* The start of a text.
LEMMA StartOf ==
  ASSUME NEW t, t \in Seq(Range(t)), NEW k \in 0 .. Len(t), NEW c, c = SubSeq(t, 1, k)
  PROVE  c \in Seq(Range(t)) /\ Len(c) = k /\ \A i \in 1 .. k : c[i] = t[i]
<1>1. Len(t) \in Nat
  OBVIOUS
<1>2. \A i \in 1 .. k : t[i] \in Range(t)
  BY <1>1, ElementOfSeq
<1>3. /\ SubSeq(t, 1, k) \in Seq(Range(t))
      /\ Len(SubSeq(t, 1, k)) = IF 1 <= k THEN k - 1 + 1 ELSE 0
      /\ \A i \in 1 .. k - 1 + 1 : SubSeq(t, 1, k)[i] = t[1 + i - 1]
  BY <1>1, <1>2, SubSeqProperties
<1>4. k \in Nat /\ k - 1 + 1 = k /\ \A i \in 1 .. k : 1 + i - 1 = i
  BY <1>1
<1>5. QED
  BY <1>3, <1>4

\* A sequence is one of what it holds.
LEMMA OfItsRange ==
  ASSUME NEW Y, NEW t \in Seq(Y)
  PROVE  t \in Seq(Range(t))
<1>1. t \in [1 .. Len(t) -> Y] /\ Len(t) \in Nat
  OBVIOUS
<1>2. \A i \in 1 .. Len(t) : t[i] \in Range(t)
  BY <1>1 DEF Range
<1>3. t \in [1 .. Len(t) -> Range(t)]
  BY <1>1, <1>2
<1>4. QED
  BY <1>1, <1>3

\* One more item, of an entry, the tail, or torn.
LEMMA OneMore ==
  ASSUME NEW t, t \in Seq(Range(t)), NEW x, NEW u, u = Append(t, x)
  PROVE  /\ u \in Seq(Range(u)) /\ Len(u) = Len(t) + 1 /\ u[Len(t) + 1] = x
         /\ \A i \in 1 .. Len(t) : u[i] = t[i]
<1> DEFINE S == Range(t) \cup {x}
<1>1. t \in Seq(S) /\ x \in S
  BY SeqMonotonic
<1> HIDE DEF S
<1> DEFINE v == Append(t, x)
<1>2. /\ v \in Seq(S) /\ Len(v) = Len(t) + 1 /\ v[Len(t) + 1] = x
      /\ \A i \in 1 .. Len(t) : v[i] = t[i]
  BY ONLY <1>1, AppendProperties
<1>3. u = v
  OBVIOUS
<1> HIDE DEF v
<1>4. u \in Seq(S)
  BY <1>2, <1>3
<1>5. u \in Seq(Range(u))
  BY <1>4, OfItsRange
<1>6. Len(u) = Len(t) + 1
  BY ONLY <1>2, <1>3
<1>7. u[Len(t) + 1] = x
  BY ONLY <1>2, <1>3
<1>8. \A i \in 1 .. Len(t) : u[i] = t[i]
  BY ONLY <1>2, <1>3
<1>9. QED
  BY ONLY <1>5, <1>6, <1>7, <1>8

\* What can be read can be so with one more item.
LEMMA MoreReadable ==
  ASSUME NEW t, ReadableText(t),
         NEW x, x = Torn \/ (Len(t) >= 2 /\ Readable(x)) \/ (Len(t) = 1 /\ x.n \in Nat),
         NEW u, u = Append(t, x)
  PROVE  ReadableText(u)
<1>1. t \in Seq(Range(t)) /\ Len(t) \in Nat
  BY DEF ReadableText
<1>2. /\ u \in Seq(Range(u)) /\ Len(u) = Len(t) + 1 /\ u[Len(t) + 1] = x
      /\ \A i \in 1 .. Len(t) : u[i] = t[i]
  <2>1. t \in Seq(Range(t)) /\ u = Append(t, x)
    BY <1>1
  <2>2. u \in Seq(Range(u)) /\ Len(u) = Len(t) + 1
    BY ONLY <2>1, OneMore
  <2>3. u[Len(t) + 1] = x
    BY ONLY <2>1, OneMore
  <2>4. \A i \in 1 .. Len(t) : u[i] = t[i]
    BY ONLY <2>1, OneMore
  <2>5. QED
    BY <2>2, <2>3, <2>4
<1>3. Len(u) >= 3 => Readable(x)
  BY <1>1, <1>2 DEF Readable, Torn
<1>4. u[1] = Torn \/ u[1].kids \in Nat
  BY <1>1, <1>2 DEF ReadableText
<1>5. Len(u) >= 2 => u[2] = Torn \/ u[2].n \in Nat
  BY <1>1, <1>2 DEF ReadableText
<1>6. \A i \in 3 .. Len(u) : Readable(u[i])
  <2>1. TAKE i \in 3 .. Len(u)
  <2>2. CASE i = Len(t) + 1
    BY <1>2, <1>3, <2>2
  <2>3. CASE i \in 3 .. Len(t)
    BY <1>1, <1>2, <2>3 DEF ReadableText
  <2>4. QED
    BY <1>1, <1>2, <2>2, <2>3
<1>7. QED
  BY <1>2, <1>4, <1>5, <1>6 DEF ReadableText

\* What is left of a text.
LEMMA CutReadable ==
  ASSUME NEW t, ReadableText(t), NEW k \in 0 .. Len(t)
  PROVE  ReadableText(SubSeq(t, 1, k)) /\ ReadableText(Append(SubSeq(t, 1, k), Torn))
<1> DEFINE c == SubSeq(t, 1, k)
<1>1. t \in Seq(Range(t)) /\ Len(t) \in Nat
  BY DEF ReadableText
<1>2. c \in Seq(Range(t)) /\ Len(c) = k /\ \A i \in 1 .. k : c[i] = t[i]
  BY <1>1, StartOf
<1> HIDE DEF c
<1>3. c \in Seq(Range(c))
  BY <1>2, OfItsRange
<1>4. ReadableText(c)
  <2>1. Len(c) >= 1 => c[1] = Torn \/ c[1].kids \in Nat
    BY <1>1, <1>2 DEF ReadableText
  <2>2. Len(c) >= 2 => c[2] = Torn \/ c[2].n \in Nat
    BY <1>1, <1>2 DEF ReadableText
  <2>3. \A i \in 3 .. Len(c) : Readable(c[i])
    BY <1>1, <1>2 DEF ReadableText
  <2>4. QED
    BY <1>3, <2>1, <2>2, <2>3 DEF ReadableText
<1>5. ReadableText(Append(c, Torn))
  BY <1>4, MoreReadable
<1>6. QED
  BY <1>4, <1>5 DEF c

\* Whatever is left of a text that can be read.
LEMMA CutsReadable ==
  ASSUME NEW t, ReadableText(t), NEW d \in Cuts(t)
  PROVE  ReadableText(d)
<1>1. Len(t) \in Nat
  BY DEF ReadableText
<1>2. PICK k \in 0 .. Len(t) - 1 : d = SubSeq(t, 1, k) \/ d = Append(SubSeq(t, 1, k), Torn)
  BY DEF Cuts
<1>3. k \in 0 .. Len(t)
  BY <1>1
<1>4. QED
  BY <1>2, <1>3, CutReadable

\* t: what a save of the list s has written before the tail; u: with the tail; d:
\* with k as the number of entries.
Patches(m, s, t, u, k, d) ==
  /\ Good(m) /\ SaveOrder(m, s) /\ Written(m, s, t) /\ Len(t) = Len(s) + 1
  /\ u = Append(t, TailItem) /\ k \in 0 .. Len(t) - 2 /\ d = Patched(u, k)

\* The tail, and a number of entries in its place.
LEMMA PatchedText ==
  ASSUME NEW m, NEW s, NEW t, NEW u, NEW k, NEW d, Patches(m, s, t, u, k, d)
  PROVE  /\ k = Len(t) - 2 => WholeText(m, s, d)
         /\ ReadableText(u) /\ Len(u) = Len(t) + 1 /\ \A i \in 1 .. Len(t) : u[i] = t[i]
         /\ ReadableText(d) /\ Len(d) = Len(t) + 1 /\ d[2].n = k
<1> DEFINE n == Len(s)
<1>0. /\ Good(m) /\ SaveOrder(m, s) /\ Written(m, s, t) /\ Len(t) = n + 1
      /\ u = Append(t, TailItem) /\ k \in 0 .. Len(t) - 2 /\ d = Patched(u, k)
  BY DEF Patches
<1>1. /\ t \in Seq(Range(t)) /\ n \in Nat /\ n >= 1 /\ Len(t) = n + 1
      /\ t[1] = Header(Len(m.kids[Root]))
      /\ \A i \in 3 .. n + 1 : t[i] = Item(m, s[i - 1])
  BY <1>0, OrderFacts DEF Written
<1>2. /\ u \in Seq(Range(u)) /\ Len(u) = n + 2 /\ u[n + 2] = TailItem
      /\ \A i \in 1 .. n + 1 : u[i] = t[i]
  <2>1. /\ u \in Seq(Range(u)) /\ Len(u) = Len(t) + 1 /\ u[Len(t) + 1] = TailItem
        /\ \A i \in 1 .. Len(t) : u[i] = t[i]
    <3> DEFINE x == TailItem
    <3>1. t \in Seq(Range(t)) /\ u = Append(t, x)
      BY <1>0, <1>1
    <3> HIDE DEF x
    <3>2. u \in Seq(Range(u)) /\ Len(u) = Len(t) + 1
      BY ONLY <3>1, OneMore
    <3>4. u[Len(t) + 1] = x
      BY ONLY <3>1, OneMore
    <3>5. \A i \in 1 .. Len(t) : u[i] = t[i]
      BY ONLY <3>1, OneMore
    <3>3. QED
      BY <3>2, <3>4, <3>5 DEF x
  <2>2. Len(t) + 1 = n + 2
    BY <1>1
  <2>3. QED
    BY <1>1, <2>1, <2>2
<1>3. ReadableText(t)
  BY <1>0, WrittenReadable
<1>4. ReadableText(u)
  <2>1. Readable(TailItem) /\ Len(t) >= 2
    BY <1>1 DEF Readable, TailItem
  <2>2. QED
    BY <1>0, <1>3, <2>1, MoreReadable
<1>5. Len(t) - 2 = n - 1 /\ k \in Nat
  BY <1>0, <1>1
<1> DEFINE x == Total(k)
<1>6. d = [u EXCEPT ![2] = x]
  BY <1>0 DEF Patched
<1>7. x.n = k
  BY DEF Total
<1> HIDE DEF x, n
<1>8. /\ d \in Seq(Range(d)) /\ Len(d) = n + 2 /\ d[2] = x
      /\ \A i \in 1 .. n + 2 : i # 2 => d[i] = u[i]
  <2> DEFINE S == Range(u) \cup {x}
             h == n + 2
  <2>0. u \in Seq(Range(u)) /\ Len(u) = h /\ h \in Nat /\ 2 \in 1 .. h
    BY <1>1, <1>2
  <2>1. u \in [1 .. h -> Range(u)]
    <3> HIDE DEF h
    <3>1. QED
      BY ONLY <2>0
  <2> HIDE DEF h
  <2>2. d \in [1 .. h -> S] /\ d[2] = x /\ \A i \in 1 .. h : i # 2 => d[i] = u[i]
    <3>1. \A i \in 1 .. h : u[i] \in S
      BY ONLY <2>1
    <3>2. x \in S
      OBVIOUS
    <3> HIDE DEF S
    <3>3. QED
      BY ONLY <1>6, <2>0, <2>1, <3>1, <3>2
  <2> USE DEF h
  <2> HIDE DEF S
  <2>3. d \in Seq(S) /\ Len(d) = n + 2
    BY <1>1, <2>2
  <2>4. QED
    BY <2>2, <2>3, OfItsRange
<1>9. d[1] = t[1] /\ d[n + 2] = TailItem /\ \A i \in 3 .. n + 1 : d[i] = t[i]
  BY <1>1, <1>2, <1>8
<1>10. ASSUME k = Len(t) - 2
       PROVE  WholeText(m, s, d)
  BY <1>1, <1>5, <1>8, <1>9, <1>10 DEF WholeText, n, x
<1>11. ReadableText(d)
  <2>1. d[1] = Torn \/ d[1].kids \in Nat
    BY <1>1, <1>3, <1>9 DEF ReadableText
  <2>2. d[2].n \in Nat
    BY <1>5, <1>7, <1>8
  <2>3. \A i \in 3 .. Len(d) : Readable(d[i])
    <3>1. TAKE i \in 3 .. Len(d)
    <3>2. i \in 1 .. n + 2 /\ i # 2 /\ i \in 3 .. Len(u)
      BY <1>1, <1>2, <1>8
    <3>3. d[i] = u[i] /\ Readable(u[i])
      BY <1>4, <1>8, <3>2 DEF ReadableText
    <3>4. QED
      BY <3>3
  <2>4. QED
    BY <1>8, <2>1, <2>2, <2>3 DEF ReadableText
<1>12. /\ Len(u) = Len(t) + 1 /\ \A i \in 1 .. Len(t) : u[i] = t[i]
       /\ Len(d) = Len(t) + 1 /\ d[2].n = k
  BY <1>1, <1>2, <1>7, <1>8
<1>13. QED
  BY <1>4, <1>10, <1>11, <1>12

-----------------------------------------------------------------------------
(* What a crash or a failed write leaves behind                            *)
\* What save_file has written before its tail: a header, the number of entries,
\* still zero, and entries.
BeforeTail(text) ==
  /\ text \in Seq(Range(text)) /\ Len(text) >= 2
  /\ text[2] = Total(0)
  /\ \A i \in 3 .. Len(text) : text[i].kind = "entry"

\* The inductive invariant of a save under way: the items before its tail, and
\* nothing left to write once the tail is written; its file is empty.
SaveInv ==
  /\ job # NoJob =>
       /\ job = [text |-> job.text, out |-> job.out, rest |-> job.rest, tail |-> job.tail]
       /\ BeforeTail(job.text) /\ job.out \in 0 .. Len(job.text)
       /\ job.tail \in BOOLEAN /\ (job.tail => job.rest = <<>>)
       /\ disk = <<>>
  /\ saved = [kids |-> saved.kids, data |-> saved.data, whole |-> saved.whole]

\* A text of which the number of entries is not there, torn or zero loads only
\* if the tail is its third item.
LEMMA NoTailNoLoad ==
  ASSUME NEW S, NEW text \in Seq(S),
         Len(text) >= 2 => text[2] \in {Total(0), Torn},
         Len(text) = 3 => text[3] # TailItem
  PROVE  ~Load(text).ok
<1>1. CASE Len(text) < 2 \/ text[1] = Torn \/ text[2] = Torn
  BY <1>1 DEF Load
<1>2. CASE ~(Len(text) < 2 \/ text[1] = Torn \/ text[2] = Torn)
  <2>1. Len(text) \in Nat /\ text[2] = Total(0) /\ text[2].n = 0
    BY <1>2 DEF Total
  <2>2. ~WholeFile(text, 0)
    BY <2>1 DEF WholeFile
  <2>3. ~WholeFile(text, text[2].n)
    BY <2>1, <2>2
  <2>4. QED
    BY <1>2, <2>3 DEF Load
<1>3. QED
  BY <1>1, <1>2

\* What is left of a text without its tail does not load.
LEMMA CutNeverLoads ==
  ASSUME NEW text, BeforeTail(text), NEW k \in 0 .. Len(text)
  PROVE  /\ ~Load(SubSeq(text, 1, k)).ok
         /\ ~Load(Append(SubSeq(text, 1, k), Torn)).ok
<1> DEFINE S == Range(text) \cup {Torn}
           c == SubSeq(text, 1, k)
           t == Append(c, Torn)
<1>1. Len(text) \in Nat /\ text \in Seq(Range(text))
  BY DEF BeforeTail
<1>2. c \in Seq(Range(text)) /\ Len(c) = k /\ \A i \in 1 .. k : c[i] = text[i]
  <2>1. \A i \in 1 .. k : text[i] \in Range(text)
    BY <1>1, ElementOfSeq
  <2>2. /\ SubSeq(text, 1, k) \in Seq(Range(text))
        /\ Len(SubSeq(text, 1, k)) = IF 1 <= k THEN k - 1 + 1 ELSE 0
        /\ \A i \in 1 .. k - 1 + 1 : SubSeq(text, 1, k)[i] = text[1 + i - 1]
    BY <1>1, <2>1, SubSeqProperties
  <2>3. k \in Nat /\ k - 1 + 1 = k /\ \A i \in 1 .. k : 1 + i - 1 = i
    BY <1>1
  <2>4. QED
    BY <2>2, <2>3
<1> HIDE DEF c
<1>3. \A i \in 1 .. k : i >= 3 => text[i].kind = "entry"
  BY <1>1 DEF BeforeTail
<1>4. TailItem.kind = "tail" /\ Torn.kind = "torn"
  BY DEF TailItem, Torn
<1>5. ~Load(c).ok
  <2>1. Len(c) >= 2 => c[2] \in {Total(0), Torn}
    BY <1>2 DEF BeforeTail
  <2>2. Len(c) = 3 => c[3] # TailItem
    BY <1>2, <1>3, <1>4
  <2>3. QED
    BY <1>2, <2>1, <2>2, NoTailNoLoad
<1>6. /\ t \in Seq(S) /\ Len(t) = k + 1 /\ t[k + 1] = Torn
      /\ \A i \in 1 .. k : t[i] = text[i]
  <2>1. c \in Seq(S) /\ Torn \in S
    BY <1>2, SeqMonotonic
  <2> HIDE DEF S
  <2>2. QED
    BY <1>2, <2>1, AppendProperties
<1> HIDE DEF t
<1>7. ~Load(t).ok
  <2>1. Len(t) >= 2 => t[2] \in {Total(0), Torn}
    <3>1. CASE k = 1
      BY <1>6, <3>1
    <3>2. CASE k >= 2
      BY <1>6, <3>2 DEF BeforeTail
    <3>3. QED
      BY <1>6, <3>1, <3>2
  <2>2. Len(t) = 3 => t[3] # TailItem
    BY <1>4, <1>6
  <2>3. QED
    BY <1>6, <2>1, <2>2, NoTailNoLoad
<1>8. QED
  BY <1>5, <1>7 DEF c, t

\* Nor does what is left of a start of it.
LEMMA CutOfStart ==
  ASSUME NEW t, BeforeTail(t), NEW o \in 0 .. Len(t),
         NEW d \in Cuts(SubSeq(t, 1, o)) \cup {SubSeq(t, 1, o)}
  PROVE  ~Load(d).ok
<1> DEFINE u == SubSeq(t, 1, o)
<1>1. t \in Seq(Range(t)) /\ Len(t) \in Nat
  BY DEF BeforeTail
<1>2. u \in Seq(Range(t)) /\ Len(u) = o /\ \A i \in 1 .. o : u[i] = t[i]
  BY <1>1, StartOf
<1>3. CASE d = u
  BY <1>3, CutNeverLoads
<1>4. CASE d \in Cuts(u)
  <2> HIDE DEF u
  <2>1. PICK k \in 0 .. Len(u) - 1 : d \in {SubSeq(u, 1, k), Append(SubSeq(u, 1, k), Torn)}
    BY <1>4 DEF Cuts
  <2>2. k \in 0 .. Len(t) /\ k <= o
    BY <1>1, <1>2
  <2>3. SubSeq(u, 1, k) = SubSeq(t, 1, k)
    BY <1>1, <1>2, <2>2
  <2>4. QED
    BY <2>1, <2>2, <2>3, CutNeverLoads
<1>5. QED
  BY <1>3, <1>4

\* The item that copy_ptr_to_buf appends, the entry or the tail.
LEMMA OneItemMore ==
  ASSUME NEW item, job # NoJob, SaveInv
  PROVE  LET j == CopyToBuf(item) IN
         /\ j = [text |-> Append(job.text, item), out |-> j.out, rest |-> job.rest,
                 tail |-> job.tail]
         /\ j.out \in 0 .. Len(job.text)
         /\ j.text \in Seq(Range(j.text)) /\ Len(j.text) = Len(job.text) + 1
         /\ j.text[Len(job.text) + 1] = item
         /\ \A i \in 1 .. Len(job.text) : j.text[i] = job.text[i]
<1> DEFINE j == CopyToBuf(item)
           t == job.text
           u == Append(t, item)
           o == IF BufferFull THEN Len(t) ELSE job.out
           S == Range(t) \cup {item}
<1>1. /\ job = [text |-> t, out |-> job.out, rest |-> job.rest, tail |-> job.tail]
      /\ t \in Seq(Range(t)) /\ Len(t) \in Nat /\ job.out \in 0 .. Len(t)
  BY DEF SaveInv, BeforeTail
<1>2. j = [text |-> u, out |-> o, rest |-> job.rest, tail |-> job.tail]
  <2>1. j = [job EXCEPT !.text = Append(job.text, item), !.out = o]
    BY DEF CopyToBuf
  <2> HIDE DEF o, t
  <2>2. QED
    BY <1>1, <2>1 DEF t
<1>3. o \in 0 .. Len(t)
  BY <1>1
<1>4. /\ u \in Seq(S) /\ Len(u) = Len(t) + 1 /\ u[Len(t) + 1] = item
      /\ \A i \in 1 .. Len(t) : u[i] = t[i]
  <2>1. t \in Seq(S) /\ item \in S
    BY <1>1, SeqMonotonic
  <2> HIDE DEF S, t
  <2>2. QED
    BY <2>1, AppendProperties
<1> HIDE DEF u, t, o, j
<1>5. u \in Seq(Range(u))
  <2>1. u \in [1 .. Len(u) -> S] /\ Len(u) \in Nat
    BY <1>4
  <2>2. \A i \in 1 .. Len(u) : u[i] \in Range(u)
    BY <2>1 DEF Range
  <2>3. u \in [1 .. Len(u) -> Range(u)]
    BY <2>1, <2>2
  <2>4. QED
    BY <2>1, <2>3
<1>7. j.text = u /\ j.out = o
  BY <1>2
<1>8. QED
  BY <1>2, <1>3, <1>4, <1>5, <1>7 DEF j, t, u

\* Each step of a command or of a save keeps the invariant.
LEMMA SaveInvStep ==
  ASSUME SaveInv, [Next]_vars
  PROVE  SaveInv'
<1>1. ASSUME UNCHANGED <<disk, job, saved>>
      PROVE  SaveInv'
  BY <1>1 DEF SaveInv, BeforeTail
<1>2. ASSUME NEW p \in Places, NEW c \in Contents, NEW bad \in BOOLEAN,
             Add(p, c, bad)
      PROVE  SaveInv'
  BY <1>1, <1>2 DEF Add
<1>3. ASSUME NEW e \in Entries, Delete(e)
      PROVE  SaveInv'
  BY <1>1, <1>3 DEF Delete
<1>4. ASSUME StartSave
      PROVE  SaveInv'
  <2> DEFINE text == <<Header(Len(mem.kids[Root])), Total(0)>>
  <2>1. PICK rest : job' = [text |-> text, out |-> 1, rest |-> rest, tail |-> FALSE]
    BY <1>4 DEF StartSave
  <2>2. disk' = <<>> /\ saved' = ToSave(mem)
    BY <1>4 DEF StartSave
  <2>3. BeforeTail(text)
    <3>1. \A x, y : <<x, y>> \in Seq({x, y}) /\ Range(<<x, y>>) = {x, y}
      BY DEF Range
    <3>2. text \in Seq(Range(text))
      <4> DEFINE x == Header(Len(mem.kids[Root]))
                 y == Total(0)
      <4> HIDE DEF x, y
      <4>1. <<x, y>> \in Seq(Range(<<x, y>>))
        BY <3>1
      <4>2. QED
        BY <4>1 DEF x, y
    <3>3. Len(text) = 2 /\ text[2] = Total(0)
      OBVIOUS
    <3> HIDE DEF text
    <3>4. QED
      BY <3>2, <3>3 DEF BeforeTail
  <2>4. Len(text) = 2
    OBVIOUS
  <2> HIDE DEF text
  <2>5. /\ job' = [text |-> job'.text, out |-> job'.out, rest |-> job'.rest,
                   tail |-> job'.tail]
        /\ job'.text = text /\ job'.out = 1 /\ job'.tail = FALSE
    BY <2>1
  <2>6. saved' = [kids |-> saved'.kids, data |-> saved'.data, whole |-> saved'.whole]
    BY <2>2 DEF ToSave
  <2>8. BeforeTail(job'.text) /\ job'.out \in 0 .. Len(job'.text)
    BY <2>3, <2>4, <2>5
  <2>9. /\ job' = [text |-> job'.text, out |-> job'.out, rest |-> job'.rest,
                   tail |-> job'.tail]
        /\ disk' = <<>> /\ job'.tail \in BOOLEAN /\ ~job'.tail
    BY <2>2, <2>5
  <2>10. QED
    BY <2>6, <2>8, <2>9 DEF SaveInv, BeforeTail
<1>5. ASSUME WriteEntry
      PROVE  SaveInv'
  <2> DEFINE item == Item(mem, Head(job.rest))
             j == CopyToBuf(item)
  <2>1. job # NoJob /\ job' = [j EXCEPT !.rest = Tail(@)] /\ UNCHANGED <<disk, saved>>
    BY <1>5 DEF WriteEntry
  <2>2. item.kind = "entry"
    BY DEF Item
  <2> HIDE DEF item
  <2>3. /\ j = [text |-> Append(job.text, item), out |-> j.out, rest |-> job.rest,
                tail |-> job.tail]
        /\ j.out \in 0 .. Len(job.text)
        /\ j.text \in Seq(Range(j.text)) /\ Len(j.text) = Len(job.text) + 1
        /\ j.text[Len(job.text) + 1] = item
        /\ \A i \in 1 .. Len(job.text) : j.text[i] = job.text[i]
    BY <2>1, OneItemMore
  <2> HIDE DEF j
  <2>4. /\ job' = [text |-> j.text, out |-> j.out, rest |-> Tail(job.rest),
                   tail |-> job.tail]
        /\ job'.text = j.text /\ job'.out = j.out /\ job'.tail = job.tail
    <3> DEFINE a == j.text
               b == j.out
               c == job.rest
               n == Tail(c)
               e == job.tail
    <3>1. j = [text |-> a, out |-> b, rest |-> c, tail |-> e]
      BY <2>3
    <3>2. job' = [j EXCEPT !.rest = Tail(j.rest)]
      BY <2>1
    <3> HIDE DEF a, b, c, e
    <3>3. job' = [text |-> a, out |-> b, rest |-> n, tail |-> e]
      <4>1. j.rest = c
        BY <3>1
      <4>2. job' = [j EXCEPT !.rest = n]
        BY <3>2, <4>1
      <4> HIDE DEF n
      <4>3. QED
        BY <3>1, <4>2
    <3>4. QED
      BY <3>3 DEF a, b, c, e
  <2>5. BeforeTail(job.text) /\ Len(job.text) \in Nat
    BY <2>1 DEF SaveInv, BeforeTail
  <2>6. BeforeTail(j.text)
    <3>1. \A i \in 3 .. Len(j.text) : j.text[i].kind = "entry"
      <4>1. TAKE i \in 3 .. Len(j.text)
      <4>2. CASE i = Len(job.text) + 1
        BY <2>2, <2>3, <4>2
      <4>3. CASE i \in 3 .. Len(job.text)
        BY <2>3, <2>5, <4>3 DEF BeforeTail
      <4>4. QED
        BY <2>3, <2>5, <4>2, <4>3
    <3>2. j.text[2] = Total(0)
      BY <2>3, <2>5 DEF BeforeTail
    <3>3. QED
      BY <2>3, <2>5, <3>1, <3>2 DEF BeforeTail
  <2>7. job'.out \in 0 .. Len(job'.text)
    BY <2>3, <2>4, <2>5
  <2>8. /\ disk = <<>> /\ job.tail \in BOOLEAN /\ (job.tail => job.rest = <<>>)
        /\ saved = [kids |-> saved.kids, data |-> saved.data, whole |-> saved.whole]
    BY <2>1 DEF SaveInv
  <2>9. /\ job' = [text |-> job'.text, out |-> job'.out, rest |-> job'.rest,
                   tail |-> job'.tail]
        /\ job'.tail \in BOOLEAN /\ ~job'.tail
    <3>1. job.rest # <<>>
      BY <1>5 DEF WriteEntry
    <3>2. QED
      BY <2>4, <2>8, <3>1
  <2>10. BeforeTail(job'.text)
    BY <2>4, <2>6
  <2>11. QED
    BY <2>1, <2>7, <2>8, <2>9, <2>10 DEF SaveInv, BeforeTail
<1>6. ASSUME FlushFails
      PROVE  SaveInv'
  BY <1>1, <1>6 DEF FlushFails
<1>7. ASSUME FinishSave
      PROVE  SaveInv'
  <2>1. job' = NoJob /\ saved' = [saved EXCEPT !.whole = TRUE]
    BY <1>7 DEF FinishSave
  <2>2. saved = [kids |-> saved.kids, data |-> saved.data, whole |-> saved.whole]
    BY DEF SaveInv
  <2>3. saved' = [kids |-> saved.kids, data |-> saved.data, whole |-> TRUE]
    BY <2>1, <2>2
  <2>4. saved'.whole /\ saved' = [kids |-> saved'.kids, data |-> saved'.data,
                                  whole |-> saved'.whole]
    BY <2>3
  <2>5. QED
    BY <2>1, <2>4 DEF SaveInv
<1>8. ASSUME job' = NoJob, UNCHANGED saved
      PROVE  SaveInv'
  BY <1>8 DEF SaveInv
<1>9. ASSUME WriteTail
      PROVE  SaveInv'
  <2>1. /\ job # NoJob /\ job.rest = <<>> /\ UNCHANGED <<disk, saved>>
        /\ job' = [job EXCEPT !.tail = TRUE, !.out = Len(job.text)]
    BY <1>9 DEF WriteTail
  <2>2. /\ job = [text |-> job.text, out |-> job.out, rest |-> job.rest, tail |-> job.tail]
        /\ BeforeTail(job.text) /\ Len(job.text) \in Nat /\ disk = <<>>
        /\ saved = [kids |-> saved.kids, data |-> saved.data, whole |-> saved.whole]
    BY <2>1 DEF SaveInv, BeforeTail
  <2> DEFINE n == Len(job.text)
             t == job.text
             r == job.rest
  <2>3. job' = [text |-> t, out |-> n, rest |-> r, tail |-> TRUE]
    <3> DEFINE o == job.out
               e == job.tail
    <3>1. job = [text |-> t, out |-> o, rest |-> r, tail |-> e]
      BY <2>2
    <3>2. job' = [job EXCEPT !.tail = TRUE, !.out = n]
      BY <2>1
    <3> HIDE DEF n, t, r, o, e
    <3>3. QED
      BY ONLY <3>1, <3>2
  <2> HIDE DEF n, t, r
  <2>4. /\ job' = [text |-> job'.text, out |-> job'.out, rest |-> job'.rest,
                   tail |-> job'.tail]
        /\ job'.text = t /\ job'.out = n /\ job'.rest = r /\ job'.tail = TRUE
    BY <2>3
  <2>5. BeforeTail(job'.text) /\ job'.out \in 0 .. Len(job'.text)
    BY <2>2, <2>4 DEF n, t
  <2>6. job'.rest = <<>>
    BY <2>1, <2>4 DEF r
  <2>7. QED
    BY <2>1, <2>2, <2>4, <2>5, <2>6 DEF SaveInv, BeforeTail
<1>10. ASSUME Crash
       PROVE  SaveInv'
  <2>1. CASE job = NoJob
    <3>1. UNCHANGED <<disk, job, saved>>
      BY <1>10, <2>1 DEF Crash
    <3>2. QED
      BY <1>1, <3>1
  <2>2. CASE job # NoJob
    BY <1>8, <1>10 DEF Crash
  <2>3. QED
    BY <2>1, <2>2
<1>11. ASSUME LoadFile \/ NewDb \/ Unload
       PROVE  SaveInv'
  BY <1>1, <1>11 DEF LoadFile, NewDb, Unload
<1>12. CASE UNCHANGED vars
  BY <1>1, <1>12 DEF vars
<1>13. CASE LoseWrites
  BY <1>8, <1>13 DEF LoseWrites
<1>14. ASSUME SeekFlushFails
       PROVE  SaveInv'
  BY <1>1, <1>8, <1>14 DEF SeekFlushFails
<1>15. QED
  BY <1>2, <1>3, <1>4, <1>5, <1>6, <1>7, <1>9, <1>10, <1>11, <1>12, <1>13, <1>14 DEF Next

\* What may be left of a text u with all entries and the tail, when their number n
\* is written last.
Left(u, n, d) ==
  \/ \E k \in 0 .. n : d = Patched(u, k)
  \/ d \in Cuts(u)
  \/ \E k \in 1 .. Len(u) : d = Append(SubSeq(u, 1, k), Total(n))

\* A text that does not end with the tail does not load.
LEMMA NoTailAtEnd ==
  ASSUME NEW S, NEW text \in Seq(S), text[Len(text)] # TailItem
  PROVE  ~Load(text).ok
<1>1. \A n : ~WholeFile(text, n)
  BY DEF WholeFile
<1>2. QED
  BY <1>1 DEF Load

\* None of it loads but the text with its number.
LEMMA LeftOver ==
  ASSUME NEW m, Good(m), NEW s, SaveOrder(m, s), NEW t, Written(m, s, t), Len(t) = Len(s) + 1,
         NEW u, u = Append(t, TailItem), NEW n, n = Len(t) - 2, NEW d, Left(u, n, d)
  PROVE  ReadableText(d) /\ (Load(d).ok => WholeText(m, s, d))
<1>1. t \in Seq(Range(t)) /\ Len(t) \in Nat /\ Len(t) >= 2 /\ n \in Nat /\ n <= Len(t) - 2
  BY DEF Written
<1>2. /\ ReadableText(u) /\ Len(u) = Len(t) + 1 /\ \A i \in 1 .. Len(t) : u[i] = t[i]
      /\ u \in Seq(Range(u))
  <2>1. 0 \in 0 .. Len(t) - 2
    BY <1>1
  <2> DEFINE e == Patched(u, 0)
  <2>4. Patches(m, s, t, u, 0, e)
    BY <2>1 DEF Patches
  <2> HIDE DEF e
  <2>2. /\ ReadableText(u) /\ Len(u) = Len(t) + 1 /\ \A i \in 1 .. Len(t) : u[i] = t[i]
    BY ONLY <2>4, PatchedText
  <2>3. QED
    BY <2>2 DEF ReadableText
<1>3. ASSUME NEW k \in 0 .. n, d = Patched(u, k)
      PROVE  ReadableText(d) /\ (Load(d).ok => WholeText(m, s, d))
  <2>1. Patches(m, s, t, u, k, d)
    <3>1. k \in 0 .. Len(t) - 2
      BY <1>1
    <3>2. QED
      BY <1>3, <3>1 DEF Patches
  <2>2. /\ k = Len(t) - 2 => WholeText(m, s, d)
        /\ ReadableText(d) /\ Len(d) = Len(t) + 1 /\ d[2].n = k
    BY ONLY <2>1, PatchedText
  <2>3. ASSUME Load(d).ok
        PROVE  k = Len(t) - 2
    <3>1. WholeFile(d, d[2].n)
      BY <2>3 DEF Load
    <3>2. Len(d) = k + 3
      BY <2>2, <3>1 DEF WholeFile
    <3>3. QED
      BY <1>1, <2>2, <3>2
  <2>4. QED
    BY <2>2, <2>3
<1>4. ASSUME d \in Cuts(u)
      PROVE  ReadableText(d) /\ ~Load(d).ok
  <2>1. ReadableText(d)
    BY <1>2, <1>4, CutsReadable
  <2>2. PICK k \in 0 .. Len(u) - 1 : d = SubSeq(u, 1, k) \/ d = Append(SubSeq(u, 1, k), Torn)
    BY <1>4 DEF Cuts
  <2>3. k \in 0 .. Len(t)
    BY <1>1, <1>2
  <2>4. SubSeq(u, 1, k) = SubSeq(t, 1, k)
    <3>1. \A i \in 1 .. k : u[i] = t[i]
      BY <1>1, <1>2, <2>3
    <3>2. k <= Len(t) /\ k <= Len(u) /\ k \in Nat
      BY <1>1, <1>2, <2>3
    <3>3. QED
      BY ONLY <1>1, <1>2, <3>1, <3>2
  <2>5. BeforeTail(t)
    <3>1. \A i \in 3 .. Len(t) : t[i].kind = "entry"
      <4>1. TAKE i \in 3 .. Len(t)
      <4>2. t[i] = Item(m, s[i - 1])
        BY DEF Written
      <4>3. \A e : Item(m, e).kind = "entry"
        BY DEF Item
      <4>4. QED
        BY <4>2, <4>3
    <3>2. QED
      BY <1>1, <3>1 DEF BeforeTail, Written
  <2>6. QED
    BY <2>1, <2>2, <2>3, <2>4, <2>5, CutNeverLoads
<1>5. ASSUME NEW k \in 1 .. Len(u), d = Append(SubSeq(u, 1, k), Total(n))
      PROVE  ReadableText(d) /\ ~Load(d).ok
  <2> DEFINE c == SubSeq(u, 1, k)
             x == Total(n)
  <2>1. k \in 0 .. Len(u) /\ k \in Nat /\ k >= 1
    BY <1>1, <1>2
  <2>2. ReadableText(c) /\ Len(c) = k /\ c \in Seq(Range(u))
    BY <1>2, <2>1, CutReadable, StartOf
  <2>3. x.kind = "total" /\ x.n \in Nat /\ Readable(x)
    BY <1>1 DEF Total, Readable
  <2>4. TailItem.kind = "tail"
    BY DEF TailItem
  <2>5. d = Append(c, x)
    BY <1>5
  <2> HIDE DEF c, x
  <2>6. ReadableText(d)
    <3>1. (Len(c) >= 2 /\ Readable(x)) \/ (Len(c) = 1 /\ x.n \in Nat)
      BY <2>1, <2>2, <2>3
    <3>2. QED
      BY <2>2, <2>5, <3>1, MoreReadable
  <2>7. d \in Seq(Range(d)) /\ Len(d) = Len(c) + 1 /\ d[Len(c) + 1] = x
    <3>1. c \in Seq(Range(c))
      BY <2>2 DEF ReadableText
    <3>2. QED
      BY <2>5, <3>1, OneMore
  <2>8. d[Len(d)] # TailItem
    BY <2>3, <2>4, <2>7
  <2>9. ~Load(d).ok
    BY <2>7, <2>8, NoTailAtEnd
  <2>10. QED
    BY <2>6, <2>9
<1>6. QED
  BY <1>3, <1>4, <1>5 DEF Left

\* What a save leaves behind gives back what was to be saved, if it loads.
LEMMA LeftBehind ==
  ASSUME NEW m, Good(m), NEW s, SaveOrder(m, s), NEW t, Written(m, s, t), Len(t) = Len(s) + 1,
         NEW u, u = Append(t, TailItem), NEW n, n = Len(t) - 2, NEW d, Left(u, n, d),
         NEW k, k = ToSave(m).kids
  PROVE  ReadableText(d) /\ (Load(d).ok => Gives(d, k, m.data))
<1>1. ReadableText(d) /\ (Load(d).ok => WholeText(m, s, d))
  BY LeftOver
<1>2. ASSUME Load(d).ok
      PROVE  Gives(d, k, m.data)
  <2>1. WholeText(m, s, d)
    BY <1>1, <1>2
  <2>2. \A i \in 2 .. Len(s) : m.data[s[i]].loads
    BY <1>2, <2>1, OkMeansLoads
  <2>3. QED
    BY <2>1, <2>2, LoadWhole
<1>3. QED
  BY <1>1, <1>2

-----------------------------------------------------------------------------
(* The commands on the database in memory                                  *)

\* What is recorded of an array has no part in the shape of the database.
LEMMA SameGood ==
  ASSUME NEW m, Good(m), NEW w \in Db, w.kids = m.kids, w.bad = m.bad, w.data = m.data
  PROVE  Good(w) /\ InUse(w) = InUse(m)
<1>1. InUse(w) = InUse(m)
  BY DEF InUse
<1>2. IsTree(w)
  <2>1. IsTree(m)
    BY DEF Good, Shape
  <2>2. OneParent(w)
    BY <2>1 DEF IsTree, OneParent
  <2>3. PICK N \in Nat : \E depth \in [Places -> 0 .. N] : Depths(m, N, depth)
    BY <2>1 DEF IsTree
  <2>4. PICK depth \in [Places -> 0 .. N] : Depths(m, N, depth)
    BY <2>3
  <2>5. Depths(w, N, depth)
    BY <2>4 DEF Depths
  <2>6. QED
    BY <2>1, <2>2, <2>5 DEF IsTree
<1>3. QED
  BY <1>1, <1>2 DEF Good, Shape

\* A new array in the place of one that was recorded.
LEMMA ForgetGood ==
  ASSUME NEW m, Good(m), NEW p \in Places, NEW w, w = Forget(m, p)
  PROVE  Good(w) /\ InUse(w) = InUse(m)
<1>1. CASE w = m
  BY <1>1
<1>2. CASE w = [m EXCEPT !.own = @ \ {p}]
  <2>1. m \in Db /\ m.own \in SUBSET Places
    BY DbFields DEF Good
  <2>2. w.kids = m.kids /\ w.bad = m.bad /\ w.data = m.data /\ w \in Db
    BY <1>2, <2>1 DEF Db
  <2>3. QED
    BY <2>2, SameGood
<1>3. QED
  BY <1>1, <1>2 DEF Forget

\* What touch, mkdir, fp and cp make.
Added(w, e, c, b) == [w EXCEPT !.data[e] = c, !.bad = b]

\* A new entry with its data, good or bad, below one in use.
LEMMA PutGood ==
  ASSUME NEW m, Good(m), NEW p \in InUse(m) \cup {Root}, NEW e \in Entries \ InUse(m),
         NEW c \in Data, NEW moves \in BOOLEAN,
         NEW w, w = PutChild(m, p, e, moves), NEW b, b \subseteq w.bad \cup {e}
  PROVE  Good(Added(w, e, c, b))
<1> DEFINE r == Added(w, e, c, b)
<1>1. m \in Db /\ m.kids \in [Places -> Seq(Entries)]
  BY DbFields DEF Good
<1>2. p \in Places /\ e \in Entries
  BY <1>1, InUseFacts, PlaceFacts
<1>3. w \in Db /\ w.kids = [m.kids EXCEPT ![p] = Append(@, e)] /\ w.bad = m.bad /\ w.data = m.data
  <2>1. w = PutChild(m, p, e, moves) /\ moves \in BOOLEAN
    OBVIOUS
  <2>2. QED
    BY ONLY <1>1, <1>2, <2>1, PutFacts
<1>4. /\ w.kids \in [Places -> Seq(Entries)] /\ w.spare \in [Places -> Nat]
      /\ w.bad \in SUBSET Entries /\ w.data \in [Entries -> Data]
      /\ w.own \in SUBSET Places /\ w.dangling \in BOOLEAN
  BY <1>3, DbFields
<1>5. /\ r.kids = w.kids /\ r.bad = b /\ r.data = [w.data EXCEPT ![e] = c]
      /\ r.spare = w.spare /\ r.own = w.own /\ r.dangling = w.dangling
      /\ r = [kids |-> r.kids, spare |-> r.spare, bad |-> r.bad, data |-> r.data,
              own |-> r.own, dangling |-> r.dangling]
  <2>1. r = [w EXCEPT !.data[e] = c, !.bad = b]
    BY DEF Added
  <2> HIDE DEF r
  <2>2. QED
    BY ONLY <1>3, <2>1 DEF Db
<1> HIDE DEF r
<1>6. r.data \in [Entries -> Data] /\ r.bad \in SUBSET Entries
  BY <1>2, <1>4, <1>5
<1>7. r \in Db
  BY ONLY <1>4, <1>5, <1>6 DEF Db
<1>8. /\ r.kids = [m.kids EXCEPT ![p] = Append(@, e)]
      /\ r.data = [m.data EXCEPT ![e] = c] /\ r.bad \subseteq m.bad \cup {e}
  BY <1>3, <1>5
<1>9. /\ Good(m) /\ p \in InUse(m) \cup {Root} /\ e \in Entries \ InUse(m)
      /\ c \in Data
  OBVIOUS
<1>10. Good(r)
  BY ONLY <1>7, <1>8, <1>9, AddGood
<1>11. QED
  BY <1>10 DEF r

\* touch, mkdir, fp and cp keep the shape of the database.
LEMMA AddKeeps ==
  ASSUME NEW p \in Places, NEW c \in Contents, NEW bad \in BOOLEAN, Add(p, c, bad), Good(mem)
  PROVE  Good(mem')
<1> DEFINE free == Entries \ InUse(mem)
           e == CHOOSE x \in free : \A y \in free : x <= y
           m == Forget(mem, p)
<1>1. e \in free
  <2>1. free # {} /\ free \subseteq Nat
    BY DEF Add, Entries
  <2>2. \E x \in free : \A y \in free : x <= y
    <3> HIDE DEF free
    <3>1. QED
      BY <2>1, LeastElement
  <2>3. QED
    BY <2>2
<1>2. PICK moves \in Moves(m, p) :
        mem' = [PutChild(m, p, e, moves) EXCEPT
                  !.data[e] = c, !.bad = IF bad THEN @ \cup {e} ELSE @ \ {e}]
  BY DEF Add
<1>3. moves \in BOOLEAN
  BY <1>2 DEF Moves
<1>4. p \in InUse(mem) \cup {Root}
  BY DEF Add
<1> HIDE DEF free, e, m
<1>5. Good(m) /\ InUse(m) = InUse(mem)
  BY ForgetGood DEF m
<1> DEFINE w == PutChild(m, p, e, moves)
           b == IF bad THEN w.bad \cup {e} ELSE w.bad \ {e}
<1>6. mem' = Added(w, e, c, b)
  BY <1>2 DEF Added
<1>7. /\ c \in Data /\ p \in InUse(m) \cup {Root}
      /\ e \in Entries \ InUse(m) /\ b \subseteq w.bad \cup {e}
  BY <1>1, <1>4, <1>5, DataFileAssumption DEF free
<1>8. w = PutChild(m, p, e, moves)
  OBVIOUS
<1> HIDE DEF w, b
<1>9. Good(Added(w, e, c, b))
  BY ONLY <1>3, <1>5, <1>7, <1>8, PutGood
<1>10. QED
  BY <1>6, <1>9

\* rm, and rm -r of an entry with one child, keep it, too.
LEMMA DeleteKeeps ==
  ASSUME NEW e \in Entries, Delete(e), Good(mem)
  PROVE  Good(mem')
<1>1. e \in InUse(mem) /\ e \in Places /\ IsTree(mem) /\ mem.kids \in [Places -> Seq(Entries)]
  BY PlaceFacts DEF Delete, Good, Shape, IsTree
<1>2. CASE mem.kids[e] = <<>> /\ mem' = Cut(mem, e)
  BY <1>1, <1>2, CutGood
<1>3. CASE /\ Len(mem.kids[e]) = 1 /\ mem.kids[Head(mem.kids[e])] = <<>>
           /\ mem' = [Cut(Cut(mem, Head(mem.kids[e])), e) EXCEPT
                        !.dangling = @ \/ e \in mem.own]
  <2> DEFINE c == Head(mem.kids[e])
             w == Cut(mem, c)
             v == Cut(w, e)
             wild == v.dangling \/ e \in mem.own
  <2>1. mem' = [v EXCEPT !.dangling = wild]
    BY <1>3
  <2>2. /\ mem.kids[e] \in Seq(Entries) /\ Len(mem.kids[e]) = 1 /\ c = mem.kids[e][1]
        /\ mem.kids[c] = <<>>
    BY <1>1, <1>3
  <2>3. Range(mem.kids[e]) = {c}
    BY <2>2 DEF Range
  <2>4. c \in InUse(mem) /\ e # c
    BY <1>1, <2>3, InUseFacts, KidFacts
  <2> HIDE DEF c, v, wild
  <2>5. w = Cut(mem, c)
    OBVIOUS
  <2> HIDE DEF w
  <2>6. Good(w) /\ InUse(w) = InUse(mem) \ {c}
    BY <2>2, <2>4, <2>5, CutGood
  <2>7. Range(w.kids[e]) = Range(mem.kids[e]) \ {c}
    <3>1. \A q \in Places : Range(w.kids[q]) = Range(mem.kids[q]) \ {c}
      BY <2>2, <2>4, <2>5, CutGood
    <3>2. QED
      BY <1>1, <3>1
  <2>8. w.kids[e] = <<>>
    <3>1. w.kids[e] \in Seq(Entries) /\ Range(w.kids[e]) = {}
      BY <1>1, <2>3, <2>6, <2>7, KidFacts DEF Good, Shape
    <3> DEFINE u == w.kids[e]
    <3>2. u \in Seq(Entries) /\ Range(u) = {}
      BY <3>1
    <3> HIDE DEF u
    <3>3. \A i \in DOMAIN u : u[i] \in Range(u)
      BY DEF Range
    <3>4. u = <<>>
      BY <3>2, <3>3
    <3>5. QED
      BY <3>4 DEF u
  <2>9. e \in InUse(w)
    BY <1>1, <2>4, <2>6
  <2>10. v = Cut(w, e)
    BY DEF v
  <2>11. Good(v)
    BY <2>6, <2>8, <2>9, <2>10, CutGood
  <2>12. v \in Db /\ v.dangling \in BOOLEAN
    BY <2>11, DbFields DEF Good
  <2>13. wild \in BOOLEAN
    BY DEF wild
  <2>14. mem'.kids = v.kids /\ mem'.bad = v.bad /\ mem'.data = v.data /\ mem' \in Db
    BY ONLY <2>1, <2>12, <2>13 DEF Db
  <2>15. QED
    BY <2>11, <2>14, SameGood
<1>4. QED
  BY <1>2, <1>3 DEF Delete

-----------------------------------------------------------------------------
(* What a file gives back                                                  *)

\* A file loads unless the data of an entry does not.
Loadable(d, k, data) == (\A e \in Of(k) : data[e].loads) => Load(d).ok

\* The save j of m has written the first entries of a list, and has the others
\* to write.
Saving(m, j) ==
  \E s : /\ SaveOrder(m, s) /\ Written(m, s, j.text)
         /\ j.rest = SubSeq(s, Len(j.text), Len(s))

\* The inductive invariant: the database is as the commands make it, the file
\* holds nothing that save_file has not written, a file that loads gives back what
\* was to be saved, and one that was written to its end loads.
FileInv ==
  /\ mem # NoDb => Good(mem)
  /\ ReadableText(disk)
  /\ job # NoJob => /\ mem # NoDb /\ Saving(mem, job)
                    /\ Len(job.text) - job.out <= BufferSize
                    /\ saved.kids = ToSave(mem).kids /\ saved.data = mem.data
                    /\ saved.whole = FALSE
  /\ Load(disk).ok => Gives(disk, saved.kids, saved.data)
  /\ saved.whole => Loadable(disk, saved.kids, saved.data)

\* What is left of a list after its next entry.
LEMMA RestFacts ==
  ASSUME NEW Y, NEW s \in Seq(Y), NEW k \in 1 .. Len(s), NEW n, n = Len(s),
         NEW r, r = SubSeq(s, k, n)
  PROVE  r # <<>> /\ Head(r) = s[k] /\ Tail(r) = SubSeq(s, k + 1, n)
<1>1. n \in Nat /\ k \in 1 .. n /\ s \in [1 .. n -> Y]
  OBVIOUS
<1>2. r = SubSeq(s, k, n)
  OBVIOUS
<1> DEFINE h == n - k + 1
<1>3. h \in Nat /\ h >= 1 /\ r = [i \in 1 .. h |-> s[i + k - 1]]
  BY ONLY <1>1, <1>2
<1>4. r \in Seq(Y) /\ Len(r) = h /\ r[1] = s[k]
  <2>1. \A i \in 1 .. h : s[i + k - 1] \in Y
    BY <1>1
  <2>2. 1 + k - 1 = k /\ 1 \in 1 .. h
    BY <1>1, <1>3
  <2> HIDE DEF h
  <2>3. QED
    BY ONLY <1>3, <2>1, <2>2
<1>5. r # <<>> /\ Head(r) = s[k]
  BY ONLY <1>3, <1>4
<1>6. Tail(r) = [i \in 1 .. h - 1 |-> s[i + (k + 1) - 1]]
  <2>1. Tail(r) = [i \in 1 .. h - 1 |-> r[i + 1]]
    <3> HIDE DEF h
    <3>1. QED
      BY ONLY <1>3, <1>4, <1>5
  <2>2. \A i \in 1 .. h - 1 : r[i + 1] = s[i + (k + 1) - 1]
    <3>1. \A i \in 1 .. h - 1 : i + 1 \in 1 .. h /\ (i + 1) + k - 1 = i + (k + 1) - 1
      BY <1>1, <1>3
    <3> HIDE DEF h
    <3>2. QED
      BY ONLY <1>3, <3>1
  <2> HIDE DEF h
  <2>3. QED
    BY ONLY <2>1, <2>2
<1>7. SubSeq(s, k + 1, n) = [i \in 1 .. h - 1 |-> s[i + (k + 1) - 1]]
  <2>1. h - 1 = n - (k + 1) + 1
    BY <1>1
  <2>2. SubSeq(s, k + 1, n) = [i \in 1 .. n - (k + 1) + 1 |-> s[i + (k + 1) - 1]]
    BY ONLY <1>1
  <2> HIDE DEF h
  <2>3. QED
    BY ONLY <2>1, <2>2
<1>8. QED
  BY <1>5, <1>6, <1>7

\* A save that has nothing left to write has written all.
LEMMA RestIsEmpty ==
  ASSUME NEW m, NEW s, SaveOrder(m, s), NEW t, Written(m, s, t),
         NEW r, r = SubSeq(s, Len(t), Len(s))
  PROVE  /\ r = <<>> => Len(t) = Len(s) + 1
         /\ r # <<>> => /\ Len(t) \in 2 .. Len(s) /\ Head(r) = s[Len(t)]
                        /\ Tail(r) = SubSeq(s, Len(t) + 1, Len(s))
         /\ r \in Seq(Entries)
<1> DEFINE k == Len(t)
           n == Len(s)
<1>1. k \in Nat /\ k >= 2 /\ k <= n + 1 /\ n \in Nat /\ s \in Seq(Places)
      /\ \A i \in 2 .. n : s[i] \in Entries
  BY OrderFacts DEF Written, SaveOrder
<1>2. r = SubSeq(s, k, n)
  OBVIOUS
<1> HIDE DEF k
<1>3. CASE k <= n
  <2>1. k \in 1 .. n /\ k \in 2 .. n
    BY <1>1, <1>3
  <2>2. r # <<>> /\ Head(r) = s[k] /\ Tail(r) = SubSeq(s, k + 1, n)
    BY <1>1, <1>2, <2>1, RestFacts
  <2>3. r \in Seq(Entries)
    <3>1. \A i \in k .. n : s[i] \in Entries
      BY <1>1
    <3> HIDE DEF n
    <3>2. SubSeq(s, k, n) \in Seq(Entries)
      <4>1. k \in Int /\ n \in Int
        BY <1>1
      <4>2. QED
        BY ONLY <3>1, <4>1, SubSeqProperties
    <3>3. QED
      BY <1>2, <3>2
  <2>4. QED
    BY <2>1, <2>2, <2>3 DEF k
<1>4. CASE k = n + 1
  <2> HIDE DEF n
  <2>1. SubSeq(s, k, n) = <<>>
    BY ONLY <1>1, <1>4
  <2>2. QED
    BY <1>2, <1>4, <2>1 DEF k, n
<1>5. QED
  BY <1>1, <1>3, <1>4

\* What StartSave begins with.
LEMMA StartKeeps ==
  ASSUME FileInv, StartSave
  PROVE  FileInv' /\ outcome' \in {"ok", "some bad"}
<1> DEFINE start == [list |-> <<Root>>, at |-> Root, before |-> Root, ret |-> "ok"]
           links == LinkEntry(mem, start)
           s == links.list
           text == <<Header(Len(mem.kids[Root])), Total(0)>>
<1>1. mem # NoDb /\ Good(mem) /\ IsTree(mem) /\ mem' = mem
  BY DEF StartSave, FileInv, Good, Shape
<1>2. /\ job' = [text |-> text, out |-> 1, rest |-> Tail(s), tail |-> FALSE]
      /\ outcome' = links.ret /\ disk' = <<>> /\ saved' = ToSave(mem)
  BY DEF StartSave
<1>3. start = [list |-> <<Root>>, at |-> Root, before |-> Root, ret |-> "ok"]
  OBVIOUS
<1> HIDE DEF start
<1>4. SaveOrder(mem, s) /\ links \in Lists(mem)
  BY <1>1, <1>3, SaveOrders
<1>5. outcome' \in {"ok", "some bad"}
  BY <1>2, <1>4 DEF Lists
<1>6. /\ text \in Seq(Range(text)) /\ Len(text) = 2
      /\ text[1] = Header(Len(mem.kids[Root])) /\ text[2] = Total(0)
  <2> DEFINE x == Header(Len(mem.kids[Root]))
             y == Total(0)
  <2> HIDE DEF x, y
  <2>1. <<x, y>> \in Seq({x, y}) /\ Len(<<x, y>>) = 2 /\ <<x, y>>[1] = x /\ <<x, y>>[2] = y
    OBVIOUS
  <2>2. <<x, y>> \in Seq(Range(<<x, y>>))
    BY <2>1, OfItsRange
  <2>3. QED
    BY <2>1, <2>2 DEF x, y
<1> HIDE DEF links, text
<1>7. /\ job'.text = text /\ job'.out = 1 /\ job'.rest = Tail(s)
  BY <1>2
<1>8. s \in Seq(Places) /\ s # <<>> /\ Len(s) \in Nat /\ Len(s) >= 1
  BY <1>4, OrderFacts DEF SaveOrder
<1>9. Written(mem, s, text)
  BY <1>6, <1>8 DEF Written
<1>10. Tail(s) = SubSeq(s, 2, Len(s))
  <2> HIDE DEF s
  <2>1. QED
    BY ONLY <1>8
<1>11. Saving(mem, job')
  <2>1. Written(mem, s, job'.text) /\ job'.rest = SubSeq(s, Len(job'.text), Len(s))
    BY <1>6, <1>7, <1>9, <1>10
  <2>2. QED
    BY <1>4, <2>1 DEF Saving
<1>12. Len(job'.text) - job'.out <= BufferSize
  <2>1. BufferSize \in Nat /\ BufferSize >= 1
    BY DataFileAssumption
  <2>2. Len(job'.text) = 2 /\ job'.out = 1
    BY <1>6, <1>7
  <2>3. QED
    BY ONLY <2>1, <2>2
<1>13. saved'.whole = FALSE /\ saved'.kids = ToSave(mem).kids /\ saved'.data = mem.data
  BY <1>2 DEF ToSave
<1>14. ReadableText(disk')
  <2>1. <<>> \in Seq(Range(<<>>)) /\ Len(<<>>) = 0
    OBVIOUS
  <2>2. QED
    BY <1>2, <2>1 DEF ReadableText
<1>15. ~Load(disk').ok
  BY <1>2 DEF Load
<1>16. QED
  BY <1>1, <1>5, <1>11, <1>12, <1>13, <1>14, <1>15 DEF FileInv

\* What copy_ptr_to_buf makes of an entry.
LEMMA WriteKeeps ==
  ASSUME SaveInv, FileInv, WriteEntry
  PROVE  FileInv'
<1> DEFINE item == Item(mem, Head(job.rest))
           j == CopyToBuf(item)
           t == job.text
           k == Len(t)
<1>1. /\ job # NoJob /\ job.rest # <<>> /\ job' = [j EXCEPT !.rest = Tail(@)]
      /\ mem' = mem /\ disk' = disk /\ saved' = saved
  BY DEF WriteEntry
<1>2. /\ mem # NoDb /\ Good(mem) /\ Saving(mem, job) /\ Len(t) - job.out <= BufferSize
      /\ saved.kids = ToSave(mem).kids /\ saved.data = mem.data /\ saved.whole = FALSE
      /\ ReadableText(disk) /\ (Load(disk).ok => Gives(disk, saved.kids, saved.data))
  BY <1>1 DEF FileInv
<1>3. PICK s : /\ SaveOrder(mem, s) /\ Written(mem, s, t)
               /\ job.rest = SubSeq(s, Len(t), Len(s))
  BY <1>2 DEF Saving
<1>4. /\ k \in 2 .. Len(s) /\ Head(job.rest) = s[k] /\ Tail(job.rest) = SubSeq(s, k + 1, Len(s))
  BY <1>1, <1>3, RestIsEmpty
<1>5. /\ j = [text |-> Append(t, item), out |-> j.out, rest |-> job.rest, tail |-> job.tail]
      /\ j.text \in Seq(Range(j.text)) /\ Len(j.text) = k + 1
      /\ j.text[k + 1] = item /\ \A i \in 1 .. k : j.text[i] = t[i]
  <2> HIDE DEF item
  <2>1. QED
    BY <1>1, OneItemMore
<1>6. j.out = IF Len(t) - job.out = BufferSize THEN Len(t) ELSE job.out
  <2> DEFINE o == IF BufferFull THEN Len(job.text) ELSE job.out
  <2>1. j = [job EXCEPT !.text = Append(@, item), !.out = o]
    BY DEF CopyToBuf
  <2>2. job = [text |-> job.text, out |-> job.out, rest |-> job.rest, tail |-> job.tail]
    BY <1>1 DEF SaveInv
  <2> HIDE DEF o, j, item
  <2>3. j.out = o
    BY ONLY <2>1, <2>2
  <2>4. QED
    BY <2>3 DEF o, BufferFull
<1>7. item = Item(mem, s[k])
  BY <1>4
<1> HIDE DEF j, item, k
<1>8. job'.text = j.text /\ job'.out = j.out /\ job'.rest = Tail(job.rest)
  <2> DEFINE a == Append(t, item)
             b == j.out
             c == job.rest
             d == Tail(c)
             h == job.tail
  <2>1. j = [text |-> a, out |-> b, rest |-> c, tail |-> h]
    BY <1>5
  <2>2. job' = [j EXCEPT !.rest = d]
    <3>1. job' = [j EXCEPT !.rest = Tail(j.rest)]
      BY <1>1
    <3>2. j.rest = c
      BY <1>5
    <3>3. Tail(j.rest) = d
      BY <3>2
    <3> HIDE DEF d
    <3>4. QED
      BY ONLY <3>1, <3>3
  <2> HIDE DEF a, b, c, d, h, t
  <2>3. job'.text = a /\ job'.out = b /\ job'.rest = d /\ j.text = a
    BY ONLY <2>1, <2>2
  <2>4. QED
    BY <2>3 DEF b, c, d
<1>9. Written(mem, s, job'.text)
  <2>1. /\ Len(s) \in Nat /\ k \in Nat /\ k >= 2 /\ k + 1 <= Len(s) + 1
    BY <1>4, OrderFacts, <1>3
  <2>2. /\ j.text[1] = Header(Len(mem.kids[Root])) /\ j.text[2] = Total(0)
        /\ \A i \in 3 .. k : j.text[i] = Item(mem, s[i - 1])
    <3>1. /\ t[1] = Header(Len(mem.kids[Root])) /\ t[2] = Total(0)
          /\ \A i \in 3 .. k : t[i] = Item(mem, s[i - 1])
      BY <1>3 DEF Written, k
    <3>2. 1 \in 1 .. k /\ 2 \in 1 .. k /\ \A i \in 3 .. k : i \in 1 .. k
      BY ONLY <2>1
    <3>3. \A i \in 1 .. k : j.text[i] = t[i]
      BY <1>5
    <3>4. j.text[1] = t[1] /\ j.text[2] = t[2]
      BY ONLY <3>2, <3>3
    <3>5. \A i \in 3 .. k : j.text[i] = t[i]
      BY ONLY <3>2, <3>3
    <3>6. QED
      BY <3>1, <3>4, <3>5
  <2>3. \A i \in 3 .. k + 1 : j.text[i] = Item(mem, s[i - 1])
    <3>1. TAKE i \in 3 .. k + 1
    <3>2. CASE i = k + 1
      <4>1. i - 1 = k
        BY <2>1, <3>2
      <4>2. QED
        BY <1>5, <1>7, <3>2, <4>1
    <3>3. CASE i \in 3 .. k
      BY <2>2, <3>3
    <3>4. QED
      BY <2>1, <3>2, <3>3
  <2>4. QED
    BY <1>5, <1>8, <2>1, <2>2, <2>3 DEF Written
<1>10. Saving(mem, job')
  <2>1. job'.rest = SubSeq(s, Len(job'.text), Len(s))
    BY <1>4, <1>5, <1>8
  <2>2. QED
    BY <1>3, <1>9, <2>1 DEF Saving
<1>11. Len(job'.text) - job'.out <= BufferSize
  <2>1. /\ k \in Nat /\ job.out \in Nat /\ k - job.out <= BufferSize
        /\ BufferSize \in Nat /\ BufferSize >= 1
    <3>1. job.out \in 0 .. Len(job.text) /\ Len(job.text) \in Nat
      BY <1>1 DEF SaveInv, BeforeTail
    <3>2. QED
      BY <1>2, <3>1, DataFileAssumption DEF k
  <2>2. j.out = IF k - job.out = BufferSize THEN k ELSE job.out
    BY <1>6 DEF k
  <2>3. k + 1 - j.out <= BufferSize
    BY ONLY <2>1, <2>2
  <2>4. Len(job'.text) = k + 1 /\ job'.out = j.out
    BY <1>5, <1>8
  <2> DEFINE a == Len(job'.text)
             b == job'.out
             c == j.out
  <2>5. a = k + 1 /\ b = c /\ k + 1 - c <= BufferSize /\ k \in Nat /\ c \in Nat
    BY <2>1, <2>2, <2>3, <2>4
  <2> HIDE DEF a, b, c
  <2>6. a - b <= BufferSize
    BY ONLY <2>5
  <2>7. QED
    BY <2>6 DEF a, b
<1>12. QED
  BY <1>1, <1>2, <1>10, <1>11 DEF FileInv

\* What is left when the save has come to its tail.
LEMMA AtTheTail ==
  ASSUME FileInv, job # NoJob, job.rest = <<>>, NEW d, Left(Unpatched, Number, d)
  PROVE  /\ Good(mem) /\ ReadableText(d)
         /\ Load(d).ok => Gives(d, saved.kids, saved.data)
<1> DEFINE t == job.text
           u == Append(t, TailItem)
           n == Len(t) - 2
           k == saved.kids
<1>1. /\ Good(mem) /\ Saving(mem, job) /\ k = ToSave(mem).kids /\ saved.data = mem.data
  BY DEF FileInv
<1>2. PICK s : SaveOrder(mem, s) /\ Written(mem, s, t) /\ job.rest = SubSeq(s, Len(t), Len(s))
  BY <1>1 DEF Saving
<1>3. Len(t) = Len(s) + 1
  BY <1>2, RestIsEmpty
<1>4. Left(u, n, d)
  BY DEF Unpatched, Number
<1> HIDE DEF t, k
<1>5. ReadableText(d) /\ (Load(d).ok => Gives(d, k, mem.data))
  <2>1. u = Append(t, TailItem) /\ n = Len(t) - 2
    OBVIOUS
  <2> HIDE DEF u, n
  <2>2. QED
    BY ONLY <1>1, <1>2, <1>3, <1>4, <2>1, LeftBehind
<1>6. QED
  BY <1>1, <1>5 DEF k

\* The file that FinishSave leaves loads.
LEMMA FinishLoads ==
  ASSUME FileInv, job # NoJob, job.rest = <<>>, NEW d, d = Patched(Unpatched, Number)
  PROVE  Number \in Nat /\ Loadable(d, saved.kids, saved.data)
<1> DEFINE t == job.text
           u == Append(t, TailItem)
           n == Len(t) - 2
           k == saved.kids
<1>1. /\ Good(mem) /\ Saving(mem, job) /\ k = ToSave(mem).kids /\ saved.data = mem.data
  BY DEF FileInv
<1>2. PICK s : SaveOrder(mem, s) /\ Written(mem, s, t) /\ job.rest = SubSeq(s, Len(t), Len(s))
  BY <1>1 DEF Saving
<1>3. Len(t) = Len(s) + 1
  BY <1>2, RestIsEmpty
<1>4. d = Patched(u, n) /\ Number = n
  BY DEF Unpatched, Number
<1>5. n \in Nat /\ n \in 0 .. n
  BY <1>2 DEF Written
<1> HIDE DEF t, k
<1>6. WholeText(mem, s, d)
  <2>1. u = Append(t, TailItem) /\ n = Len(t) - 2
    OBVIOUS
  <2> HIDE DEF u, n
  <2>2. n \in 0 .. Len(t) - 2
    BY <1>5, <2>1
  <2>3. Patches(mem, s, t, u, n, d)
    BY <1>1, <1>2, <1>3, <1>4, <2>1, <2>2 DEF Patches
  <2>4. QED
    BY ONLY <2>1, <2>3, PatchedText
<1>7. ASSUME \A e \in Of(k) : mem.data[e].loads
      PROVE  Load(d).ok
  <2>1. \A e \in Of(ToSave(mem).kids) : mem.data[e].loads
    BY <1>1, <1>7
  <2>2. \A i \in 2 .. Len(s) : mem.data[s[i]].loads
    BY <1>1, <1>2, <2>1, AllLoad
  <2>3. QED
    BY <1>1, <1>2, <1>6, <2>2, LoadWhole
<1>8. QED
  BY <1>1, <1>4, <1>5, <1>7 DEF Loadable, k

\* The file that FinishSave leaves gives back what was to be saved.
LEMMA FinishKeeps ==
  ASSUME SaveInv, FileInv, FinishSave
  PROVE  FileInv'
<1> DEFINE d == Patched(Unpatched, Number)
<1>1. /\ job # NoJob /\ job' = NoJob /\ disk' = d
      /\ saved' = [saved EXCEPT !.whole = TRUE] /\ mem' = mem /\ job.tail
  BY DEF FinishSave
<1>2. job.rest = <<>> /\ saved'.kids = saved.kids /\ saved'.data = saved.data
  BY <1>1 DEF SaveInv
<1>3. Number \in Nat /\ Loadable(d, saved.kids, saved.data)
  BY <1>1, <1>2, FinishLoads
<1>4. Left(Unpatched, Number, d)
  BY <1>3 DEF Left
<1> HIDE DEF d
<1>5. Good(mem) /\ ReadableText(d) /\ (Load(d).ok => Gives(d, saved.kids, saved.data))
  BY <1>1, <1>2, <1>4, AtTheTail
<1>6. QED
  BY <1>1, <1>2, <1>3, <1>5 DEF FileInv

\* Writing the tail adds no item to those of the entries.
LEMMA TailKeeps ==
  ASSUME SaveInv, FileInv, WriteTail
  PROVE  FileInv'
<1>1. /\ job # NoJob /\ UNCHANGED <<mem, disk, saved>>
      /\ job' = [job EXCEPT !.tail = TRUE, !.out = Len(job.text)]
  BY DEF WriteTail
<1>2. /\ job = [text |-> job.text, out |-> job.out, rest |-> job.rest, tail |-> job.tail]
      /\ Len(job.text) \in Nat
  BY <1>1 DEF SaveInv, BeforeTail
<1> DEFINE n == Len(job.text)
           t == job.text
           r == job.rest
<1>3. job'.text = t /\ job'.out = n /\ job'.rest = r
  <2> DEFINE o == job.out
             e == job.tail
  <2>1. job = [text |-> t, out |-> o, rest |-> r, tail |-> e]
    BY <1>2
  <2>2. job' = [job EXCEPT !.tail = TRUE, !.out = n]
    BY <1>1
  <2> HIDE DEF n, t, r, o, e
  <2>3. QED
    BY ONLY <2>1, <2>2
<1>4. Saving(mem, job')
  <2>1. Saving(mem, job)
    BY <1>1 DEF FileInv
  <2>2. QED
    BY <1>3, <2>1 DEF Saving
<1>5. Len(job'.text) - job'.out <= BufferSize
  <2>1. BufferSize \in Nat
    BY DataFileAssumption
  <2>2. Len(job'.text) - job'.out = 0
    BY <1>2, <1>3
  <2>3. QED
    BY <2>1, <2>2
<1>6. /\ mem # NoDb /\ saved.kids = ToSave(mem).kids /\ saved.data = mem.data
      /\ saved.whole = FALSE
  BY <1>1 DEF FileInv
<1>7. QED
  BY <1>1, <1>4, <1>5, <1>6 DEF FileInv

\* Each step of a command or of a save keeps the invariant.
LEMMA FileInvStep ==
  ASSUME SaveInv, FileInv, [Next]_vars
  PROVE  FileInv'
<1>1. ASSUME job = NoJob, job' = NoJob, UNCHANGED <<disk, saved>>, mem' # NoDb => Good(mem')
      PROVE  FileInv'
  BY <1>1 DEF FileInv
<1>2. ASSUME UNCHANGED <<mem, disk, job, saved>>
      PROVE  FileInv'
  BY <1>2 DEF FileInv
<1>3. ASSUME NEW p \in Places, NEW c \in Contents, NEW bad \in BOOLEAN, Add(p, c, bad)
      PROVE  FileInv'
  <2>1. job = NoJob /\ UNCHANGED <<disk, job, saved>> /\ mem # NoDb
    BY <1>3 DEF Add, Command
  <2>2. Good(mem')
    BY <1>3, <2>1, AddKeeps DEF FileInv
  <2>3. QED
    BY <1>1, <2>1, <2>2
<1>4. ASSUME NEW e \in Entries, Delete(e)
      PROVE  FileInv'
  <2>1. job = NoJob /\ UNCHANGED <<disk, job, saved>> /\ mem # NoDb
    BY <1>4 DEF Delete, Command
  <2>2. Good(mem')
    BY <1>4, <2>1, DeleteKeeps DEF FileInv
  <2>3. QED
    BY <1>1, <2>1, <2>2
<1>5. ASSUME StartSave
      PROVE  FileInv'
  BY <1>5, StartKeeps
<1>6. ASSUME WriteEntry
      PROVE  FileInv'
  BY <1>6, WriteKeeps
<1>7. ASSUME FlushFails
      PROVE  FileInv'
  BY <1>2, <1>7 DEF FlushFails
<1>8. ASSUME FinishSave
      PROVE  FileInv'
  BY <1>8, FinishKeeps
<1>9. ASSUME job # NoJob, job' = NoJob, mem' = mem \/ mem' = NoDb, UNCHANGED saved,
             ReadableText(disk'), Load(disk').ok => Gives(disk', saved.kids, saved.data)
      PROVE  FileInv'
  BY <1>9 DEF FileInv
<1>17. ASSUME job # NoJob, job' = NoJob, mem' = mem \/ mem' = NoDb, UNCHANGED saved,
              job.rest = <<>>, Left(Unpatched, Number, disk')
       PROVE  FileInv'
  <2> DEFINE d == disk'
  <2>1. Left(Unpatched, Number, d)
    BY <1>17
  <2> HIDE DEF d
  <2>2. ReadableText(d) /\ (Load(d).ok => Gives(d, saved.kids, saved.data))
    BY <1>17, <2>1, AtTheTail
  <2>3. QED
    BY <1>9, <1>17, <2>2 DEF d
<1>18. ASSUME job # NoJob, job.rest = <<>>
       PROVE  /\ Number \in Nat /\ Unpatched = Patched(Unpatched, 0)
              /\ Len(Unpatched) \in 1 .. Len(Unpatched)
              /\ SubSeq(Unpatched, 1, Len(Unpatched)) = Unpatched
  <2> DEFINE t == job.text
             u == Append(t, TailItem)
  <2>1. Saving(mem, job)
    BY <1>18 DEF FileInv
  <2>2. PICK s : Written(mem, s, t)
    BY <2>1 DEF Saving
  <2>3. /\ t \in Seq(Range(t)) /\ Len(t) \in Nat /\ Len(t) >= 2 /\ t[2] = Total(0)
    BY <2>2 DEF Written
  <2>4. Number \in Nat
    BY <2>3 DEF Number
  <2>5. u = Append(t, TailItem)
    OBVIOUS
  <2> HIDE DEF t, u
  <2>6. /\ u \in Seq(Range(u)) /\ Len(u) = Len(t) + 1
        /\ \A i \in 1 .. Len(t) : u[i] = t[i]
    <3> DEFINE x == TailItem
    <3>1. t \in Seq(Range(t)) /\ u = Append(t, x)
      BY <2>3, <2>5
    <3> HIDE DEF x
    <3>2. u \in Seq(Range(u)) /\ Len(u) = Len(t) + 1
      BY ONLY <3>1, OneMore
    <3>3. \A i \in 1 .. Len(t) : u[i] = t[i]
      BY ONLY <3>1, OneMore
    <3>4. QED
      BY <3>2, <3>3
  <2>7. u[2] = Total(0) /\ Len(u) \in 1 .. Len(u)
    BY <2>3, <2>6
  <2>8. u = Patched(u, 0)
    <3> DEFINE x == Total(0)
    <3>1. u[2] = x
      BY <2>7
    <3> HIDE DEF x
    <3>2. u = [u EXCEPT ![2] = x]
      BY ONLY <2>6, <3>1
    <3>3. QED
      BY <3>2 DEF Patched, x
  <2>9. SubSeq(u, 1, Len(u)) = u
    BY ONLY <2>6
  <2>10. Unpatched = u
    BY DEF Unpatched, u, t
  <2>11. QED
    BY <2>4, <2>7, <2>8, <2>9, <2>10
<1>10. ASSUME LoseWrites
       PROVE  FileInv'
  <2>1. /\ job # NoJob /\ job' = NoJob /\ UNCHANGED <<mem, saved>> /\ job.tail
        /\ disk' \in Counted \cup Cuts(Unpatched) \cup
             {Append(SubSeq(Unpatched, 1, k), Total(Number)) : k \in 1 .. Len(Unpatched)}
    BY <1>10 DEF LoseWrites
  <2>2. job.rest = <<>>
    BY <2>1 DEF SaveInv
  <2>3. Left(Unpatched, Number, disk')
    BY <2>1 DEF Left, Counted
  <2>4. QED
    BY <1>17, <2>1, <2>2, <2>3
<1>19. ASSUME SeekFlushFails
       PROVE  FileInv'
  <2>1. CASE UNCHANGED <<mem, disk, job, saved>>
    BY <1>2, <2>1
  <2>2. CASE job' = NoJob
    <3>1. /\ job # NoJob /\ job.rest = <<>> /\ UNCHANGED <<mem, saved>>
      BY <1>19 DEF SeekFlushFails
    <3>2. \/ disk' \in Cuts(Unpatched) \/ disk' = Unpatched
          \/ disk' = Append(Unpatched, Total(Number))
      BY <1>19, <2>2, <3>1 DEF SeekFlushFails
    <3>3. Left(Unpatched, Number, disk')
      <4>1. CASE disk' \in Cuts(Unpatched)
        BY <4>1 DEF Left
      <4>2. CASE disk' = Unpatched
        <5>1. 0 \in 0 .. Number /\ disk' = Patched(Unpatched, 0)
          BY <1>18, <3>1, <4>2
        <5>2. QED
          BY <5>1 DEF Left
      <4>3. CASE disk' = Append(Unpatched, Total(Number))
        <5> DEFINE k == Len(Unpatched)
        <5>1. k \in 1 .. k /\ SubSeq(Unpatched, 1, k) = Unpatched
          BY <1>18, <3>1
        <5>2. QED
          BY <4>3, <5>1 DEF Left
      <4>4. QED
        BY <3>2, <4>1, <4>2, <4>3
    <3>4. QED
      BY <1>17, <2>2, <3>1, <3>3
  <2>3. QED
    BY <1>19, <2>1, <2>2 DEF SeekFlushFails
<1>11. ASSUME Crash
       PROVE  FileInv'
  <2>1. mem' = NoDb /\ job' = NoJob /\ UNCHANGED saved
    BY <1>11 DEF Crash
  <2>2. CASE job = NoJob
    <3>1. UNCHANGED disk
      BY <1>11, <2>2 DEF Crash
    <3>2. QED
      BY <1>1, <2>1, <2>2, <3>1
  <2>3. CASE job # NoJob
    <3> DEFINE t == job.text
               o == job.out
    <3>0. mem' = NoDb /\ job' = NoJob /\ UNCHANGED saved
      BY <1>11 DEF Crash
    <3>1. CASE job.tail
      <4>1. disk' \in Counted \cup Cuts(Unpatched) /\ job.rest = <<>>
        BY <1>11, <2>3, <3>1 DEF Crash, SaveInv
      <4>2. Left(Unpatched, Number, disk')
        BY <4>1 DEF Left, Counted
      <4>3. QED
        BY <1>17, <2>3, <3>0, <4>1, <4>2
    <3>2. CASE ~job.tail
      <4>1. disk' \in Cuts(SubSeq(t, 1, o)) \cup {SubSeq(t, 1, o)}
        BY <1>11, <2>3, <3>2 DEF Crash
      <4>2. Good(mem) /\ Saving(mem, job)
        BY <2>3 DEF FileInv
      <4>3. PICK s : SaveOrder(mem, s) /\ Written(mem, s, t)
        BY <4>2 DEF Saving
      <4>4. o \in 0 .. Len(t) /\ BeforeTail(t)
        BY <2>3 DEF SaveInv
      <4> HIDE DEF t, o
      <4>5. ReadableText(t)
        BY <4>2, <4>3, WrittenReadable
      <4>6. ReadableText(SubSeq(t, 1, o))
        BY <4>4, <4>5, CutReadable
      <4>7. ReadableText(disk')
        BY <4>1, <4>6, CutsReadable
      <4>8. ~Load(disk').ok
        BY <4>1, <4>4, CutOfStart
      <4>9. QED
        BY <1>9, <2>3, <3>0, <4>7, <4>8
    <3>3. QED
      BY <3>1, <3>2
  <2>4. QED
    BY <2>2, <2>3
<1>12. ASSUME LoadFile
       PROVE  FileInv'
  <2>1. job = NoJob /\ UNCHANGED <<disk, job, saved>> /\ ReadableText(disk)
    BY <1>12 DEF LoadFile, Command, FileInv
  <2>2. mem' = Load(disk).m \/ mem' = NoDb
    BY <1>12 DEF LoadFile
  <2>3. Good(Load(disk).m)
    BY <2>1, LoadGood
  <2>4. QED
    BY <1>1, <2>1, <2>2, <2>3
<1>13. ASSUME NewDb
       PROVE  FileInv'
  <2>1. job = NoJob /\ UNCHANGED <<disk, job, saved>> /\ mem' = EmptyDb
    BY <1>13 DEF NewDb, Command
  <2>2. QED
    BY <1>1, <2>1, EmptyFacts
<1>14. ASSUME Unload
       PROVE  FileInv'
  <2>1. job = NoJob /\ UNCHANGED <<disk, job, saved>> /\ mem' = NoDb
    BY <1>14 DEF Unload, Command
  <2>2. QED
    BY <1>1, <2>1
<1>20. ASSUME WriteTail
       PROVE  FileInv'
  BY <1>20, TailKeeps
<1>15. CASE UNCHANGED vars
  BY <1>2, <1>15 DEF vars
<1>16. QED
  BY <1>3, <1>4, <1>5, <1>6, <1>7, <1>8, <1>10, <1>11, <1>12, <1>13, <1>14, <1>15,
     <1>19, <1>20 DEF Next

\* The invariants hold before the first command.
LEMMA FileInvStarts ==
  ASSUME Init
  PROVE  SaveInv /\ FileInv
<1>2. SaveInv
  BY DEF Init, NotSaved, SaveInv
<1>3. ReadableText(disk)
  <2>1. <<>> \in Seq(Range(<<>>)) /\ Len(<<>>) = 0
    OBVIOUS
  <2>2. QED
    BY <2>1 DEF Init, ReadableText
<1>4. ~saved.whole /\ ~Load(disk).ok
  BY DEF Init, NotSaved, Load
<1>5. QED
  BY <1>2, <1>3, <1>4, EmptyFacts DEF Init, FileInv

\* load_file takes a file for a database only if it gives back all that was to be
\* saved: whatever a crash between any two steps of save_file, a write that fails
\* or one that is lost leaves behind has no tail where the number of its entries
\* says, be it still zero, or holds every entry.
THEOREM LoadIsAllOrNothing == Spec => []LoadsAllOrNothing
<1>1. Init => SaveInv /\ FileInv
  BY FileInvStarts
<1>2. (SaveInv /\ FileInv) /\ [Next]_vars => (SaveInv /\ FileInv)'
  BY SaveInvStep, FileInvStep
<1>3. FileInv => LoadsAllOrNothing
  BY DEF FileInv, Gives, Of, LoadsAllOrNothing, GivenBack, ToBeSaved
<1>4. QED
  BY <1>1, <1>2, <1>3, PTL DEF Spec

\* save_file and load_file are inverse to each other: a file that was written to
\* its end loads, unless load_file refuses the data of one of its entries, and
\* gives back every entry that verify_entry accepts, below its parent, in its
\* order, with the checksums of the sections in which no kind is left out.
THEOREM SavedIsLoaded == Spec => []SavedLoads
<1>1. Init => SaveInv /\ FileInv
  BY FileInvStarts
<1>2. (SaveInv /\ FileInv) /\ [Next]_vars => (SaveInv /\ FileInv)'
  BY SaveInvStep, FileInvStep
<1>3. FileInv => SavedLoads
  BY DEF FileInv, Gives, Loadable, Of, SavedLoads, GivenBack, ToBeSaved
<1>4. QED
  BY <1>1, <1>2, <1>3, PTL DEF Spec

\* How the last command can have ended.
OutcomeOK ==
  /\ outcome \in {"ok", "some bad", "refused", "undefined", "double free"}
  /\ cmds \in 0 .. MaxCmds

\* Each step ends in one of these ways.
LEMMA OutcomeStep ==
  ASSUME FileInv, OutcomeOK, [Next]_vars
  PROVE  OutcomeOK'
<1>1. cmds' \in 0 .. MaxCmds
  <2>1. ASSUME Command
        PROVE  cmds' \in 0 .. MaxCmds
    <3>1. cmds \in 0 .. MaxCmds /\ MaxCmds \in Nat /\ cmds < MaxCmds /\ cmds' = cmds + 1
      BY <2>1, DataFileAssumption DEF Command, OutcomeOK
    <3>2. QED
      BY ONLY <3>1
  <2>2. Command \/ cmds' = cmds
    BY DEF Next, vars, Add, Delete, StartSave, WriteEntry, FlushFails, WriteTail, SeekFlushFails,
           FinishSave, LoseWrites, Crash, LoadFile, NewDb, Unload
  <2>3. QED
    BY <2>1, <2>2 DEF OutcomeOK
<1>2. CASE StartSave
  BY <1>1, <1>2, StartKeeps DEF OutcomeOK
<1>3. CASE ~StartSave
  BY <1>1, <1>3 DEF OutcomeOK, Next, vars, Add, Delete, WriteEntry, FlushFails, WriteTail,
                    SeekFlushFails, FinishSave, LoseWrites, Crash, LoadFile, NewDb, Unload
<1>4. QED
  BY <1>2, <1>3

\* In every state the memory and the save under way are well formed: an entry
\* is below one place and once, whatever the commands, the file that was loaded
\* or the write that failed.
THEOREM TypeCorrect == Spec => []TypeOK
<1>1. Init => SaveInv /\ FileInv /\ OutcomeOK
  BY FileInvStarts, DataFileAssumption DEF Init, OutcomeOK
<1>2. (SaveInv /\ FileInv /\ OutcomeOK) /\ [Next]_vars => (SaveInv /\ FileInv /\ OutcomeOK)'
  BY SaveInvStep, FileInvStep, OutcomeStep
<1>3. SaveInv /\ FileInv /\ OutcomeOK => TypeOK
  <2>1. SUFFICES ASSUME SaveInv, FileInv, OutcomeOK
                 PROVE  TypeOK
    OBVIOUS
  <2>2. ASSUME mem # NoDb
        PROVE  /\ mem \in Db /\ mem.bad \subseteq InUse(mem)
               /\ \A p, q \in Places : \A i \in DOMAIN mem.kids[p], j \in DOMAIN mem.kids[q] :
                    mem.kids[p][i] = mem.kids[q][j] => p = q /\ i = j
    <3>1. Good(mem)
      BY <2>1, <2>2 DEF FileInv
    <3>2. OneParent(mem)
      BY <3>1 DEF Good, Shape, IsTree
    <3>3. QED
      BY <3>1, <3>2 DEF Good, OneParent
  <2>3. ASSUME job # NoJob
        PROVE  /\ mem # NoDb /\ job.out \in 0..Len(job.text)
               /\ Len(job.text) - job.out <= BufferSize
               /\ job.rest \in Seq(Entries)
    <3>1. mem # NoDb /\ Saving(mem, job) /\ Len(job.text) - job.out <= BufferSize
      BY <2>1, <2>3 DEF FileInv
    <3>2. job.out \in 0..Len(job.text)
      BY <2>1, <2>3 DEF SaveInv
    <3>3. PICK s : /\ SaveOrder(mem, s) /\ Written(mem, s, job.text)
                   /\ job.rest = SubSeq(s, Len(job.text), Len(s))
      BY <3>1 DEF Saving
    <3>4. job.rest \in Seq(Entries)
      BY <3>3, RestIsEmpty
    <3>5. QED
      BY <3>1, <3>2, <3>4
  <2>4. QED
    BY <2>1, <2>2, <2>3 DEF TypeOK, OutcomeOK
<1>4. QED
  BY <1>1, <1>2, <1>3, PTL DEF Spec
=============================================================================
