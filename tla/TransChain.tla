----------------------------- MODULE TransChain -----------------------------
(***************************************************************************)
(* The chains of targets that share a string: entries of one file name or  *)
(* tag, file data of one size or checksum, sections of one checksum (nine  *)
(* instantiations of add_generic_to_generic_chain and                      *)
(* del_generic_from_generic_chain with the link_..._structures functions). *)
(*                                                                         *)
(* A translation node holds the string, the head and tail of a doubly      *)
(* linked list of targets and a count; the hash table finds the node by    *)
(* its string.  Targets and nodes live in layer 2 arrays: the lowest free  *)
(* slot is taken, and a freed slot stays readable as wiped memory.         *)
(***************************************************************************)
EXTENDS Naturals, Sequences, FiniteSets, SequencesExt

CONSTANTS
  MaxTargets,  \* bound of the model: slots for targets
  MaxNodes,    \* bound of the model: slots for translation nodes
  MaxNumber,   \* bound of the model: highest count a node may reach
  MaxStale,    \* bound of the model: operations from the first stale link on
  Strs,        \* the strings a target may carry
  NoStr        \* the string of wiped memory

ASSUME ChainAssumption ==
  /\ MaxTargets \in Nat
  /\ MaxNodes \in Nat
  /\ MaxNumber \in Nat
  /\ MaxStale \in Nat
  /\ NoStr \notin Strs

Nil == 0                     \* the null pointer
Targets == 1 .. MaxTargets   \* slots of the targets' layer 2 array
Nodes == MaxTargets + 1 .. MaxTargets + MaxNodes   \* slots of the nodes' array

VARIABLES
  live,     \* the targets in use
  db,       \* the memory of targets and nodes, see Memory
  crashed,  \* a null pointer or a freed node has been used
  stale     \* history: 0 until a target that shared its string is renamed to
            \* a string nobody carried, then the operations from there on

vars == <<live, db, crashed, stale>>

\* Fields of the targets, then of the nodes; used is the hash table.
Memory ==
  [str  : [Targets -> Strs \cup {NoStr}],
   prev : [Targets -> Targets \cup {Nil}],
   next : [Targets -> Targets \cup {Nil}],
   tran : [Targets -> Nodes \cup {Nil}],
   used : SUBSET Nodes,
   key  : [Nodes -> Strs \cup {NoStr}],
   head : [Nodes -> Targets \cup {Nil}],
   tail : [Nodes -> Targets \cup {Nil}],
   number : [Nodes -> Nat]]

-----------------------------------------------------------------------------
(* The chain operations, as functions of the memory                        *)

\* mem_wipe_sec of a target's slot, then its string is set.
WipeTarget(d, e, s) ==
  [d EXCEPT !.str[e] = s, !.prev[e] = Nil, !.next[e] = Nil, !.tran[e] = Nil]

\* The node is taken out of the hash table and of its layer 2 array.
DropNode(d, t) ==
  [d EXCEPT !.used = @ \ {t}, !.key[t] = NoStr, !.head[t] = Nil,
            !.tail[t] = Nil, !.number[t] = 0]

\* Plausible slip: removing the tail forgets to move tail_tar back.
MutUnlink(d, e) ==
  LET t == d.tran[e]  p == d.prev[e]  n == d.next[e] IN
  CASE t = Nil                          -> d
    [] t # Nil /\ p = Nil /\ n = Nil    -> [DropNode(d, t) EXCEPT !.tran[e] = Nil]
    [] t # Nil /\ p = Nil /\ n # Nil    -> [d EXCEPT !.head[t] = n, !.prev[n] = Nil]
    [] t # Nil /\ p # Nil /\ n = Nil    -> [d EXCEPT !.next[p] = Nil]
    [] t # Nil /\ p # Nil /\ n # Nil    -> [d EXCEPT !.next[p] = n, !.prev[n] = p]

\* del_..._from_..._chain: the only member takes its node along; any other
\* leaves its neighbours linked to each other, itself still pointing at them.
Unlink(d, e) ==
  LET t == d.tran[e]  p == d.prev[e]  n == d.next[e] IN
  CASE t = Nil                          -> d
    [] t # Nil /\ p = Nil /\ n = Nil    -> [DropNode(d, t) EXCEPT !.tran[e] = Nil]
    [] t # Nil /\ p = Nil /\ n # Nil    -> [d EXCEPT !.head[t] = n, !.prev[n] = Nil]
    [] t # Nil /\ p # Nil /\ n = Nil    -> [d EXCEPT !.tail[t] = p, !.next[p] = Nil]
    [] t # Nil /\ p # Nil /\ n # Nil    -> [d EXCEPT !.next[p] = n, !.prev[n] = p]

\* Unlinking a single member whose node is no longer in the hash table.
UnlinkUndefined(d, e) ==
  /\ d.tran[e] # Nil
  /\ d.prev[e] = Nil
  /\ d.next[e] = Nil
  /\ d.tran[e] \notin d.used

\* lookup_..._via_dh: the nodes of the hash table with this string.
Found(d, s) == {t \in d.used : d.key[t] = s}

\* add_..._to_layer2_arr takes the lowest free slot for a node.
IsFreeNode(d, t) ==
  /\ t \in Nodes \ d.used
  /\ \A u \in Nodes \ d.used : t <= u

\* Plausible slip: the target is not told of its node.
MutLinkAlone(d, e, t) ==
  [d EXCEPT !.used = @ \cup {t}, !.key[t] = d.str[e], !.head[t] = e,
            !.tail[t] = e, !.number[t] = 1]

\* link_..._structures, first branch: a node of its own for the target, whose
\* tag_prev and tag_next are left as they are.
LinkAlone(d, e, t) ==
  [d EXCEPT !.used = @ \cup {t}, !.key[t] = d.str[e], !.head[t] = e,
            !.tail[t] = e, !.number[t] = 1, !.tran[e] = t]

\* Plausible slips: the new tail points back at the node, not the old tail...
MutAppendType(d, e, t) ==
  [d EXCEPT !.tran[e] = t, !.prev[e] = t, !.next[e] = Nil,
            !.next[d.tail[t]] = e, !.tail[t] = e, !.number[t] = @ + 1]

\* ... the old tail is not made to point at its successor...
MutAppend(d, e, t) ==
  [d EXCEPT !.tran[e] = t, !.prev[e] = d.tail[t], !.next[e] = Nil,
            !.tail[t] = e, !.number[t] = @ + 1]

\* ... or the target is put at the front of its chain.
MutPrepend(d, e, t) ==
  [d EXCEPT !.tran[e] = t, !.prev[e] = Nil, !.next[e] = d.head[t],
            !.prev[d.head[t]] = e, !.head[t] = e, !.number[t] = @ + 1]

\* add_..._to_..._chain behind the target dst whose node is t.
AppendTo(d, e, t) ==
  LET last == d.tail[t]
      hung == [d EXCEPT !.tran[e] = t, !.prev[e] = last, !.next[last] = e]
  IN  [hung EXCEPT !.next[e] = Nil, !.tail[t] = e, !.number[t] = @ + 1]

\* link_..._structures: alone when the look-up finds nothing; otherwise behind
\* the head that was found, unless the head's own string differs, which
\* add_..._to_..._chain answers by WRONG_ARGS and its caller ignores.
IsLinked(d, e, d2) ==
  \/ /\ Found(d, d.str[e]) = {}
     /\ \E t \in Nodes : IsFreeNode(d, t) /\ d2 = LinkAlone(d, e, t)
  \/ \E f \in Found(d, d.str[e]) :
       LET dst == d.head[f] IN
       \/ d.str[dst] # d.str[e] /\ d2 = d
       \/ /\ d.str[dst] = d.str[e]
          /\ d.tran[dst] # Nil
          /\ d.tail[d.tran[dst]] # Nil
          /\ d.number[d.tran[dst]] < MaxNumber
          /\ d2 = AppendTo(d, e, d.tran[dst])

\* Linking dereferences a null node or a null tail.
LinkUndefined(d, e) ==
  \E f \in Found(d, d.str[e]) :
    LET dst == d.head[f] IN
    /\ d.str[dst] = d.str[e]
    /\ d.tran[dst] = Nil \/ d.tail[d.tran[dst]] = Nil

-----------------------------------------------------------------------------
(* Operations                                                              *)

Init ==
  /\ live = {}
  /\ db = [str  |-> [e \in Targets |-> NoStr],
           prev |-> [e \in Targets |-> Nil],
           next |-> [e \in Targets |-> Nil],
           tran |-> [e \in Targets |-> Nil],
           used |-> {},
           key  |-> [t \in Nodes |-> NoStr],
           head |-> [t \in Nodes |-> Nil],
           tail |-> [t \in Nodes |-> Nil],
           number |-> [t \in Nodes |-> 0]]
  /\ crashed = FALSE
  /\ stale = 0

\* History: the operation leaves the first stale link, or comes after it.
CountStale(leaves) ==
  /\ stale < MaxStale
  /\ stale' = IF leaves \/ stale > 0 THEN stale + 1 ELSE 0

\* A target is added to its layer 2 array, its string set, and it is linked.
Add(e, s) ==
  LET d == WipeTarget(db, e, s) IN
  /\ ~crashed
  /\ e \notin live
  /\ \A f \in Targets \ live : e <= f
  /\ IF LinkUndefined(d, e)
     THEN crashed' = TRUE /\ UNCHANGED <<live, db>>
     ELSE IsLinked(d, e, db') /\ live' = live \cup {e} /\ UNCHANGED crashed
  /\ CountStale(FALSE)

\* del_entry, del_file_data, del_section: unlink, then the slot is wiped.
Delete(e) ==
  /\ ~crashed
  /\ e \in live
  /\ IF UnlinkUndefined(db, e)
     THEN crashed' = TRUE /\ UNCHANGED <<live, db>>
     ELSE /\ db' = WipeTarget(Unlink(db, e), e, NoStr)
          /\ live' = live \ {e}
          /\ UNCHANGED crashed
  /\ CountStale(FALSE)

\* A target that shares its string, renamed to a string that has no node.
LeavesStaleLinks(e, s) ==
  /\ db.prev[e] # Nil \/ db.next[e] # Nil
  /\ Found(Unlink(db, e), s) = {}

\* edit : the target is unlinked, its string changed, and it is linked again.
Rename(e, s) ==
  LET d == [Unlink(db, e) EXCEPT !.str[e] = s] IN
  /\ ~crashed
  /\ e \in live
  /\ IF UnlinkUndefined(db, e) \/ LinkUndefined(d, e)
     THEN crashed' = TRUE /\ UNCHANGED db
     ELSE IsLinked(d, e, db') /\ UNCHANGED crashed
  /\ CountStale(LeavesStaleLinks(e, s))
  /\ UNCHANGED live

Next ==
  \/ \E e \in Targets, s \in Strs : Add(e, s)
  \/ \E e \in live : Delete(e)
  \/ \E e \in live, s \in Strs : Rename(e, s)

Spec == Init /\ [][Next]_vars

-----------------------------------------------------------------------------
(* Properties                                                              *)

\* The memory holds what the C structures can hold.
TypeOK ==
  /\ live \in SUBSET Targets
  /\ db \in Memory
  /\ crashed \in BOOLEAN
  /\ stale \in 0 .. MaxStale

\* Following one kind of link from a start, as far as one step more than there are
\* targets, and the targets met on the way.
Steps(start, link) ==
  LET at[k \in 0 .. MaxTargets] ==
        IF k = 0 THEN start
        ELSE IF at[k - 1] = Nil THEN Nil ELSE link[at[k - 1]]
  IN  at

Follow(start, link) ==
  LET at == Steps(start, link)
  IN  [k \in {j \in 1 .. MaxTargets + 1 : at[j - 1] # Nil} |-> at[k - 1]]

Walk(s) ==
  IF Found(db, s) = {} THEN <<>>
  ELSE Follow(db.head[CHOOSE t \in Found(db, s) : TRUE], db.next)

WalkBack(s) ==
  IF Found(db, s) = {} THEN <<>>
  ELSE Follow(db.tail[CHOOSE t \in Found(db, s) : TRUE], db.prev)

\* Whoever follows the chain of a string from its head (find, save, verify)
\* meets every live target that carries the string once and nobody else, and
\* from the tail the same ones backwards, until a rename has left stale links.
ChainsExact ==
  stale = 0 => \A s \in Strs :
    /\ {e \in live : db.str[e] = s} = Range(Walk(s))
    /\ IsInjective(Walk(s))
    /\ WalkBack(s) = Reverse(Walk(s))

\* Each link, each end and each node agrees with its neighbours: what unlink
\* reads off a target (alone, head, tail or middle) is the truth about it.
LinkOK(d, on, e) ==
  LET t == d.tran[e]  p == d.prev[e]  n == d.next[e] IN
  /\ t \in d.used
  /\ d.key[t] = d.str[e]
  /\ p = Nil <=> d.head[t] = e
  /\ n = Nil <=> d.tail[t] = e
  /\ p # Nil => p \in on /\ d.next[p] = e /\ d.tran[p] = t
  /\ n # Nil => n \in on /\ d.prev[n] = e /\ d.tran[n] = t

NodeOK(d, on, t) ==
  /\ d.key[t] \in Strs
  /\ d.head[t] \in on /\ d.tran[d.head[t]] = t
  /\ d.tail[t] \in on /\ d.tran[d.tail[t]] = t
  /\ \A u \in d.used : d.key[u] = d.key[t] => u = t

Consistent(d, on) ==
  /\ \A e \in on : LinkOK(d, on, e)
  /\ \A t \in d.used : NodeOK(d, on, t)

LinksConsistent == stale = 0 => Consistent(db, live)

\* No sequence of additions, deletions and harmless renames makes a chain
\* operation follow a null pointer or take a node out of the table twice.
NoCrash == stale = 0 => ~crashed

\* Seen through the chains, every step is a step of NameIndex: it keeps the
\* order of every list and touches no list but those of the strings concerned.
Index == INSTANCE NameIndex WITH lists <- [s \in Strs |-> Walk(s)]

ImplementsNameIndex ==
  /\ Index!Init
  /\ [][stale' = 0 => Index!Next \/ UNCHANGED db]_vars
=============================================================================
