----------------------------- MODULE EntryTree -----------------------------
(***************************************************************************)
(* The tree of entries of one database and the table that finds an entry   *)
(* by its id: touch, mkdir, cp, rm, mv (make_entry, copy_entry, del_entry),*)
(* and edit's tag, as one user issues them one after the other.     *)
(*                                                                         *)
(* Entries and id nodes live in layer 2 arrays: the lowest free slot is    *)
(* taken and a freed slot stays readable as wiped memory.  A command names *)
(* its targets by id, db->id, so that it reaches whatever the id table     *)
(* points at.                                                              *)
(***************************************************************************)
EXTENDS Naturals, Sequences, FiniteSets, SequencesExt

CONSTANTS
  MaxEntries,  \* bound of the model: slots for entries
  MaxNodes,    \* bound of the model: slots for id nodes
  MaxTags,     \* bound of the model: edit tags an entry below this many
  MaxDamage    \* bound of the model: commands from the first damage on

ASSUME TreeAssumption ==
  /\ MaxEntries \in Nat \ {0}
  /\ MaxNodes \in Nat \ {0}
  /\ MaxTags \in Nat
  /\ MaxDamage \in Nat

Nil == 0                  \* the null pointer, and the id of wiped memory
Entries == 1 .. MaxEntries
Root == MaxEntries + 1    \* dh->tree, the head of the tree; never freed
Places == Entries \cup {Root}
Nodes == Root + 1 .. Root + MaxNodes
Ids == Root + MaxNodes + 1 .. Root + 2 * MaxNodes   \* as many as nodes

VARIABLES
  db,       \* the memory of entries and id nodes, see Memory
  outcome,  \* "ok"; "undefined": freed memory or a null pointer was used;
            \* "endless": a copy that never ends; "stale": a command was given
            \* an id whose node points at a free slot, where the model stops
  damage    \* history: 0 until a command does what Damages says, then the
            \* commands from there on

vars == <<db, outcome, damage>>

Memory ==
  [used   : SUBSET Entries,                   \* slots in use
   kind   : [Places -> {"none", "file", "group"}],
   tag    : [Places -> {"none", "linked", "unlinked"}],
   parent : [Places -> Places \cup {Nil}],
   child  : [Places -> Seq(Places)],
   freed  : SUBSET Places,   \* child points to freed memory
   branch : [Places -> Ids \cup {Nil}],
   id     : [Places -> Ids \cup {Nil}],
   node   : [Places -> Nodes \cup {Nil}],
   key    : [Nodes -> Ids \cup {Nil}],        \* Nil: not in the hash table
   tar    : [Nodes -> Places \cup {Nil}],
   undefined : BOOLEAN]

-----------------------------------------------------------------------------
(* Pieces of the operations, as functions of the memory                    *)

Least(S) == CHOOSE x \in S : \A y \in S : x <= y

FreeEntries(d) == Entries \ d.used
FreeNodes(d) == {n \in Nodes : d.key[n] = Nil}

\* Plausible slip: no look-up, a random id is taken to be new.
MutNewId(d) == Least(Ids)

\* gen_entry_id until the look-up finds no node: any unused id.  One is as
\* good as another; the least makes ids come back as soon as they are free.
NewId(d) ==
  Least(Ids \ {d.key[n] : n \in Nodes})

\* Plausible slip: a slot is not wiped, it keeps its old list of children.
MutWipe(d, e) ==
  [d EXCEPT !.kind[e] = "none", !.tag[e] = "none", !.parent[e] = Nil,
            !.child[e] = <<>>, !.branch[e] = Nil, !.id[e] = Nil, !.node[e] = Nil]

\* mem_wipe_sec of a slot.
Wipe(d, e) ==
  [d EXCEPT !.kind[e] = "none", !.tag[e] = "none", !.parent[e] = Nil,
            !.child[e] = <<>>, !.freed = @ \ {e}, !.branch[e] = Nil,
            !.id[e] = Nil, !.node[e] = Nil]

\* add_entry_to_layer2_arr.
NewEntry(d, e) == [Wipe(d, e) EXCEPT !.used = @ \cup {e}]

\* link_entry_to_entry_id_structures; the node that e had, if any, is left.
LinkId(d, e) ==
  LET n == Least(FreeNodes(d)) IN
  [d EXCEPT !.key[n] = d.id[e], !.tar[n] = e, !.node[e] = n]

\* Plausible slip: the node stays in the hash table.
MutUnlinkId(d, e) ==
  LET n == d.node[e] IN
  IF n = Nil THEN d ELSE [d EXCEPT !.tar[n] = Nil, !.node[e] = Nil]

\* unlink_entry_from_entry_id_structures.
UnlinkId(d, e) ==
  LET n == d.node[e] IN
  IF n = Nil THEN d
  ELSE [d EXCEPT !.key[n] = Nil, !.tar[n] = Nil, !.node[e] = Nil]

\* put_into_children_array.
PutChild(d, p, e) ==
  [d EXCEPT !.child[p] = Append(@, e), !.parent[e] = p,
            !.undefined = @ \/ p \in d.freed]

\* Plausible slip: the parent itself is taken for its branch id.
MutBranchType(d, e) ==
  [d EXCEPT !.branch[e] = IF d.parent[e] = Root THEN d.id[e] ELSE d.parent[e]]

\* The branch id comes from the parent, or is the id of a head of branch.
SetBranch(d, e) ==
  [d EXCEPT !.branch[e] = IF d.parent[e] = Root THEN d.id[e]
                          ELSE d.branch[d.parent[e]]]

-----------------------------------------------------------------------------
(* The recursive operations                                                *)

RECURSIVE Subtree(_, _)
Subtree(d, e) ==
  {e} \cup UNION {Subtree(d, c) : c \in Range(d.child[e])}

\* copy_entry: a copied tag is not linked, the id is linked a second time in
\* its place, and the branch id is set after the children have been copied.
RECURSIVE CopyEntry(_, _, _, _), CopyChildren(_, _, _, _), MutCopyLoop(_, _, _, _)
CopyEntry(d, dst, src, recursive) ==
  LET e  == Least(FreeEntries(d))
      d1 == LinkId([NewEntry(d, e) EXCEPT !.id[e] = NewId(d)], e)
      d2 == PutChild([d1 EXCEPT !.kind[e] = d.kind[src],
                        !.tag[e] = IF d.tag[src] = "none" THEN "none"
                                   ELSE "unlinked"], dst, e)
      d3 == IF recursive THEN CopyChildren(d2, e, src, 1) ELSE d2
      d4 == IF d.tag[src] = "none" THEN d3 ELSE LinkId(d3, e)
  IN  SetBranch(d4, e)
MutCopyLoop(d, dst, src, i) ==   \* plausible slip: the last child is left out
  IF i >= Len(d.child[src]) THEN d
  ELSE MutCopyLoop(CopyEntry(d, dst, d.child[src][i], TRUE), dst, src, i + 1)
CopyChildren(d, dst, src, i) ==
  IF i > Len(d.child[src]) THEN d
  ELSE CopyChildren(CopyEntry(d, dst, d.child[src][i], TRUE), dst, src, i + 1)

\* Plausible slip: the last child of a list is left in it.
MutTakeOut(d, p, e) ==
  [d EXCEPT !.child[p] = IF Len(@) = 1 THEN @ ELSE RemoveFirst(@, e)]

\* The shift of the parent's list over the place of the entry.
TakeOut(d, p, e) ==
  [d EXCEPT !.child[p] = RemoveFirst(@, e)]

\* del_entry: the children first, by an index into a list from which each one
\* removes itself, so that every second one is skipped; then the list is
\* freed; then the entry leaves its parent's list.  An entry that is not in
\* that list answers LOGIC_ERROR here and stays.
RECURSIVE DelEntry(_, _), DelFrom(_, _, _), MutDelLoop(_, _, _)
DelEntry(d, e) ==
  LET p  == d.parent[e]
      d1 == IF d.child[e] = <<>> THEN d
            ELSE [DelFrom(d, e, 1) EXCEPT
                    !.undefined = @ \/ e \in d.freed, !.freed = @ \cup {e}]
  IN  CASE d.undefined -> d
        [] ~d.undefined /\ (p = Nil \/ (p \in d.freed /\ d1.child[p] # <<>>)) ->
             [d1 EXCEPT !.undefined = TRUE]
        [] ~d.undefined /\ p # Nil /\ e \notin Range(d1.child[p]) -> d1
        [] OTHER ->
             [Wipe(UnlinkId(TakeOut(d1, p, e), e), e) EXCEPT !.used = @ \ {e}]
MutDelLoop(d, e, i) ==   \* plausible slip: the first child is left out
  IF d.undefined \/ i >= Len(d.child[e]) THEN d
  ELSE MutDelLoop(DelEntry(d, d.child[e][i + 1]), e, i + 1)
DelFrom(d, e, i) ==
  IF d.undefined \/ i > Len(d.child[e]) THEN d
  ELSE DelFrom(DelEntry(d, d.child[e][i]), e, i + 1)

\* Plausible slip: the source is deleted before it is copied.
MutMoveEntry(d, dst, src, recursive) ==
  CopyEntry(DelEntry(d, src), dst, src, recursive)

\* mv: the source is copied to its new place and then deleted.
MoveEntry(d, dst, src, recursive) ==
  DelEntry(CopyEntry(d, dst, src, recursive), src)

-----------------------------------------------------------------------------
(* What a command may be given                                             *)

\* locator_to_dir with db->id: what a node of the hash table points at, if it
\* is an entry.
Located == {Root} \cup {db.tar[n] : n \in {m \in Nodes : db.key[m] # Nil}}
Targets == Located \cap (db.used \cup {Root})

\* What cp would copy, and whether the model has the slots for it.
Copied(src, recursive) == IF recursive THEN Subtree(db, src) ELSE {src}

Room(src, recursive) ==
  LET all == Copied(src, recursive) IN
  /\ Cardinality(all) <= Cardinality(FreeEntries(db))
  /\ Cardinality(all) + Cardinality({x \in all : db.tag[x] # "none"})
       <= Cardinality(FreeNodes(db))

\* An entry copied into its own subtree meets its own copy among the children
\* it still has to copy, for ever.
Endless(dst, src, recursive) == recursive /\ dst \in Subtree(db, src)

\* cp and mv refuse a group under a file.
Fits(dst, src) == ~(db.kind[src] = "group" /\ db.kind[dst] = "file")

\* grow_children_array of the destination, the loop over the source's list.
CopyUndefined(dst, src, recursive) ==
  \/ dst \in db.freed
  \/ recursive /\ \E x \in Subtree(db, src) : x \in db.freed /\ db.child[x] # <<>>

\* cp, and mv, of one source gets as far as copy_entry and comes back from it.
CopyRuns(dst, src, recursive) ==
  /\ Fits(dst, src)
  /\ ~Endless(dst, src, recursive)
  /\ ~CopyUndefined(dst, src, recursive)

MoveRuns(dst, src, recursive) ==
  /\ recursive \/ db.child[src] = <<>>
  /\ CopyRuns(dst, src, recursive)

\* What damages: deleting below an entry with two children or more (the second
\* is skipped), copying a tagged entry (its id is linked twice), deleting the
\* head of the tree, which has no parent (mv of a database does it).
DelDamages(d, e) ==
  e = Root \/ \E x \in Subtree(d, e) : Len(d.child[x]) >= 2

CopyDamages(src, recursive) ==
  \E x \in Copied(src, recursive) : db.tag[x] # "none"

Count(damages) ==
  /\ damage' = IF damages \/ damage > 0 THEN damage + 1 ELSE 0
  /\ damage' <= MaxDamage

\* The command has run to its end with the memory d, or has met its undoing.
Done(d) ==
  /\ db' = IF d.undefined THEN db ELSE d
  /\ outcome' = IF d.undefined THEN "undefined" ELSE "ok"

-----------------------------------------------------------------------------
(* Commands                                                                *)

Init ==
  /\ db = [used   |-> {},
           kind   |-> [e \in Places |->
                         IF e = Root THEN "group" ELSE "none"],
           tag    |-> [e \in Places |-> "none"],
           parent |-> [e \in Places |-> Nil],
           child  |-> [e \in Places |-> <<>>],
           freed  |-> {},
           branch |-> [e \in Places |-> Nil],
           id     |-> [e \in Places |-> Nil],
           node   |-> [e \in Places |-> Nil],
           key    |-> [n \in Nodes |-> Nil],
           tar    |-> [n \in Nodes |-> Nil],
           undefined |-> FALSE]
  /\ outcome = "ok"
  /\ damage = 0

\* make_entry: touch makes a file anywhere, mkdir a group under a group.
Make(p, k) ==
  /\ outcome = "ok"
  /\ p \in Targets
  /\ ~(k = "group" /\ db.kind[p] = "file")
  /\ FreeEntries(db) # {} /\ FreeNodes(db) # {}
  /\ LET e == Least(FreeEntries(db)) IN
     LET d1 == [NewEntry(db, e) EXCEPT !.kind[e] = k, !.id[e] = NewId(db)]
     IN  Done(LinkId(SetBranch(PutChild(d1, p, e), e), e))
  /\ Count(FALSE)

\* edit of the tag: it is linked, or linked anew.
Tag(e) ==
  /\ outcome = "ok"
  /\ e \in Targets \ {Root}
  /\ Cardinality({x \in Entries : db.tag[x] # "none"} \ {e}) < MaxTags
  /\ db' = [db EXCEPT !.tag[e] = "linked"]
  /\ Count(FALSE)
  /\ UNCHANGED outcome

\* What cp and mv of one source share: the destination's list is grown, what
\* does not fit is refused, and copy_entry is called; d is the memory afterwards.
Transfer(dst, src, recursive, d, damages) ==
  /\ outcome = "ok"
  /\ {dst, src} \subseteq Targets
  /\ \/ /\ dst \in db.freed \/ Fits(dst, src)
        /\ CopyUndefined(dst, src, recursive)
        /\ outcome' = "undefined" /\ UNCHANGED db
     \/ /\ Fits(dst, src)
        /\ Endless(dst, src, recursive)
        /\ outcome' = "endless" /\ UNCHANGED db
     \/ /\ CopyRuns(dst, src, recursive)
        /\ Room(src, recursive)
        /\ Done(d)
  /\ Count(damages)

\* cp, one source.
Copy(dst, src, recursive) ==
  Transfer(dst, src, recursive, CopyEntry(db, dst, src, recursive),
           CopyDamages(src, recursive))

\* rm, one target: without -r a target with children is refused.
Delete(e, recursive) ==
  /\ outcome = "ok"
  /\ e \in Targets \ {Root}
  /\ recursive \/ db.child[e] = <<>>
  /\ Done(DelEntry(db, e))
  /\ Count(DelDamages(db, e))

\* mv, one source: without -r a source with children is refused.
Move(dst, src, recursive) ==
  /\ recursive \/ db.child[src] = <<>>
  /\ Transfer(dst, src, recursive, MoveEntry(db, dst, src, recursive),
              CopyDamages(src, recursive) \/ DelDamages(db, src))

\* Any command whose target is a free slot, wiped or never used since.
UseStaleId ==
  /\ outcome = "ok"
  /\ Located # Targets
  /\ outcome' = "stale"
  /\ UNCHANGED <<db, damage>>

Next ==
  \/ \E p \in Places, k \in {"file", "group"} : Make(p, k)
  \/ \E e \in Entries : Tag(e)
  \/ \E dst, src \in Places, recursive \in BOOLEAN :
       \/ Copy(dst, src, recursive)
       \/ Move(dst, src, recursive)
  \/ \E e \in Entries, recursive \in BOOLEAN : Delete(e, recursive)
  \/ UseStaleId

Spec == Init /\ [][Next]_vars

-----------------------------------------------------------------------------
(* Properties                                                              *)

\* The memory holds what the C structures can hold.
TypeOK ==
  /\ db \in Memory
  /\ outcome \in {"ok", "undefined", "endless", "stale"}
  /\ damage \in 0 .. MaxDamage

\* Whoever goes down the tree from any entry, an orphan too, meets entries in
\* use that name him as their parent, none of them twice; and until the first
\* damage every entry in use is met from the head of the tree, so that
\* find_children_via_file_name may go by the lists of children or by the
\* parents of all entries of a name, the result is the same.
TreeExact ==
  /\ \A p \in db.used \cup {Root} :
       /\ IsInjective(db.child[p])
       /\ \A c \in Range(db.child[p]) : c \in db.used /\ db.parent[c] = p
  /\ damage = 0 => db.used = Subtree(db, Root) \ {Root} /\ db.freed = {}

\* The head of the branch an entry belongs to.
RECURSIVE HeadOf(_)
HeadOf(e) == IF db.parent[e] = Root THEN e ELSE HeadOf(db.parent[e])

\* Until the first damage an id leads to the one entry that carries it, each
\* entry is found by its id, and an entry has the id of the head of its branch,
\* wherever it was copied or moved, as branch id (none below a cp -r source).
IdsExact ==
  damage = 0 =>
    /\ \A n \in Nodes : db.key[n] # Nil =>
         db.tar[n] \in db.used /\ db.node[db.tar[n]] = n
    /\ \A e \in db.used : LET n == db.node[e] IN
         n # Nil /\ db.tar[n] = e /\ db.key[n] = db.id[e]
    /\ \A e \in db.used : db.branch[e] \in {Nil, db.id[HeadOf(e)]}

\* Damaged or not, the look-up of the id of an entry in use, an orphan too,
\* ends at that entry, whichever of its nodes it meets.
FoundById ==
  \A e \in db.used :
    /\ \E n \in Nodes : db.key[n] = db.id[e]
    /\ \A n \in Nodes : db.key[n] = db.id[e] => db.tar[n] = e

\* Until the first damage no command uses freed memory, a null pointer or an
\* id that leads to a free slot.
NoUndefined == damage = 0 => outcome \in {"ok", "endless"}

\* An entry and what is below it, order, kinds and tags, but no slots or ids.
RECURSIVE Shape(_, _)
Shape(d, e) ==
  <<d.kind[e], d.tag[e] # "none",
    [i \in DOMAIN d.child[e] |-> Shape(d, d.child[e][i])]>>

\* In any state cp -r would make a copy of the whole subtree
\* as the last child of the destination and change no other list or parent.
CopyIsFaithful ==
  \A dst, src \in Targets :
    CopyRuns(dst, src, TRUE) /\ Room(src, TRUE) =>
      LET d == CopyEntry(db, dst, src, TRUE) IN
      /\ ~d.undefined
      /\ Shape(d, Last(d.child[dst])) = Shape(db, src)
      /\ Front(d.child[dst]) = db.child[dst]
      /\ \A x \in db.used : /\ d.parent[x] = db.parent[x]
                            /\ x # dst => d.child[x] = db.child[x]

\* Until the first damage rm, of a target below which nothing has two children,
\* would take away that subtree and change the list of its parent alone.
RemovalIsExact ==
  damage = 0 => \A e \in Targets \ {Root} :
    ~DelDamages(db, e) =>
      LET d == DelEntry(db, e)  p == db.parent[e] IN
      /\ ~d.undefined
      /\ d.used = db.used \ Subtree(db, e)
      /\ d.child[p] = Remove(db.child[p], e)
      /\ \A x \in d.used \ {p} : d.child[x] = db.child[x]

\* Until the first damage mv to a place other than the source itself would
\* leave the same shape there, no trace of the source and all others in place.
\* (mv x x, without -r, copies x below itself and then deletes both.)
MoveIsFaithful ==
  damage = 0 => \A dst, src \in Targets : \A recursive \in BOOLEAN :
    /\ MoveRuns(dst, src, recursive)
    /\ Room(src, recursive)
    /\ ~CopyDamages(src, recursive) /\ ~DelDamages(db, src)
    /\ dst # src
    => LET d == MoveEntry(db, dst, src, recursive) IN
       /\ ~d.undefined
       /\ Shape(d, Last(d.child[dst])) = Shape(db, src)
       /\ d.used \cap Subtree(db, src) = {}
       /\ d.used = Subtree(d, Root) \ {Root}
       /\ Cardinality(d.used) = Cardinality(db.used)

-----------------------------------------------------------------------------
(* What the comments and messages of the code say, and the code does not do *)

\* ffp_database.c:3189 calls the loop over the children of a deleted entry
\* "recursive delete": nothing below the target of rm -r stays.
DeleteIsRecursive ==
  [][\A e \in Entries : Delete(e, TRUE) /\ outcome' = "ok" =>
       db'.used \cap Subtree(db, e) = {}]_vars
=============================================================================
