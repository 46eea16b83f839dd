------------------------------- MODULE Session -------------------------------
(***************************************************************************)
(* The databases of a session and its current directory: newdb, savedb,    *)
(* loaddb, unloaddb, exit, cd, and, of the commands that change a database, *)
(* touch or mkdir, rm and edit.  A command finds its target by a locator, a *)
(* path from the root or from the current directory or a pair of database   *)
(* and id; the current directory holds names as well as pointers.           *)
(*                                                                         *)
(* A database or file is called x with so many suffixes .ffprint, and that  *)
(* is the number that stands for it.  What is in a file, and how it may come *)
(* to be torn, is the subject of DataFile.                                  *)
(***************************************************************************)
EXTENDS Naturals, Sequences, FiniteSets, FiniteSetsExt

CONSTANTS
  MaxHandles,  \* bound: databases made in one session
  MaxIds,      \* bound: entries made
  Locators,    \* how a target may be given, see Resolve
  MaxCmds,     \* bound: number of commands
  Torn         \* the file is missing or not whole

Args == 0..2              \* x, x.ffprint and x.ffprint.ffprint as a command may get them
Names == 0..1             \* the names of databases that come of them
Files == 1..2
Handles == 1..MaxHandles
Ids == 1..MaxIds
Top == 0                  \* the id that is all zeros, of the head of a tree
NoName == 2               \* the current directory is in no database
NoHandle == 0

\* A path has at least one name; a pair may leave out that of the database.
Steps == [to : {"here", "up"}] \cup [to : {"name", "entry"}, n : Nat]
PathLocators == [kind : {"absolute", "relative"}, path : Seq(Steps) \ {<<>>}]
PairLocators == [kind : {"pair"}, name : Names \cup {NoName}, id : Nat]

ASSUME SessionAssumption ==
  /\ MaxHandles \in Nat /\ MaxIds \in Nat /\ MaxCmds \in Nat
  /\ Locators \subseteq PathLocators \cup PairLocators

VARIABLES
  heap,     \* the databases: name, tree of entries, edits, unsaved mark
  table,    \* the handles in root->db; any other one is free memory
  files,    \* what is in the files
  cur,      \* the current directory
  outcome,  \* how the last command ended
  asked,    \* history: the last command asked before it dropped a database
  excused,  \* history: databases that may be lost without being asked for
  made,     \* history: the ids given out
  cmds      \* how many commands there have been

vars == <<heap, table, files, cur, outcome, asked, excused, made, cmds>>

\* tree: the entries and their parents; edited: those that have been edited.
Empty == [tree |-> <<>>, edited |-> {}]
NewHandle(n) == [name |-> n, data |-> Empty, unsaved |-> FALSE]
AtRoot == [name |-> NoName, id |-> Top, dh |-> NoHandle, of |-> NoHandle]

Init ==
  /\ heap = [h \in Handles |-> NewHandle(NoName)] /\ table = {}
  /\ files = [f \in Files |-> Torn]
  /\ cur = AtRoot /\ outcome = "ok" /\ asked = FALSE /\ excused = {}
  /\ made = 0 /\ cmds = 0

Tree(h) == heap[h].data.tree
Fresh == Cardinality({h \in Handles : heap[h].name # NoName}) + 1

\* lookup_db_name.
Named(n) == {h \in table : heap[h].name = n}

\* A database by its name, or else the only one whose name has it as a part.
Matches(n) ==
  IF Named(n) # {} THEN Named(n) ELSE {h \in table : heap[h].name >= n}

\* Plausible slip: the suffix stays in the name of a database.
MutStripped(k) == k

\* The suffix is added to the name of a file, and taken from that of a database.
Filed(k) == IF k = 0 THEN 1 ELSE k
Stripped(k) == IF k = 0 THEN 0 ELSE k - 1

-----------------------------------------------------------------------------
(* Directories and locators.  A directory has the name of a database and the *)
(* id of an entry, the handle dh, and an entry of that id of the database of.*)

None == {}      \* no such directory

\* point_to_dh.
ToDh(h) == [name |-> heap[h].name, id |-> Top, dh |-> h, of |-> h]

\* point_to_entry: dh stays what it is.
ToEntry(dir, h, e) == [dir EXCEPT !.id = e, !.of = h]

\* Plausible slip: a handle that is there is not looked up again.
MutUpdate(dir) == IF dir.dh # NoHandle THEN {[dir EXCEPT !.of = dir.dh]} ELSE None

\* update_dir_pointers.
Update(dir) ==
  {[dir EXCEPT !.dh = h, !.of = h] :
     h \in {g \in Named(dir.name) : dir.id \in DOMAIN Tree(g) \cup {Top}}}

\* One name of a relative path, in path_to_dir: the directory it leads to has
\* the pointers of the one it starts from where the step does not set them.
Step(dir, step) ==
  IF dir.name = NoName
  THEN CASE step.to \in {"here", "up"} -> {dir}
         [] step.to = "name"           -> {ToDh(h) : h \in Matches(step.n)}
         [] OTHER                      -> None
  ELSE UNION {LET h == now.of
                  e == now.id
                  children == {c \in DOMAIN Tree(h) : Tree(h)[c] = e} IN
    CASE step.to = "here"            -> {now}
      [] step.to = "up" /\ e = Top   -> {AtRoot}
      [] step.to = "up" /\ e # Top   ->
           IF Tree(h)[e] = Top THEN {ToDh(h)} ELSE {ToEntry(dir, h, Tree(h)[e])}
      [] step.to = "entry"           -> {ToEntry(dir, h, c) : c \in children \cap {step.n}}
      [] OTHER                       -> None : now \in Update(dir)}

\* What each number of names of a path leads to, and the whole path.
Reached(dir, path) ==
  LET at[k \in 0 .. Len(path)] ==
        IF k = 0 THEN {dir} ELSE UNION {Step(d, path[k]) : d \in at[k - 1]}
  IN  at

Walk(dir, path) == Reached(dir, path)[Len(path)]

\* locator_to_dir: at most one directory.  An absolute path starts at the root,
\* a relative one at the current directory; a pair names database and entry,
\* and in place of no name it has the name of the current directory.
Resolve(loc) ==
  CASE loc.kind = "absolute" -> Walk(AtRoot, loc.path)
    [] loc.kind = "relative" -> Walk(cur, loc.path)
    [] loc.kind = "pair" ->
         {[name |-> heap[h].name, id |-> loc.id, dh |-> h, of |-> h] :
            h \in {g \in (IF loc.name = NoName THEN Named(cur.name)
                          ELSE Matches(loc.name)) :
                     loc.id \in DOMAIN Tree(g) \cup {Top}}}

-----------------------------------------------------------------------------
(* Commands                                                                *)

Command == outcome # "gone" /\ cmds < MaxCmds /\ cmds' = cmds + 1

\* A locator that leads nowhere, or a refusal: the command does nothing.
Refused(loc) ==
  /\ Command
  /\ Resolve(loc) = None
  /\ outcome' = "refused" /\ asked' = FALSE
  /\ UNCHANGED <<heap, table, files, cur, excused, made>>

Cd(loc) ==
  /\ Command
  /\ cur' \in Resolve(loc)
  /\ outcome' = "ok" /\ asked' = FALSE
  /\ UNCHANGED <<heap, table, files, excused, made>>

\* add_dh_to_root_dir.
CanAdd(n) == Named(n) = {} /\ Fresh \in Handles

NewDb(k) ==
  /\ Command
  /\ CanAdd(Stripped(k))
  /\ heap' = [heap EXCEPT ![Fresh] = NewHandle(Stripped(k))]
  /\ table' = table \cup {Fresh}
  /\ outcome' = "ok" /\ asked' = FALSE
  /\ UNCHANGED <<files, cur, excused, made>>

\* What save_file may leave: a file that is whole, one that could not be
\* opened, one that is torn.
Written(h, f) == {heap[h].data, files[f], Torn}

\* MARK_DB_SAVED, whatever save_file has returned.
MarkSaved(h) == [heap EXCEPT ![h].unsaved = FALSE]

\* savedb: the databases whose file is written over, and the one that is not
\* written, have no file any more and are not marked.
SaveDb(k, f) ==
  /\ Command
  /\ \E h \in Named(k) :
       /\ \E written \in Written(h, f) :
            /\ files' = [files EXCEPT ![f] = written]
            /\ excused' = {g \in table :
                 /\ \A x \in Files : files'[x] # heap[g].data
                 /\ g = h \/ g \in excused \/ files[f] = heap[g].data}
       /\ heap' = MarkSaved(h)
  /\ outcome' = "ok" /\ asked' = FALSE
  /\ UNCHANGED <<table, cur, made>>

\* loaddb: when load_file fails the database to delete is looked up by the
\* argument of the command, from which the suffix has not been taken.
LoadDb(k) ==
  LET n == Stripped(k)
      f == Filed(k)
      loaded == [NewHandle(n) EXCEPT !.data = files[f]] IN
  /\ Command
  /\ CanAdd(n)
  /\ IF files[f] # Torn
     THEN /\ heap' = [heap EXCEPT ![Fresh] = loaded]
          /\ table' = table \cup {Fresh}
          /\ outcome' = "ok" /\ UNCHANGED excused
     ELSE /\ heap' = [heap EXCEPT ![Fresh] = NewHandle(n)]
          /\ table' = {h \in table \cup {Fresh} : heap'[h].name # k}
          /\ outcome' = "refused"
          /\ excused' = excused \cup Named(k)
  /\ asked' = FALSE
  /\ UNCHANGED <<files, cur, made>>

\* unloaddb of what a locator leads to: a marked database is asked for.
UnloadDb(loc) ==
  /\ Command
  /\ \E dir \in Resolve(loc) :
       /\ dir.name # NoName /\ dir.id = Top
       /\ table' = table \ {dir.dh}
       /\ asked' = heap[dir.dh].unsaved
  /\ outcome' = "ok"
  /\ UNCHANGED <<heap, files, cur, excused, made>>

\* exit asks once for all marked databases; the next session starts afresh.
Exit ==
  /\ Command
  /\ asked' = (\E h \in table : heap[h].unsaved)
  /\ table' = {}
  /\ cur' = AtRoot
  /\ outcome' = "ok"
  /\ UNCHANGED <<heap, files, excused, made>>

\* A change of an entry through the pointers of a directory: what they point
\* to must still be there.
Usable(dir) ==
  dir.dh \in table /\ dir.of \in table /\ dir.id \in DOMAIN Tree(dir.of) \cup {Top}

\* Plausible slip: touch and rm do not mark the database, as edit does not.
MutMarked(h, data, marks) == [heap EXCEPT ![h].data = data]

\* The data after a change, and MARK_DB_UNSAVED where the command has it.
Marked(h, data, marks) ==
  [heap EXCEPT ![h].data = data, ![h].unsaved = @ \/ marks]

Change(dir, data, marks) ==
  /\ IF Usable(dir)
     THEN heap' = Marked(dir.of, data, marks) /\ outcome' = "ok"
     ELSE UNCHANGED heap /\ outcome' = "gone"
  /\ asked' = FALSE
  /\ excused' = IF marks \/ ~Usable(dir) THEN excused ELSE excused \cup {dir.of}
  /\ UNCHANGED <<table, files, cur>>

WithEntry(data, p, e) ==
  [data EXCEPT !.tree = [x \in DOMAIN @ \cup {e} |-> IF x = e THEN p ELSE @[x]]]

\* The subtree of e: what is in every set that has e and the children of each
\* of its members.
Below(tree, e) ==
  {e} \cup {x \in DOMAIN tree : \A S \in SUBSET (DOMAIN tree \cup {e}) :
               e \in S /\ (\A c \in DOMAIN tree : tree[c] \in S => c \in S) => x \in S}

Without(data, gone) ==
  [tree |-> [x \in DOMAIN data.tree \ gone |-> data.tree[x]],
   edited |-> data.edited \ gone]

\* touch and mkdir below the current directory, whose pointers are taken as
\* they are, or below what the part of the path up to the last slash leads to.
Make(dir) ==
  /\ Command
  /\ dir.name # NoName
  /\ made < MaxIds /\ made' = made + 1
  /\ Change(dir, WithEntry(heap[dir.of].data, dir.id, made'), TRUE)

MakeHere == Make(cur)
MakeAt(loc) == \E dir \in Resolve(loc) : Make(dir)

\* rm marks the database, rm -r does not.
Rm(loc, recursive) ==
  /\ Command
  /\ \E dir \in Resolve(loc) :
       LET gone == Below(Tree(dir.of), dir.id) IN
       /\ dir.id # Top
       /\ recursive \/ gone = {dir.id}
       /\ Change(dir, Without(heap[dir.of].data, gone), ~recursive)
  /\ UNCHANGED made

\* edit does not mark it either.
Edit(loc) ==
  /\ Command
  /\ \E dir \in Resolve(loc) :
       /\ dir.id # Top
       /\ Change(dir, [heap[dir.of].data EXCEPT !.edited = @ \cup {dir.id}], FALSE)
  /\ UNCHANGED made

Next ==
  \/ \E loc \in Locators :
       \/ Refused(loc)
       \/ Cd(loc)
       \/ UnloadDb(loc)
       \/ MakeAt(loc)
       \/ \E recursive \in BOOLEAN : Rm(loc, recursive)
       \/ Edit(loc)
  \/ MakeHere
  \/ \E k \in Args : NewDb(k) \/ LoadDb(k)
  \/ \E k \in Names, f \in Files : SaveDb(k, f)
  \/ Exit

Spec == Init /\ [][Next]_vars

-----------------------------------------------------------------------------
(* Properties                                                              *)

\* The databases of the session have different names, those that lookup_db_name
\* finds, and trees that lead up to their head.
TypeOK ==
  /\ table \subseteq Handles
  /\ \A h \in table : heap[h].name \in Names
  /\ \A h, g \in table : heap[h].name = heap[g].name => h = g
  /\ \A h \in Handles : \A e \in DOMAIN Tree(h) :
       e \in Ids /\ Tree(h)[e] \in DOMAIN Tree(h) \cup {Top}
  /\ \A f \in Files : files[f] # Torn => files[f].edited \subseteq DOMAIN files[f].tree
  /\ cur.name = NoName <=> cur = AtRoot
  /\ outcome \in {"ok", "refused", "gone"}

\* The current directory has been unloaded or removed.
Gone(dir) ==
  dir.name # NoName /\ ~(dir.dh \in table /\ dir.id \in DOMAIN Tree(dir.dh) \cup {Top})

\* A locator, whatever happened since the last cd, leads to an entry that is
\* there; its handle is that of the database, unless the current directory
\* itself is gone.  No command works on freed memory before it is.
OnlyGoneIsUsed ==
  /\ \A loc \in Locators : \A dir \in Resolve(loc) :
       dir.name = NoName \/ Usable(dir)
       \/ (Gone(cur) /\ dir.of \in table /\ dir.id \in DOMAIN Tree(dir.of))
  /\ outcome = "gone" => Gone(cur)

\* A database that is dropped without a question is in a file as it is, or
\* empty: rm -r and edit, which do not mark it, a savedb that did not write it
\* or wrote another one over it, and a loaddb that fails are excused.
NothingLostUnasked ==
  [][\A h \in table \ table' :
       \/ asked' \/ h \in excused' \/ heap[h].data = Empty
       \/ \E f \in Files : files'[f] = heap[h].data]_vars
=============================================================================
