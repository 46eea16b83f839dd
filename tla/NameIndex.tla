----------------------------- MODULE NameIndex -----------------------------
(***************************************************************************)
(* What an index of objects by a shared string promises: the objects that  *)
(* carry a string, in the order in which they were linked under it, and no *)
(* other.  Linking or unlinking an object never disturbs the list of a     *)
(* string the object does not carry.  TransChain implements this module    *)
(* until a rename goes through the path its history variable records.      *)
(***************************************************************************)
EXTENDS Sequences, SequencesExt

CONSTANTS Targets, Strs

VARIABLE lists    \* string |-> the targets that carry it, oldest first

Listed(e) == {s \in Strs : e \in Range(lists[s])}

Init == lists = [s \in Strs |-> <<>>]

\* A new target joins the end of the list of its string.
Add(e, s) ==
  /\ Listed(e) = {}
  /\ lists' = [lists EXCEPT ![s] = Append(@, e)]

\* A target leaves its list, the others keep their order.
Delete(s, i) ==
  /\ i \in DOMAIN lists[s]
  /\ lists' = [lists EXCEPT ![s] = RemoveAt(@, i)]

\* A target changes its string: it becomes the last of its new list.
Rename(s, i, t) ==
  /\ i \in DOMAIN lists[s]
  /\ lists' = [u \in Strs |->
                 LET rest == IF u = s THEN RemoveAt(lists[u], i) ELSE lists[u]
                 IN  IF u = t THEN Append(rest, lists[s][i]) ELSE rest]

Next ==
  \E s \in Strs :
    \/ \E e \in Targets : Add(e, s)
    \/ \E i \in DOMAIN lists[s] :
         \/ Delete(s, i)
         \/ \E t \in Strs : Rename(s, i, t)

Spec == Init /\ [][Next]_lists
=============================================================================
