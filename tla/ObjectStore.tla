---------------------------- MODULE ObjectStore ----------------------------
(***************************************************************************)
(* What a layer 2 array promises to the code that uses it: a store of      *)
(* objects named by small integers.  Alloc hands out the least handle that *)
(* names nothing and a blank object under it, Free forgets one handle, and *)
(* no operation ever touches the object of another handle.  An Alloc that  *)
(* gets no memory may break the store: its objects are left as they were,  *)
(* and nothing is promised from then on.  Layer2Array implements this      *)
(* module.                                                                 *)
(***************************************************************************)
EXTENDS Naturals

CONSTANTS
  Handles,  \* every obj_arr_index an array of the given bound can produce
  Values,   \* what the owner of an object may store in it
  Wiped     \* the content of an object straight after mem_wipe_sec

VARIABLES
  store,    \* handle |-> content, for the objects in use
  phase     \* "open"; "broken" by an Alloc without memory; "closed"

vars == <<store, phase>>

Init == store = [i \in {} |-> Wiped] /\ phase = "open"

\* The new handle is the least free one and its object is blank.
Alloc ==
  /\ phase = "open"
  /\ \E i \in Handles \ DOMAIN store :
       /\ \A j \in Handles \ DOMAIN store : i <= j
       /\ store' = [j \in DOMAIN store \cup {i} |->
                      IF j = i THEN Wiped ELSE store[j]]
  /\ UNCHANGED phase

\* The owner of a handle fills its object in.
Fill ==
  /\ phase = "open"
  /\ \E i \in DOMAIN store, v \in Values : store' = [store EXCEPT ![i] = v]
  /\ UNCHANGED phase

\* One handle goes, every other keeps its object.
Free ==
  /\ phase = "open"
  /\ \E i \in DOMAIN store :
       store' = [j \in DOMAIN store \ {i} |-> store[j]]
  /\ UNCHANGED phase

\* The whole store goes.
Close ==
  /\ phase = "open"
  /\ phase' = "closed"
  /\ store' = [i \in {} |-> Wiped]

\* An Alloc that got no memory and left the store unusable.
Break ==
  /\ phase = "open"
  /\ phase' = "broken"
  /\ UNCHANGED store

Next == Alloc \/ Break \/ Fill \/ Free \/ Close

Spec == Init /\ [][Next]_vars
=============================================================================
