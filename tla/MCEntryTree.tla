---------------------------- MODULE MCEntryTree ----------------------------
(* Four slots for entries: an entry with two children, a subtree and its    *)
(* copy, a freed slot that is taken again; and nodes for ids linked twice.  *)
EXTENDS EntryTree
=============================================================================
