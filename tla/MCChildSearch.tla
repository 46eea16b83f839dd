--------------------------- MODULE MCChildSearch ---------------------------
(* Names of one and two characters: parts of each other, sharing a          *)
(* character at a position, and mixing into a false candidate.              *)
EXTENDS ChildSearch, TLC

CONSTANTS chA, chB

MCChars == {chA, chB}
MCNames == {<<chA>>, <<chA, chB>>, <<chB, chB>>}
MCParts == {<<chA>>, <<chB>>, <<chA, chB>>}
============================================================================
