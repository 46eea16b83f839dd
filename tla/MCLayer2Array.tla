--------------------------- MODULE MCLayer2Array ---------------------------
(* A layer 2 array small enough to be filled, grown and emptied: arrays of  *)
(* two slots, two arrays at the start, one more for each of two growths, the *)
(* second of which needs another block of the bitmap of full arrays.         *)
EXTENDS Layer2Array, TLC

CONSTANTS v1, v2

MCValues == {v1, v2}
MCSymmetry == Permutations(MCValues)
=============================================================================
