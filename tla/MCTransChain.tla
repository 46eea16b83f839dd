--------------------------- MODULE MCTransChain ---------------------------
(* Three targets and two strings: enough for a head, a middle and a tail, *)
(* for two chains at once, and for slots that are freed and used again.   *)
EXTENDS TransChain, TLC

CONSTANTS a, b

MCStrs == {a, b}
MCSymmetry == Permutations(MCStrs)
============================================================================
