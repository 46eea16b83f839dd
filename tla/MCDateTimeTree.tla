--------------------------- MODULE MCDateTimeTree ---------------------------
(* Three entries for a head, a middle and a tail; a day 31 and the month    *)
(* after it; two hours of a day; a December.                                *)
EXTENDS DateTimeTree

MCCells == {<<2016, 1, 31, 0>>, <<2016, 2, 5, 0>>, <<2016, 2, 5, 1>>,
            <<2016, 3, 5, 0>>, <<2017, 12, 5, 0>>}
MCMinutes == {0, 1}
=============================================================================
