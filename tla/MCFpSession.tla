---------------------------- MODULE MCFpSession ----------------------------
(* A directory with a file and a directory, in which there is a file of the *)
(* same name: the smallest tree in which a wrong working directory shows.   *)
(* Beside them the root lists a link to the inner directory.  The second    *)
(* call of fp is the one of interest; the first leaves something behind.    *)
EXTENDS FpSession

MCDirs == {<<"d">>, <<"d", "e">>}
MCFiles == {<<"d", "x">>, <<"d", "e", "x">>}
MCLinks == [l \in {<<"l">>} |-> <<"d", "e">>]
MCDepths == {2, NoDepth}
MCGiven == <<{<<"d", "e">>} \X {2}, Nodes \X {2} \cup {<<"d">>} \X {NoDepth}>>
=============================================================================
