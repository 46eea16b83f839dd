----------------------------- MODULE MCFileData -----------------------------
(* Two classes: files below 5 bytes are one section, below 8 two, below 12     *)
(* three, above it three; half of a file may leak into samples.  Sections of   *)
(* 5 bytes, those of the largest file, are too large for an int.               *)
EXTENDS FileData

MCClassSize == <<8, 12>>
MCIdealNum == <<2, 3>>
MCSizes == {0, 1, 4, 6, 7, 8, 10, 12, 13}
MCKinds == {"sha1", "sha512"}
F(size, extr, sums, sextr, sectSums) ==
  [size |-> size, extr |-> extr, sums |-> sums, sextr |-> sextr, sectSums |-> sectSums]
MCFlags == {F(TRUE, TRUE, MCKinds, TRUE, {"sha1"}), F(TRUE, FALSE, {"sha1"}, FALSE, MCKinds),
            F(FALSE, TRUE, {"sha1"}, FALSE, {}),
            F(TRUE, TRUE, {}, FALSE, {})}
MCEditSizes == {0, 5, 21}
MCEditStrs == {<<0, 4>>}
=============================================================================
