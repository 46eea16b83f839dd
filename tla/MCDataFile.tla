----------------------------- MODULE MCDataFile -----------------------------
(* A section with a SHA1 whose string edit has set, and which hex_str_to_bytes *)
(* has made other bytes of; one with a SHA256 only; and file data that fp or   *)
(* edit can make and verify_entry accepts, but load_file does not.             *)
EXTENDS DataFile

D(used, loads) ==
  LET sums == [s \in Slots |-> IF s \in used THEN s + 1 ELSE 0] IN
  [used |-> used, bytes |-> sums, str |-> sums, loads |-> loads]
MCContents == {[D({0}, TRUE) EXCEPT !.str[0] = 2], D({1}, TRUE), D({}, FALSE)}
=============================================================================
