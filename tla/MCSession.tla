----------------------------- MODULE MCSession -----------------------------
(* Paths from the root, relative ones of one and of two names, and pairs with  *)
(* and without the name of a database.                                         *)
EXTENDS Session

P(kind, path) == [kind |-> kind, path |-> path]
Pair(name, id) == [kind |-> "pair", name |-> name, id |-> id]
Db(n) == [to |-> "name", n |-> n]
E(n) == [to |-> "entry", n |-> n]
Here == [to |-> "here"]
Up == [to |-> "up"]

MCLocators == {P("absolute", <<Db(0)>>), P("absolute", <<Db(1)>>),
  P("absolute", <<Db(0), E(1)>>), P("relative", <<Here>>), P("relative", <<Up>>),
  P("relative", <<E(1)>>), P("relative", <<E(2)>>), P("relative", <<E(1), E(2)>>),
  Pair(0, 2), Pair(NoName, 1)}
=============================================================================
