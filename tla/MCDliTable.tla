----------------------------- MODULE MCDliTable -----------------------------
(* Small instances of DliTable: two strings of different lengths, and     *)
(* pairs that share datasets or differ in the hosts only.                   *)
EXTENDS DliTable

MCNames   == {"a", "b"}
MCNameLen == [n \in MCNames |-> IF n = "b" THEN 2 ELSE 1]
Pair(h, d, e) == [host |-> h, ds |-> <<d, e>>]
MCPairs   == {Pair(<<1, 2>>, "a", "b"), Pair(<<1, 2>>, "b", "b"), Pair(<<1, 3>>, "a", "b")}
=============================================================================
