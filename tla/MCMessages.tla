----------------------------- MODULE MCMessages ------------------------------
(****************************************************************************)
(* Small instances of ArbMsg and SimpleSock in one run.  They share         *)
(* nothing, so a behaviour uses one of them.                                *)
(*                                                                          *)
(* ArbMsg: strings of three lengths, two of the same, and pairs with equal, *)
(* shared, different and empty strings.  SimpleSock: one client sends two   *)
(* messages, another one only connects.                                     *)
(****************************************************************************)
EXTENDS ArbMsg, SimpleSock

CONSTANTS c1, c2

MCNames   == {"", "a", "b", "cc"}
MCNameLen == [n \in MCNames |-> CASE n = "" -> 1 [] n = "cc" -> 3 [] OTHER -> 2]
Desc(i, ip, l, r) == [id |-> i, ip |-> ip, lds |-> l, rds |-> r]
MCDescs   == {Desc(1, "a", "a", "b"), Desc(2, "b", "cc", ""), Desc(3, "", "", "cc")}

MCConns   == {c1, c2}
MCMaxMsgs == [c \in MCConns |-> IF c = c1 THEN 2 ELSE 0]

VARIABLE used    \* the part of this behaviour

MCInit == MsgInit /\ Init /\ used \in {"codec", "sockets"}

MCNext == \/ used = "codec" /\ MsgNext /\ UNCHANGED <<vars, used>>
          \/ used = "sockets" /\ Next /\ UNCHANGED <<msgVars, used>>

MCSpec == MCInit /\ [][MCNext]_<<msgVars, vars, used>> /\ Fairness
=============================================================================
