------------------------------ MODULE MCLibspl -------------------------------
(****************************************************************************)
(* The two containers of libspl in one run.  They share nothing, so a       *)
(* behaviour uses one of them.                                              *)
(****************************************************************************)
EXTENDS AvlTree, LinkedList

VARIABLE used    \* the container of this behaviour

MCInit == Init /\ ListInit /\ used \in {"tree", "list"}

MCNext == \/ used = "tree" /\ Next /\ UNCHANGED <<links, used>>
          \/ used = "list" /\ ListNext /\ UNCHANGED <<vars, used>>

MCSpec == MCInit /\ [][MCNext]_<<vars, links, used>>
=============================================================================
