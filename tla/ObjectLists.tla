----------------------------- MODULE ObjectLists -----------------------------
(****************************************************************************)
(* What libspl/list.c promises: lists that exist or not, each a sequence of *)
(* objects, with every object on one list at most.  LinkedList implements   *)
(* it with the pointers of the code.                                        *)
(****************************************************************************)
EXTENDS Integers, SequencesExt

CONSTANTS Lists, Objects,
          None             \* no list

VARIABLE list

Existing == {l \in Lists : list[l] # None}
On(l)    == ToSet(list[l])
Free     == Objects \ UNION {On(l) : l \in Existing}

Init == list = [l \in Lists |-> None]

Create(l)  == l \notin Existing /\ list' = [list EXCEPT ![l] = <<>>]
Destroy(l) == l \in Existing /\ list[l] = <<>> /\ list' = [list EXCEPT ![l] = None]

Insert(l, o) ==
    /\ o \in Free
    /\ \E i \in 1..(Len(list[l]) + 1) : list' = [list EXCEPT ![l] = InsertAt(@, i, o)]

Take(l) == \E i \in DOMAIN list[l] : list' = [list EXCEPT ![l] = RemoveAt(@, i)]

Move(dst, src) ==
    /\ dst # src
    /\ list' = [list EXCEPT ![dst] = @ \o list[src], ![src] = <<>>]

Replace(l, o) ==
    /\ o \in Free
    /\ \E i \in DOMAIN list[l] : list' = [list EXCEPT ![l][i] = o]

Next ==
    \/ \E l \in Lists : Create(l) \/ Destroy(l)
    \/ \E l \in Existing : Take(l) \/ \E o \in Objects : Insert(l, o) \/ Replace(l, o)
    \/ \E dst, src \in Existing : Move(dst, src)

Spec == Init /\ [][Next]_list
=============================================================================
