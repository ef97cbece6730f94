----------------------------- MODULE LinkedList ------------------------------
(****************************************************************************)
(* libspl/list.c: doubly linked rings through a list_node in every object,  *)
(* closed by the list_head of the list.  An operation is an action; its     *)
(* stores are made in the order of the code, and no two of them are to the  *)
(* same pointer as long as the caller keeps to what the actions require.    *)
(****************************************************************************)
EXTENDS Integers, FiniteSets, SequencesExt

CONSTANTS
    Lists,      \* the list_t, named by their list_head
    Objects,    \* the objects, named by their list_node
    Nil         \* NULL

\* What callers take for granted: list heads, objects and NULL are different, and
\* NULL is not a sequence, so that it can stand for a list that does not exist.
ASSUME LinksAssumption ==
    /\ Lists \cap Objects = {} /\ Nil \notin Lists \cup Objects
    /\ Nil \notin Seq(Objects)
    /\ IsFiniteSet(Objects)

VARIABLES next, prev    \* of every list_node

links == <<next, prev>>

LinkNodes == Lists \cup Objects
Ends      == [n \in LinkNodes |-> Nil]

\* Memory as list_link_init leaves it; no list is created yet.
ListInit == next = Ends /\ prev = Ends

\* list_link_active.
Active(n) == next[n] # Nil

Empty(l) == next[l] = l

\* list_create, and list_destroy, which asserts that the list is empty.
Create(l) ==
    /\ ~Active(l)
    /\ next' = [next EXCEPT ![l] = l]
    /\ prev' = [prev EXCEPT ![l] = l]

Destroy(l) ==
    /\ Active(l) /\ Empty(l)
    /\ next' = [next EXCEPT ![l] = Nil]
    /\ prev' = [prev EXCEPT ![l] = Nil]

\* The definitions named ...Bug are plausible mistakes in the ones below them.

\* The node that was next does not hear of the new one.
LinkAfterBug(n, o) ==
    /\ ~Active(o)
    /\ next' = [next EXCEPT ![o] = next[n], ![n] = o]
    /\ prev' = [prev EXCEPT ![o] = n]

\* list_insert_after_node and list_insert_before_node, of an object on no list.
LinkAfter(n, o) ==
    /\ ~Active(o)
    /\ next' = [next EXCEPT ![o] = next[n], ![n] = o]
    /\ prev' = [prev EXCEPT ![o] = n, ![next[n]] = o]

LinkBefore(n, o) ==
    /\ ~Active(o)
    /\ next' = [next EXCEPT ![prev[n]] = o, ![o] = n]
    /\ prev' = [prev EXCEPT ![o] = prev[n], ![n] = o]

InsertAfter(at, o)  == Active(at) /\ LinkAfter(at, o)
InsertBefore(at, o) == Active(at) /\ LinkBefore(at, o)
InsertHead(l, o)    == Active(l) /\ LinkAfter(l, o)
InsertTail(l, o)    == Active(l) /\ LinkBefore(l, o)

RemoveNode(n) ==
    /\ next' = [next EXCEPT ![prev[n]] = next[n], ![n] = Nil]
    /\ prev' = [prev EXCEPT ![next[n]] = prev[n], ![n] = Nil]

RemoveObject(o) == Active(o) /\ RemoveNode(o)
RemoveHead(l)   == Active(l) /\ ~Empty(l) /\ RemoveNode(next[l])
RemoveTail(l)   == Active(l) /\ ~Empty(l) /\ RemoveNode(prev[l])

\* What is moved is put in front of what is there.
MoveTailBug(dst, src) ==
    /\ dst # src /\ Active(dst) /\ Active(src) /\ ~Empty(src)
    /\ next' = [next EXCEPT ![prev[src]] = next[dst], ![dst] = next[src], ![src] = src]
    /\ prev' = [prev EXCEPT ![next[dst]] = prev[src], ![next[src]] = dst, ![src] = src]

\* list_move_tail.  It does not defend itself against a move of a list to itself.
MoveTail(dst, src) ==
    /\ dst # src /\ Active(dst) /\ Active(src) /\ ~Empty(src)
    /\ next' = [next EXCEPT ![prev[dst]] = next[src], ![prev[src]] = dst, ![src] = src]
    /\ prev' = [prev EXCEPT ![next[src]] = prev[dst], ![dst] = prev[src], ![src] = src]

\* list_link_replace.
LinkReplace(o, by) ==
    /\ Active(o) /\ ~Active(by)
    /\ next' = [next EXCEPT ![by] = next[o], ![prev[o]] = by, ![o] = Nil]
    /\ prev' = [prev EXCEPT ![by] = prev[o], ![next[o]] = by, ![o] = Nil]

ListNext ==
    \/ \E l \in Lists : Create(l) \/ Destroy(l) \/ RemoveHead(l) \/ RemoveTail(l)
    \/ \E l \in Lists, o \in Objects : InsertHead(l, o) \/ InsertTail(l, o)
    \/ \E at, o \in Objects : InsertAfter(at, o) \/ InsertBefore(at, o)
    \/ \E o \in Objects : RemoveObject(o)
    \/ \E dst, src \in Lists : MoveTail(dst, src)
    \/ \E o, by \in Objects : LinkReplace(o, by)

ListSpec == ListInit /\ [][ListNext]_links

-----------------------------------------------------------------------------
(* Properties.                                                              *)

\* The objects met from l on, by list_next (or list_prev) until it returns NULL.
Along(link, l) ==
    LET from[k \in 0..Cardinality(Objects)] ==
            [n \in LinkNodes \cup {Nil} |->
                IF n \in Objects /\ k > 0 THEN <<n>> \o from[k - 1][link[n]] ELSE <<>>]
    IN  from[Cardinality(Objects)][link[l]]

Contents == [l \in Lists |-> IF Active(l) THEN Along(next, l) ELSE Nil]

\* Backwards a list is met in the opposite order, an object is on exactly one
\* list while list_link_active says so and on none otherwise, and the assertion
\* in list_link_active holds: a node has both links or neither.
BothWays ==
    /\ \A n \in LinkNodes : next[n] = Nil <=> prev[n] = Nil
    /\ \A l \in Lists : Active(l) => Along(prev, l) = Reverse(Along(next, l))
    /\ \A o \in Objects :
          Cardinality({l \in Lists : Active(l) /\ o \in ToSet(Along(next, l))})
              = IF Active(o) THEN 1 ELSE 0

\* However the calls are mixed, the pointers hold the sequences that the lists
\* stand for: nothing is lost, doubled or put elsewhere when lists are joined or
\* an object takes the place of another one.
Sequences == INSTANCE ObjectLists WITH list <- Contents, None <- Nil
ImplementsLists == Sequences!Spec
=============================================================================
