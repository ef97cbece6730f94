-------------------------- MODULE LinkedListProofs --------------------------
(****************************************************************************)
(* Proofs about LinkedList, for any number of lists and objects: next and   *)
(* prev stay inverse to each other, no ring ever holds two lists, every     *)
(* ring holds a sequence that reads the same both ways, and the operations  *)
(* change those sequences as ObjectLists says.                              *)
(****************************************************************************)
EXTENDS LinkedList, FiniteSetTheorems, WellFoundedInduction, TLAPS

\* List heads, objects and NULL are different.
NodesApart == Lists \cap Objects = {} /\ Nil \notin LinkNodes

-----------------------------------------------------------------------------
(* The inductive invariant.                                                 *)

TypeOK == {next, prev} \subseteq [LinkNodes -> LinkNodes \cup {Nil}]

\* A node has both links or neither, and a step one way and back ends where it
\* began, at nodes that are on a list themselves.
TwoWay ==
    \A n \in LinkNodes :
        /\ Active(n) => /\ next[n] \in LinkNodes /\ prev[n] \in LinkNodes
                        /\ Active(next[n]) /\ Active(prev[n])
                        /\ prev[next[n]] = n /\ next[prev[n]] = n
        /\ ~Active(n) => prev[n] = Nil

\* Every node on a list belongs to one, as its neighbours do, and a list to
\* itself: two lists are never on one ring.
Owned(own) ==
    /\ own \in [LinkNodes -> Lists \cup {Nil}]
    /\ \A n \in LinkNodes : Active(n) => own[next[n]] = own[n]
    /\ \A l \in Lists : own[l] = l

Rings == TwoWay /\ \E own : Owned(own)

IInv == TypeOK /\ Rings

-----------------------------------------------------------------------------
(* The operations the code is made of.                                      *)

\* Linking o in behind n.
LEMMA LinkAfterKeeps ==
    ASSUME NodesApart, IInv, NEW n \in LinkNodes, NEW o \in Objects, Active(n), LinkAfter(n, o)
    PROVE  IInv'
<1>1. PICK own : Owned(own)
  BY DEF IInv, Rings
<1> DEFINE w == [own EXCEPT ![o] = own[n]]
<1>2. o \in LinkNodes /\ n # o /\ next[n] \in LinkNodes /\ next[n] # o /\ Nil \notin LinkNodes
  BY DEF IInv, Rings, TwoWay, LinkAfter, NodesApart, LinkNodes
<1>3. TypeOK'
  BY <1>2 DEF IInv, TypeOK, LinkAfter
<1>4. TwoWay'
  BY <1>2 DEF IInv, TypeOK, Rings, TwoWay, LinkAfter, Active
<1>5. Owned(w)'
  BY <1>1, <1>2 DEF IInv, TypeOK, Rings, TwoWay, Owned, LinkAfter, Active, NodesApart, LinkNodes
<1> QED BY <1>3, <1>4, <1>5 DEF IInv, Rings

\* Linking o in in front of n.
LEMMA LinkBeforeKeeps ==
    ASSUME NodesApart, IInv, NEW n \in LinkNodes, NEW o \in Objects, Active(n), LinkBefore(n, o)
    PROVE  IInv'
<1>1. PICK own : Owned(own)
  BY DEF IInv, Rings
<1> DEFINE w == [own EXCEPT ![o] = own[n]]
<1>2. o \in LinkNodes /\ n # o /\ prev[n] \in LinkNodes /\ prev[n] # o /\ Nil \notin LinkNodes
  BY DEF IInv, Rings, TwoWay, LinkBefore, NodesApart, LinkNodes
<1>3. TypeOK'
  BY <1>2 DEF IInv, TypeOK, LinkBefore
<1>4. TwoWay'
  BY <1>2 DEF IInv, TypeOK, Rings, TwoWay, LinkBefore, Active
<1>5. Owned(w)'
  BY <1>1, <1>2 DEF IInv, TypeOK, Rings, TwoWay, Owned, LinkBefore, Active, NodesApart, LinkNodes
<1> QED BY <1>3, <1>4, <1>5 DEF IInv, Rings

\* Taking a node out.
LEMMA UnlinkKeeps ==
    ASSUME NodesApart, IInv, NEW n \in LinkNodes, Active(n), RemoveNode(n)
    PROVE  IInv'
<1>1. PICK own : Owned(own)
  BY DEF IInv, Rings
<1>2. next[n] \in LinkNodes /\ prev[n] \in LinkNodes /\ Nil \notin LinkNodes
  BY DEF IInv, Rings, TwoWay, NodesApart
<1>3. TypeOK'
  BY <1>2 DEF IInv, TypeOK, RemoveNode
<1>4. TwoWay'
  BY <1>2 DEF IInv, TypeOK, Rings, TwoWay, RemoveNode, Active
<1>5. Owned(own)'
  <2> SUFFICES ASSUME NEW m \in LinkNodes, next'[m] # Nil
               PROVE  own[next'[m]] = own[m]
    BY <1>1 DEF Owned, Active
  <2>1. m # n /\ next[prev[n]] = n /\ Active(prev[n])
    BY <1>2 DEF IInv, TypeOK, Rings, TwoWay, RemoveNode
  <2>2. CASE m = prev[n]
    <3>1. next'[m] = next[n] /\ own[next[n]] = own[n] /\ own[n] = own[m]
      BY <1>1, <1>2, <2>1, <2>2 DEF IInv, TypeOK, Owned, RemoveNode
    <3> QED BY <3>1
  <2>3. CASE m # prev[n]
    <3>1. next'[m] = next[m]
      BY <2>1, <2>3 DEF IInv, TypeOK, RemoveNode
    <3> QED BY <1>1, <3>1 DEF Owned, Active
  <2> QED BY <2>2, <2>3
<1> QED BY <1>3, <1>4, <1>5 DEF IInv, Rings

\* Joining two lists: the stores are to different pointers because the lists
\* are on different rings.
LEMMA MoveTailKeeps ==
    ASSUME NodesApart, IInv, NEW dst \in Lists, NEW src \in Lists, MoveTail(dst, src)
    PROVE  IInv'
<1>1. PICK own : Owned(own)
  BY DEF IInv, Rings
<1> DEFINE w == [n \in LinkNodes |-> IF own[n] = src /\ n # src THEN dst ELSE own[n]]
<1>2. /\ dst \in LinkNodes /\ src \in LinkNodes /\ dst # src /\ Nil \notin LinkNodes
      /\ {next[dst], prev[dst], next[src], prev[src]} \subseteq LinkNodes
      /\ next[src] # src /\ prev[src] # src
  BY DEF IInv, Rings, TwoWay, MoveTail, Empty, NodesApart, LinkNodes
<1>3. own[prev[dst]] = dst /\ own[prev[src]] = src /\ own[next[src]] = src /\ own[src] = src /\ own[dst] = dst
  BY <1>1, <1>2 DEF IInv, Rings, TwoWay, Owned, MoveTail
<1>4. TypeOK'
  BY <1>2 DEF IInv, TypeOK, MoveTail
<1>5. TwoWay'
  BY <1>2, <1>3 DEF IInv, TypeOK, Rings, TwoWay, MoveTail, Active
<1>6. Owned(w)'
  <2>1. w \in [LinkNodes -> Lists \cup {Nil}] /\ \A l \in Lists : w[l] = l
    BY <1>1 DEF Owned, LinkNodes
  <2> SUFFICES ASSUME NEW m \in LinkNodes, next'[m] # Nil
               PROVE  w[next'[m]] = w[m]
    BY <2>1 DEF Owned, Active
  <2>2. own[next[m]] = own[m] \/ next[m] = Nil
    BY <1>1 DEF Owned, Active
  <2>3. /\ next'[src] = src
        /\ m = prev[dst] => m # src /\ m # prev[src] /\ next'[m] = next[src]
        /\ m = prev[src] => m # src /\ next'[m] = dst
        /\ m \notin {src, prev[src], prev[dst]} => next'[m] = next[m]
    BY <1>2, <1>3 DEF IInv, TypeOK, MoveTail
  <2>4. CASE m = src
    BY <2>3, <2>4
  <2>5. CASE m = prev[dst]
    <3>1. w[next[src]] = dst /\ w[m] = dst
      BY <1>2, <1>3, <2>5
    <3> QED BY <2>3, <2>5, <3>1
  <2>6. CASE m = prev[src]
    <3>1. w[dst] = dst /\ w[m] = dst
      BY <1>2, <1>3, <2>6
    <3> QED BY <2>3, <2>6, <3>1
  <2>7. CASE m \notin {src, prev[src], prev[dst]}
    <3>1. next'[m] = next[m] /\ next[m] # src /\ next[m] \in LinkNodes
      BY <1>2, <2>3, <2>7 DEF IInv, TypeOK, Rings, TwoWay, Active
    <3> QED BY <2>2, <2>7, <3>1
  <2> QED BY <2>4, <2>5, <2>6, <2>7
<1> QED BY <1>4, <1>5, <1>6 DEF IInv, Rings

\* Putting an object in the place of another one.
LEMMA LinkReplaceKeeps ==
    ASSUME NodesApart, IInv, NEW o \in Objects, NEW by \in Objects, LinkReplace(o, by)
    PROVE  IInv'
<1>1. PICK own : Owned(own)
  BY DEF IInv, Rings
<1> DEFINE w == [own EXCEPT ![by] = own[o]]
<1>2. /\ o \in LinkNodes /\ by \in LinkNodes /\ o # by /\ Nil \notin LinkNodes
      /\ {next[o], prev[o]} \subseteq LinkNodes /\ next[o] # by /\ prev[o] # by
  BY DEF IInv, Rings, TwoWay, LinkReplace, NodesApart, LinkNodes
<1>3. TypeOK'
  BY <1>2 DEF IInv, TypeOK, LinkReplace
<1>4. TwoWay'
  BY <1>2 DEF IInv, TypeOK, Rings, TwoWay, LinkReplace, Active
<1>5. Owned(w)'
  BY <1>1, <1>2 DEF IInv, TypeOK, Rings, TwoWay, Owned, LinkReplace, Active, NodesApart, LinkNodes
<1> QED BY <1>3, <1>4, <1>5 DEF IInv, Rings

-----------------------------------------------------------------------------
(* The specification.                                                       *)

\* At first every list is empty and no object is on any.
LEMMA InitInv ==
    ASSUME NodesApart, ListInit
    PROVE  IInv
<1>1. TypeOK /\ TwoWay
  BY DEF ListInit, Ends, TypeOK, TwoWay, Active
<1> DEFINE own == [n \in LinkNodes |-> IF n \in Lists THEN n ELSE Nil]
<1>2. Owned(own)
  BY DEF ListInit, Ends, Owned, Active, LinkNodes
<1> QED BY <1>1, <1>2 DEF IInv, Rings

\* A list is created on a ring of its own, and taken from one.
LEMMA CreateDestroyKeeps ==
    ASSUME NodesApart, IInv, NEW l \in Lists, Create(l) \/ Destroy(l)
    PROVE  IInv'
<1>1. PICK own : Owned(own)
  BY DEF IInv, Rings
<1>2. l \in LinkNodes /\ Nil \notin LinkNodes /\ next[l] \in {Nil, l}
  BY DEF LinkNodes, NodesApart, Create, Destroy, Active, Empty
<1>3. prev[l] \in {Nil, l}
  BY <1>2 DEF IInv, Rings, TwoWay, Active
<1>4. TypeOK'
  BY <1>2 DEF IInv, TypeOK, Create, Destroy
<1>5. TwoWay'
  BY <1>2, <1>3 DEF IInv, TypeOK, Rings, TwoWay, Create, Destroy, Active, Empty
<1>6. Owned(own)'
  BY <1>1, <1>2 DEF IInv, TypeOK, Owned, Create, Destroy, Active
<1> QED BY <1>4, <1>5, <1>6 DEF IInv, Rings

\* Every operation is one of those above.
LEMMA StepInv ==
    ASSUME NodesApart, IInv, [ListNext]_links
    PROVE  IInv'
<1>1. Lists \subseteq LinkNodes /\ Objects \subseteq LinkNodes
  BY DEF LinkNodes
<1>2. CASE UNCHANGED links
  BY <1>2 DEF links, IInv, TypeOK, Rings, TwoWay, Owned, Active
<1>3. ASSUME NEW l \in Lists, Create(l) \/ Destroy(l)
      PROVE  IInv'
  BY <1>3, CreateDestroyKeeps
<1>4. ASSUME NEW l \in Lists, RemoveHead(l) \/ RemoveTail(l)
      PROVE  IInv'
  <2>1. {next[l], prev[l]} \subseteq LinkNodes /\ Active(next[l]) /\ Active(prev[l])
    BY <1>1, <1>4 DEF IInv, Rings, TwoWay, RemoveHead, RemoveTail
  <2> QED BY <1>4, <2>1, UnlinkKeeps DEF RemoveHead, RemoveTail
<1>5. ASSUME NEW l \in Lists, NEW o \in Objects, InsertHead(l, o) \/ InsertTail(l, o)
      PROVE  IInv'
  BY <1>1, <1>5, LinkAfterKeeps, LinkBeforeKeeps DEF InsertHead, InsertTail
<1>6. ASSUME NEW at \in Objects, NEW o \in Objects, InsertAfter(at, o) \/ InsertBefore(at, o)
      PROVE  IInv'
  BY <1>1, <1>6, LinkAfterKeeps, LinkBeforeKeeps DEF InsertAfter, InsertBefore
<1>7. ASSUME NEW o \in Objects, RemoveObject(o)
      PROVE  IInv'
  BY <1>1, <1>7, UnlinkKeeps DEF RemoveObject
<1> QED BY <1>2, <1>3, <1>4, <1>5, <1>6, <1>7, MoveTailKeeps, LinkReplaceKeeps DEF ListNext

\* In every reachable state next and prev are inverse on the nodes that are on a
\* list, a node on no list has neither, and the nodes can be divided among the
\* lists so that no link leads from one list to another: list.c never lets a
\* ring run into another one, however many lists and objects there are.
THEOREM RingsClosed == ListSpec => []Rings
<1> NodesApart
  BY LinksAssumption DEF NodesApart, LinkNodes
<1>1. ListInit => IInv
  BY InitInv
<1>2. IInv /\ [ListNext]_links => IInv'
  BY StepInv
<1>3. IInv => Rings
  BY DEF IInv
<1> QED BY <1>1, <1>2, <1>3, PTL DEF ListSpec

-----------------------------------------------------------------------------
(* The sequences that the rings hold.                                       *)

\* Place i of the ring of list l that holds s: place 0, and the one behind the
\* last, are the list itself.
At(l, s, i) == IF i \in 1..Len(s) THEN s[i] ELSE l

\* Every list that exists is the ring of its sequence, in both directions, and
\* every object with a link is on exactly one list, once.
Holds(nx, pv, q) ==
    /\ q \in [Lists -> Seq(Objects)]
    /\ nx \in [LinkNodes -> LinkNodes \cup {Nil}]
    /\ pv \in [LinkNodes -> LinkNodes \cup {Nil}]
    /\ \A l \in Lists : nx[l] # Nil =>
          \A i \in 0..Len(q[l]) : /\ nx[At(l, q[l], i)] = At(l, q[l], i + 1)
                                  /\ pv[At(l, q[l], i + 1)] = At(l, q[l], i)
    /\ \A l \in Lists : nx[l] = Nil => pv[l] = Nil /\ q[l] = <<>>
    /\ \A o \in Objects : nx[o] # Nil \/ pv[o] # Nil =>
          \E l \in Lists : \E i \in 1..Len(q[l]) : o = q[l][i]
    /\ \A l, m \in Lists : \A i \in 1..Len(q[l]), j \in 1..Len(q[m]) :
          q[l][i] = q[m][j] => l = m /\ i = j

\* Places that differ are different nodes, and nodes of lists that exist.
LEMMA PlacesDiffer ==
    ASSUME NodesApart, NEW nx, NEW pv, NEW q, Holds(nx, pv, q), NEW l \in Lists
    PROVE  /\ Len(q[l]) \in Nat /\ q[l] \in Seq(Objects)
           /\ \A i \in Nat : At(l, q[l], i) \in LinkNodes
           /\ \A m \in Lists : \A i \in 0..Len(q[l]), j \in 0..Len(q[m]) :
                 At(l, q[l], i) = At(m, q[m], j) => l = m /\ i = j
<1>1. \A m \in Lists : q[m] \in Seq(Objects) /\ Len(q[m]) \in Nat /\ \A i \in 1..Len(q[m]) : q[m][i] \in Objects
  BY DEF Holds
<1>2. \A m \in Lists, i \in Nat : At(m, q[m], i) \in LinkNodes
  BY <1>1 DEF At, LinkNodes
<1>3. ASSUME NEW m \in Lists, NEW i \in 0..Len(q[l]), NEW j \in 0..Len(q[m]),
             At(l, q[l], i) = At(m, q[m], j)
      PROVE  l = m /\ i = j
  <2>1. \A k \in Lists, h \in Nat : h \in 0..Len(q[k]) =>
           (h = 0 /\ At(k, q[k], h) = k) \/ (h \in 1..Len(q[k]) /\ At(k, q[k], h) = q[k][h] /\ q[k][h] \in Objects)
    BY <1>1 DEF At
  <2>2. i \in Nat /\ j \in Nat
    BY <1>1
  <2>3. \/ i = 0 /\ j = 0 /\ l = m
        \/ i \in 1..Len(q[l]) /\ j \in 1..Len(q[m]) /\ q[l][i] = q[m][j]
    BY <1>3, <2>1, <2>2 DEF NodesApart
  <2> QED BY <2>3 DEF Holds
<1> QED BY <1>1, <1>2, <1>3

\* Every node with a link has a place.
LEMMA PlaceOf ==
    ASSUME NodesApart, NEW nx, NEW pv, NEW q, Holds(nx, pv, q), NEW n \in LinkNodes, nx[n] # Nil
    PROVE  \E l \in Lists : nx[l] # Nil /\ \E i \in 0..Len(q[l]) : n = At(l, q[l], i)
<1>1. CASE n \in Lists
  <2>1. n = At(n, q[n], 0) /\ 0 \in 0..Len(q[n])
    BY <1>1, PlacesDiffer DEF At
  <2> QED BY <1>1, <2>1
<1>2. CASE n \in Objects
  <2>1. PICK l \in Lists : \E i \in 1..Len(q[l]) : n = q[l][i]
    BY <1>2 DEF Holds
  <2>2. PICK i \in 1..Len(q[l]) : n = q[l][i]
    BY <2>1
  <2>3. nx[l] # Nil
    BY <2>2 DEF Holds
  <2>4. n = At(l, q[l], i) /\ i \in 0..Len(q[l])
    BY <2>2, PlacesDiffer DEF At
  <2> QED BY <2>3, <2>4
<1> QED BY <1>1, <1>2 DEF LinkNodes

\* Sequences of the same length and elements are the same.
LEMMA SameSeq ==
    \A x, y \in Seq(Objects) : Len(x) = Len(y) /\ (\A k \in 1..Len(x) : x[k] = y[k]) => x = y
OBVIOUS

\* One sequence behind another one.
LEMMA Joined ==
    \A a, b \in Seq(Objects) :
        /\ a \o b \in Seq(Objects) /\ Len(a \o b) = Len(a) + Len(b)
        /\ \A j \in 1..Len(a) : (a \o b)[j] = a[j]
        /\ \A j \in 1..Len(a \o b) : j > Len(a) => (a \o b)[j] = b[j - Len(a)]
OBVIOUS

\* t is s with o behind place i, or without place i.
Inserted(l, s, i, o, t) ==
    /\ t \in Seq(Objects) /\ Len(t) = Len(s) + 1
    /\ \A j \in 1..Len(t) : t[j] = IF j <= i THEN s[j] ELSE IF j = i + 1 THEN o ELSE s[j - 1]
    /\ \A j \in 0..(Len(t) + 1) :
          At(l, t, j) = IF j <= i THEN At(l, s, j) ELSE IF j = i + 1 THEN o ELSE At(l, s, j - 1)

Removed(l, s, i, t) ==
    /\ t \in Seq(Objects) /\ Len(t) = Len(s) - 1
    /\ \A j \in 1..Len(t) : t[j] = IF j < i THEN s[j] ELSE s[j + 1]
    /\ \A j \in 0..(Len(t) + 1) : At(l, t, j) = IF j < i THEN At(l, s, j) ELSE At(l, s, j + 1)

\* What InsertAt makes of the places.
LEMMA PlacesInserted ==
    ASSUME NEW l \in Lists, NEW s \in Seq(Objects), NEW i \in 0..Len(s), NEW o \in Objects
    PROVE  Inserted(l, s, i, o, InsertAt(s, i + 1, o))
<1> DEFINE a == SubSeq(s, 1, i)
           b == SubSeq(s, i + 1, Len(s))
<1> DEFINE t == InsertAt(s, i + 1, o)
<1>1. Len(s) \in Nat /\ i \in Nat
  OBVIOUS
<1> DEFINE c == a \o <<o>>
<1>2. t = c \o b
  <2>1. (i + 1) - 1 = i
    BY <1>1
  <2> QED BY <2>1, Zenon DEF InsertAt
<1>3. a \in Seq(Objects) /\ Len(a) = i /\ \A j \in 1..i : a[j] = s[j]
  BY <1>1
<1>4. b \in Seq(Objects) /\ Len(b) = Len(s) - i /\ \A j \in 1..(Len(s) - i) : b[j] = s[i + j]
  BY <1>1
<1> HIDE DEF a, b, t
<1>8. c \in Seq(Objects) /\ Len(c) = i + 1 /\ \A j \in 1..(i + 1) : c[j] = IF j <= i THEN s[j] ELSE o
  BY <1>1, <1>3
<1> HIDE DEF c
<1>9. /\ t \in Seq(Objects) /\ Len(t) = Len(c) + Len(b)
      /\ \A j \in 1..Len(c) : t[j] = c[j]
      /\ \A j \in 1..Len(t) : j > Len(c) => t[j] = b[j - Len(c)]
  <2>1. /\ c \o b \in Seq(Objects) /\ Len(c \o b) = Len(c) + Len(b)
        /\ \A j \in 1..Len(c) : (c \o b)[j] = c[j]
        /\ \A j \in 1..Len(c \o b) : j > Len(c) => (c \o b)[j] = b[j - Len(c)]
    BY <1>8, <1>4, Joined, Zenon
  <2> QED BY <1>2, <2>1
<1>5. t \in Seq(Objects) /\ Len(t) = Len(s) + 1
  BY <1>1, <1>9, <1>8, <1>4
<1>6. \A j \in 1..Len(t) : t[j] = IF j <= i THEN s[j] ELSE IF j = i + 1 THEN o ELSE s[j - 1]
  <2>1. \A j \in 1..(i + 1) : t[j] = c[j]
    BY <1>8, <1>9
  <2>2. \A j \in 1..Len(t) : j > i + 1 => t[j] = b[j - (i + 1)]
    BY <1>8, <1>9
  <2>3. \A j \in 1..Len(t) : j > i + 1 => j - (i + 1) \in 1..(Len(s) - i) /\ i + (j - (i + 1)) = j - 1
    BY <1>1, <1>5
  <2>4. \A j \in 1..Len(t) : j > i + 1 => t[j] = s[j - 1]
    BY <1>4, <2>2, <2>3
  <2>5. \A j \in 1..(i + 1) : t[j] = IF j <= i THEN s[j] ELSE o
    BY <1>8, <2>1
  <2> QED BY <1>1, <1>5, <2>4, <2>5
<1>7. \A j \in 0..(Len(t) + 1) :
         At(l, t, j) = IF j <= i THEN At(l, s, j) ELSE IF j = i + 1 THEN o ELSE At(l, s, j - 1)
  BY <1>1, <1>5, <1>6 DEF At
<1> QED BY <1>5, <1>6, <1>7 DEF t, Inserted

\* The same of RemoveAt.
LEMMA PlacesRemoved ==
    ASSUME NEW l \in Lists, NEW s \in Seq(Objects), NEW i \in 1..Len(s)
    PROVE  Removed(l, s, i, RemoveAt(s, i))
<1> DEFINE a == SubSeq(s, 1, i - 1)
           b == SubSeq(s, i + 1, Len(s))
<1> DEFINE t == RemoveAt(s, i)
<1>1. Len(s) \in Nat /\ i \in Nat
  OBVIOUS
<1>2. t = a \o b
  BY DEF RemoveAt
<1>3. a \in Seq(Objects) /\ Len(a) = i - 1 /\ \A j \in 1..(i - 1) : a[j] = s[j]
  BY <1>1
<1>4. b \in Seq(Objects) /\ Len(b) = Len(s) - i /\ \A j \in 1..(Len(s) - i) : b[j] = s[i + j]
  BY <1>1
<1> HIDE DEF a, b, t
<1>9. /\ t \in Seq(Objects) /\ Len(t) = Len(a) + Len(b)
      /\ \A j \in 1..Len(a) : t[j] = a[j]
      /\ \A j \in 1..Len(t) : j > Len(a) => t[j] = b[j - Len(a)]
  <2>1. /\ a \o b \in Seq(Objects) /\ Len(a \o b) = Len(a) + Len(b)
        /\ \A j \in 1..Len(a) : (a \o b)[j] = a[j]
        /\ \A j \in 1..Len(a \o b) : j > Len(a) => (a \o b)[j] = b[j - Len(a)]
    BY <1>3, <1>4, Joined, Zenon
  <2> QED BY <1>2, <2>1
<1>5. t \in Seq(Objects) /\ Len(t) = Len(s) - 1
  BY <1>1, <1>9, <1>3, <1>4
<1>6. \A j \in 1..Len(t) : t[j] = IF j < i THEN s[j] ELSE s[j + 1]
  <2>1. \A j \in 1..(i - 1) : t[j] = s[j]
    BY <1>3, <1>9
  <2>2. \A j \in 1..Len(t) : j > i - 1 => t[j] = b[j - (i - 1)]
    BY <1>3, <1>9
  <2>3. \A j \in 1..Len(t) : j > i - 1 => j - (i - 1) \in 1..(Len(s) - i) /\ i + (j - (i - 1)) = j + 1
    BY <1>1, <1>5
  <2>4. \A j \in 1..Len(t) : j > i - 1 => t[j] = s[j + 1]
    BY <1>4, <2>2, <2>3
  <2> QED BY <1>1, <1>5, <2>1, <2>4
<1>7. \A j \in 0..(Len(t) + 1) : At(l, t, j) = IF j < i THEN At(l, s, j) ELSE At(l, s, j + 1)
  BY <1>1, <1>5, <1>6 DEF At
<1> QED BY <1>5, <1>6, <1>7 DEF t, Removed

\* From one place to the next and back: steps from different places go to
\* different ones, and nothing without a link is a place.
LEMMA Steps ==
    ASSUME NodesApart, NEW nx, NEW pv, NEW q, Holds(nx, pv, q), NEW l \in Lists, nx[l] # Nil
    PROVE  /\ \A i \in 0..Len(q[l]) :
                /\ At(l, q[l], i) \in LinkNodes /\ At(l, q[l], i + 1) \in LinkNodes
                /\ nx[At(l, q[l], i)] = At(l, q[l], i + 1) /\ pv[At(l, q[l], i + 1)] = At(l, q[l], i)
           /\ \A m \in Lists : nx[m] # Nil => \A i \in 0..Len(q[l]), j \in 0..Len(q[m]) :
                At(l, q[l], i + 1) = At(m, q[m], j + 1) => l = m /\ i = j
           /\ \A n : nx[n] = Nil => \A i \in 0..Len(q[l]) : n # At(l, q[l], i) /\ n # At(l, q[l], i + 1)
           /\ At(l, q[l], 0) = l /\ At(l, q[l], Len(q[l]) + 1) = l
<1>1. \A i \in 0..Len(q[l]) :
                /\ At(l, q[l], i) \in LinkNodes /\ At(l, q[l], i + 1) \in LinkNodes
                /\ nx[At(l, q[l], i)] = At(l, q[l], i + 1) /\ pv[At(l, q[l], i + 1)] = At(l, q[l], i)
  <2>1. Len(q[l]) \in Nat /\ \A i \in Nat : At(l, q[l], i) \in LinkNodes
    BY PlacesDiffer
  <2>2. \A i \in 0..Len(q[l]) : i \in Nat /\ i + 1 \in Nat
    BY <2>1
  <2> QED BY <2>1, <2>2 DEF Holds
<1>2. ASSUME NEW m \in Lists, nx[m] # Nil, NEW i \in 0..Len(q[l]), NEW j \in 0..Len(q[m]),
             At(l, q[l], i + 1) = At(m, q[m], j + 1)
      PROVE  l = m /\ i = j
  <2>1. pv[At(m, q[m], j + 1)] = At(m, q[m], j)
    BY <1>2 DEF Holds
  <2>2. At(l, q[l], i) = At(m, q[m], j)
    BY <1>1, <1>2, <2>1
  <2> QED BY <2>2, PlacesDiffer
<1>3. At(l, q[l], 0) = l /\ At(l, q[l], Len(q[l]) + 1) = l
  BY PlacesDiffer DEF At
<1>4. ASSUME NEW n, nx[n] = Nil, NEW i \in 0..Len(q[l])
      PROVE  n # At(l, q[l], i) /\ n # At(l, q[l], i + 1)
  <2>1. Nil \notin LinkNodes /\ Len(q[l]) \in Nat
    BY PlacesDiffer DEF NodesApart
  <2>2. n # At(l, q[l], i)
    BY <1>1, <1>4, <2>1
  <2>3. CASE i = Len(q[l])
    BY <1>3, <1>4, <2>2, <2>3
  <2>4. CASE i # Len(q[l])
    <3>1. i + 1 \in 0..Len(q[l])
      BY <2>1, <2>4
    <3> QED BY <1>1, <1>4, <2>1, <3>1
  <2> QED BY <2>2, <2>3, <2>4
<1> QED BY <1>1, <1>2, <1>3, <1>4

\* The stores that link o in between a and b, and that take it out from between
\* a and c.
Linked(nx, pv, a, o, b, nx2, pv2) ==
    /\ {nx2, pv2} \subseteq [LinkNodes -> LinkNodes \cup {Nil}]
    /\ \A n \in LinkNodes : nx2[n] = IF n = o THEN b ELSE IF n = a THEN o ELSE nx[n]
    /\ \A n \in LinkNodes : pv2[n] = IF n = o THEN a ELSE IF n = b THEN o ELSE pv[n]

Unlinked(nx, pv, a, o, c, nx2, pv2) ==
    /\ {nx2, pv2} \subseteq [LinkNodes -> LinkNodes \cup {Nil}]
    /\ \A n \in LinkNodes : nx2[n] = IF n = o THEN Nil ELSE IF n = a THEN c ELSE nx[n]
    /\ \A n \in LinkNodes : pv2[n] = IF n = o THEN Nil ELSE IF n = c THEN a ELSE pv[n]

\* Linking an object in behind place i of a list.
LEMMA InsertHolds ==
    ASSUME NodesApart, NEW nx, NEW pv, NEW q, Holds(nx, pv, q),
           NEW l \in Lists, nx[l] # Nil, NEW i \in 0..Len(q[l]), NEW o \in Objects, nx[o] = Nil,
           NEW a, a = At(l, q[l], i), NEW b, b = At(l, q[l], i + 1),
           NEW nx2, NEW pv2, Linked(nx, pv, a, o, b, nx2, pv2)
    PROVE  Holds(nx2, pv2, [q EXCEPT ![l] = InsertAt(q[l], i + 1, o)])
<1> USE DEF Linked
<1>0. PICK s, t : s = q[l] /\ t = InsertAt(s, i + 1, o)
  OBVIOUS
<1>01. PICK r : r = [q EXCEPT ![l] = t]
  OBVIOUS
<1>1. /\ s \in Seq(Objects) /\ Len(s) \in Nat /\ i \in Nat /\ i <= Len(s)
      /\ o \in LinkNodes /\ o \notin Lists
      /\ Nil \notin LinkNodes /\ a \in LinkNodes /\ b \in LinkNodes
      /\ q \in [Lists -> Seq(Objects)]
      /\ a = At(l, s, i) /\ b = At(l, s, i + 1)
  <2>1. s \in Seq(Objects) /\ Len(s) \in Nat /\ i \in Nat /\ i <= Len(s)
    BY <1>0, PlacesDiffer
  <2>2. o \in LinkNodes /\ o \notin Lists /\ Nil \notin LinkNodes
    BY DEF NodesApart, LinkNodes
  <2>3. a \in LinkNodes /\ b \in LinkNodes
    BY Steps
  <2>4. q \in [Lists -> Seq(Objects)]
    BY DEF Holds
  <2> QED BY <1>0, <2>1, <2>2, <2>3, <2>4
<1>2. /\ t \in Seq(Objects) /\ Len(t) = Len(s) + 1
      /\ \A j \in 1..Len(t) : t[j] = IF j <= i THEN s[j] ELSE IF j = i + 1 THEN o ELSE s[j - 1]
      /\ \A j \in 0..(Len(t) + 1) :
            At(l, t, j) = IF j <= i THEN At(l, s, j) ELSE IF j = i + 1 THEN o ELSE At(l, s, j - 1)
  <2>1. i \in 0..Len(s) /\ s \in Seq(Objects)
    BY <1>1
  <2>2. Inserted(l, s, i, o, t)
    BY <1>0, <2>1, PlacesInserted
  <2> QED BY <2>2 DEF Inserted
<1>3. r \in [Lists -> Seq(Objects)] /\ r[l] = t /\ \A m \in Lists \ {l} : r[m] = q[m]
  BY <1>01, <1>1, <1>2
<1>31. /\ \A j \in 0..Len(s) :
                /\ At(l, s, j) \in LinkNodes /\ At(l, s, j + 1) \in LinkNodes
                /\ nx[At(l, s, j)] = At(l, s, j + 1) /\ pv[At(l, s, j + 1)] = At(l, s, j)
                /\ o # At(l, s, j) /\ o # At(l, s, j + 1)
                /\ j # i => At(l, s, j) # a /\ At(l, s, j + 1) # b
       /\ nx[a] = b /\ pv[b] = a /\ o # a /\ o # b
  <2>1. \A j \in 0..Len(s) :
                /\ At(l, s, j) \in LinkNodes /\ At(l, s, j + 1) \in LinkNodes
                /\ nx[At(l, s, j)] = At(l, s, j + 1) /\ pv[At(l, s, j + 1)] = At(l, s, j)
                /\ o # At(l, s, j) /\ o # At(l, s, j + 1)
    BY <1>0, Steps
  <2>2. \A j \in 0..Len(s) : At(l, s, j + 1) = b => j = i
    BY <1>0, Steps
  <2>3. \A j \in 0..Len(s) : At(l, s, j) = a => j = i
    BY <1>0, PlacesDiffer
  <2> QED BY <1>1, <2>1, <2>2, <2>3
<1>4. \A m \in Lists : nx2[m] = Nil <=> nx[m] = Nil
  <2>1. \A m \in Lists : m \in LinkNodes /\ m # o
    BY <1>1 DEF LinkNodes
  <2> QED BY <1>1, <1>31, <2>1
<1>5. ASSUME NEW m \in Lists \ {l}, nx[m] # Nil, NEW j \in 0..Len(q[m])
      PROVE  /\ nx2[At(m, q[m], j)] = At(m, q[m], j + 1)
             /\ pv2[At(m, q[m], j + 1)] = At(m, q[m], j)
  <2>1. At(m, q[m], j) # a /\ At(m, q[m], j + 1) # b
    <3>1. At(m, q[m], j) # At(l, q[l], i)
      BY <1>5, PlacesDiffer
    <3>2. At(m, q[m], j + 1) # At(l, q[l], i + 1)
      BY <1>5, Steps
    <3> QED BY <3>1, <3>2
  <2>2. /\ At(m, q[m], j) \in LinkNodes /\ At(m, q[m], j + 1) \in LinkNodes
        /\ nx[At(m, q[m], j)] = At(m, q[m], j + 1) /\ pv[At(m, q[m], j + 1)] = At(m, q[m], j)
        /\ o # At(m, q[m], j) /\ o # At(m, q[m], j + 1)
    BY <1>5, Steps
  <2> QED BY <2>1, <2>2
<1>6. ASSUME NEW j \in 0..Len(t)
      PROVE  nx2[At(l, t, j)] = At(l, t, j + 1) /\ pv2[At(l, t, j + 1)] = At(l, t, j)
  <2>1. \A k \in 0..Len(s) : k # i =>
            nx2[At(l, s, k)] = At(l, s, k + 1) /\ pv2[At(l, s, k + 1)] = At(l, s, k)
    BY <1>1, <1>31
  <2>2. nx2[a] = o /\ pv2[o] = a /\ nx2[o] = b /\ pv2[b] = o
    BY <1>1, <1>31
  <2>3. j \in Nat /\ j <= Len(s) + 1
    BY <1>1, <1>2
  <2>8. j \in 0..(Len(t) + 1) /\ j + 1 \in 0..(Len(t) + 1)
    BY <1>1, <1>2, <2>3
  <2>4. CASE j < i
    <3>1. At(l, t, j) = At(l, s, j) /\ At(l, t, j + 1) = At(l, s, j + 1)
      BY <1>1, <1>2, <2>3, <2>4, <2>8
    <3> QED BY <1>1, <2>1, <2>3, <2>4, <3>1
  <2>5. CASE j = i
    <3>1. At(l, t, j) = a /\ At(l, t, j + 1) = o
      BY <1>1, <1>2, <2>3, <2>5, <2>8
    <3> QED BY <2>2, <3>1
  <2>6. CASE j = i + 1
    <3>1. (j + 1) - 1 = i + 1
      BY <1>1, <2>6
    <3>2. At(l, t, j) = o /\ At(l, t, j + 1) = b
      BY <1>1, <1>2, <2>3, <2>6, <2>8, <3>1
    <3> QED BY <2>2, <3>2
  <2>7. CASE j > i + 1
    <3>1. (j + 1) - 1 = j /\ (j - 1) + 1 = j /\ j - 1 \in 0..Len(s) /\ j - 1 # i
      BY <1>1, <2>3, <2>7
    <3>2. At(l, t, j) = At(l, s, j - 1) /\ At(l, t, j + 1) = At(l, s, j)
      BY <1>1, <1>2, <2>3, <2>7, <2>8, <3>1
    <3> QED BY <2>1, <3>1, <3>2
  <2> QED BY <1>1, <2>3, <2>4, <2>5, <2>6, <2>7
<1>7. ASSUME NEW p \in Objects, nx2[p] # Nil \/ pv2[p] # Nil
      PROVE  \E m \in Lists : \E j \in 1..Len(r[m]) : p = r[m][j]
  <2>1. p \in LinkNodes
    BY DEF LinkNodes
  <2>2. CASE p = o
    <3>1. i + 1 \in 1..Len(t) /\ t[i + 1] = o
      BY <1>1, <1>2
    <3> QED BY <1>3, <2>2, <3>1
  <2>3. CASE p # o
    <3>1. nx[p] # Nil \/ pv[p] # Nil
      BY <1>1, <1>7, <1>31, <2>1, <2>3
    <3>2. PICK m \in Lists : \E j \in 1..Len(q[m]) : p = q[m][j]
      BY <3>1 DEF Holds
    <3>3. PICK j \in 1..Len(q[m]) : p = q[m][j]
      BY <3>2
    <3>4. CASE m # l
      BY <1>3, <3>3, <3>4
    <3>5. CASE m = l
      <4>1. j \in 1..Len(s) /\ p = s[j]
        BY <1>0, <3>3, <3>5
      <4>2. j \in 1..Len(t) /\ j + 1 \in 1..Len(t) /\ (j + 1) - 1 = j
        BY <1>1, <1>2, <4>1
      <4>3. p = t[j] \/ p = t[j + 1]
        BY <1>1, <1>2, <4>1, <4>2
      <4> QED BY <1>3, <4>2, <4>3
    <3> QED BY <3>4, <3>5
  <2> QED BY <2>2, <2>3
<1>8. ASSUME NEW m \in Lists, NEW k \in Lists, NEW g \in 1..Len(r[m]), NEW h \in 1..Len(r[k]),
             r[m][g] = r[k][h]
      PROVE  m = k /\ g = h
  <2>1. \A x \in Lists, j \in Nat : j \in 1..Len(r[x]) =>
          \/ x = l /\ j = i + 1 /\ r[x][j] = o
          \/ r[x][j] # o /\ \E e \in 1..Len(q[x]) :
                r[x][j] = q[x][e] /\ e = IF x = l /\ j > i + 1 THEN j - 1 ELSE j
    <3> SUFFICES ASSUME NEW x \in Lists, NEW j \in Nat, j \in 1..Len(r[x])
                 PROVE  \/ x = l /\ j = i + 1 /\ r[x][j] = o
                        \/ r[x][j] # o /\ \E e \in 1..Len(q[x]) :
                              r[x][j] = q[x][e] /\ e = IF x = l /\ j > i + 1 THEN j - 1 ELSE j
      OBVIOUS
    <3>1. \A y \in Lists, e \in Nat : e \in 1..Len(q[y]) => q[y][e] # o
      <4> SUFFICES ASSUME NEW y \in Lists, NEW e \in Nat, e \in 1..Len(q[y]), q[y][e] = o PROVE FALSE
        OBVIOUS
      <4>1. nx[y] # Nil
        BY DEF Holds
      <4>2. o = At(y, q[y], e) /\ e \in 0..Len(q[y])
        BY PlacesDiffer DEF At
      <4> QED BY <4>1, <4>2, Steps
    <3>4. x = l => j \in 1..Len(t)
      BY <1>3
    <3>2. CASE x # l
      BY <1>3, <3>1, <3>2
    <3>3. CASE x = l
      <4>1. r[x] = t /\ q[x] = s
        BY <1>0, <1>3, <3>3
      <4>2. CASE j <= i
        <5>1. t[j] = s[j] /\ j \in 1..Len(s) /\ ~(j > i + 1)
          BY <1>1, <1>2, <3>4, <4>2
        <5> QED BY <3>1, <4>1, <5>1
      <4>3. CASE j = i + 1
        <5>1. t[j] = o
          BY <1>1, <1>2, <3>4, <4>3
        <5> QED BY <3>3, <4>1, <4>3, <5>1
      <4>4. CASE j > i + 1
        <5>0. j \in 1..Len(t) /\ ~(j <= i) /\ j # i + 1
          BY <1>1, <3>3, <3>4, <4>4
        <5>1. t[j] = s[j - 1] /\ j - 1 \in 1..Len(s) /\ j - 1 \in Nat
          BY <1>1, <1>2, <5>0
        <5> QED BY <3>1, <3>3, <4>1, <4>4, <5>1
      <4> QED BY <1>1, <4>2, <4>3, <4>4
    <3> QED BY <3>2, <3>3
  <2>2. g \in Nat /\ h \in Nat
    BY <1>3
  <2>3. CASE r[m][g] = o
    <3>1. m = l /\ g = i + 1
      BY <2>1, <2>2, <2>3
    <3>2. k = l /\ h = i + 1
      BY <1>8, <2>1, <2>2, <2>3
    <3> QED BY <3>1, <3>2
  <2>4. CASE r[m][g] # o
    <3>1. PICK e \in 1..Len(q[m]) : r[m][g] = q[m][e] /\ e = IF m = l /\ g > i + 1 THEN g - 1 ELSE g
      BY <2>1, <2>2, <2>4
    <3>2. PICK f \in 1..Len(q[k]) : r[k][h] = q[k][f] /\ f = IF k = l /\ h > i + 1 THEN h - 1 ELSE h
      BY <1>8, <2>1, <2>2, <2>4
    <3>3. m = k /\ e = f
      <4>1. q[m][e] = q[k][f]
        BY <1>8, <3>1, <3>2
      <4> QED BY <4>1 DEF Holds
    <3>4. m = l => g # i + 1 /\ h # i + 1
      <4>1. t[i + 1] = o
        BY <1>1, <1>2
      <4> QED BY <1>3, <1>8, <2>4, <3>3, <4>1
    <3> QED BY <1>1, <2>2, <3>1, <3>2, <3>3, <3>4
  <2> QED BY <2>3, <2>4
<1>9. \A m \in Lists : nx2[m] = Nil => pv2[m] = Nil /\ r[m] = <<>>
  <2>1. \A m \in Lists : m \in LinkNodes /\ (nx[m] = Nil => pv[m] = Nil /\ q[m] = <<>>)
    BY DEF Holds, LinkNodes
  <2>2. \A m \in Lists : nx2[m] = Nil => m # l /\ m # b /\ m # o /\ pv2[m] = pv[m]
    <3>1. \A m \in Lists : nx[m] = Nil => m # b
      BY <1>0, <1>1, Steps
    <3> QED BY <1>1, <1>4, <2>1, <3>1
  <2> QED BY <1>3, <1>4, <2>1, <2>2
<1>10. \A m \in Lists : nx2[m] # Nil =>
          \A j \in 0..Len(r[m]) : /\ nx2[At(m, r[m], j)] = At(m, r[m], j + 1)
                                  /\ pv2[At(m, r[m], j + 1)] = At(m, r[m], j)
  BY <1>3, <1>4, <1>5, <1>6
<1>11. Holds(nx2, pv2, r)
  BY <1>3, <1>7, <1>8, <1>9, <1>10 DEF Holds
<1> QED BY <1>0, <1>01, <1>11

\* Taking place i out of a list.
LEMMA RemoveHolds ==
    ASSUME NodesApart, NEW nx, NEW pv, NEW q, Holds(nx, pv, q),
           NEW l \in Lists, nx[l] # Nil, NEW i \in 1..Len(q[l]),
           NEW o, o = At(l, q[l], i), NEW a, a = At(l, q[l], i - 1), NEW c, c = At(l, q[l], i + 1),
           NEW nx2, NEW pv2, Unlinked(nx, pv, a, o, c, nx2, pv2)
    PROVE  Holds(nx2, pv2, [q EXCEPT ![l] = RemoveAt(q[l], i)])
<1> USE DEF Unlinked
<1>0. PICK s, t : s = q[l] /\ t = RemoveAt(s, i)
  OBVIOUS
<1>01. PICK r : r = [q EXCEPT ![l] = t]
  OBVIOUS
<1>1. /\ s \in Seq(Objects) /\ Len(s) \in Nat /\ i \in Nat /\ i >= 1 /\ i <= Len(s)
      /\ o = s[i] /\ o \in Objects /\ o \in LinkNodes /\ o \notin Lists
      /\ Nil \notin LinkNodes
      /\ q \in [Lists -> Seq(Objects)]
  <2>1. s \in Seq(Objects) /\ Len(s) \in Nat /\ i \in Nat /\ i >= 1 /\ i <= Len(s)
    BY <1>0, PlacesDiffer
  <2>2. o = s[i] /\ o \in Objects
    BY <1>0, <2>1 DEF At
  <2>3. q \in [Lists -> Seq(Objects)]
    BY DEF Holds
  <2> QED BY <2>1, <2>2, <2>3 DEF NodesApart, LinkNodes
<1>2. /\ t \in Seq(Objects) /\ Len(t) = Len(s) - 1
      /\ \A j \in 1..Len(t) : t[j] = IF j < i THEN s[j] ELSE s[j + 1]
      /\ \A j \in 0..(Len(t) + 1) : At(l, t, j) = IF j < i THEN At(l, s, j) ELSE At(l, s, j + 1)
  <2>1. i \in 1..Len(s) /\ s \in Seq(Objects)
    BY <1>1
  <2>2. Removed(l, s, i, t)
    BY <1>0, <2>1, PlacesRemoved
  <2> QED BY <2>2 DEF Removed
<1>3. r \in [Lists -> Seq(Objects)] /\ r[l] = t /\ \A m \in Lists \ {l} : r[m] = q[m]
  BY <1>01, <1>1, <1>2
<1>4. /\ \A j \in 0..Len(s) :
            /\ At(l, s, j) \in LinkNodes /\ At(l, s, j + 1) \in LinkNodes
            /\ nx[At(l, s, j)] = At(l, s, j + 1) /\ pv[At(l, s, j + 1)] = At(l, s, j)
            /\ j # i - 1 => At(l, s, j) # a /\ At(l, s, j + 1) # o
            /\ j # i => At(l, s, j) # o /\ At(l, s, j + 1) # c
      /\ a \in LinkNodes /\ c \in LinkNodes /\ a # o /\ c # o
      /\ nx[a] = o /\ nx[o] = c /\ pv[o] = a /\ pv[c] = o
  <2>1. \A j \in 0..Len(s) :
            /\ At(l, s, j) \in LinkNodes /\ At(l, s, j + 1) \in LinkNodes
            /\ nx[At(l, s, j)] = At(l, s, j + 1) /\ pv[At(l, s, j + 1)] = At(l, s, j)
    BY <1>0, Steps
  <2>2. i - 1 \in 0..Len(s) /\ i \in 0..Len(s) /\ (i - 1) + 1 = i /\ i - 1 # i
    BY <1>1
  <2>3. o = At(l, s, i) /\ a = At(l, s, i - 1) /\ c = At(l, s, i + 1) /\ o = At(l, s, (i - 1) + 1)
    BY <1>0, <2>2
  <2>4. \A j, k \in 0..Len(s) : j # k => At(l, s, j) # At(l, s, k)
    BY <1>0, PlacesDiffer
  <2>5. \A j, k \in 0..Len(s) : j # k => At(l, s, j + 1) # At(l, s, k + 1)
    BY <1>0, Steps
  <2>6. \A j \in 0..Len(s) :
            /\ j # i - 1 => At(l, s, j) # a /\ At(l, s, j + 1) # o
            /\ j # i => At(l, s, j) # o /\ At(l, s, j + 1) # c
    BY <2>2, <2>3, <2>4, <2>5
  <2>7. a \in LinkNodes /\ nx[a] = o /\ pv[o] = a /\ c \in LinkNodes /\ nx[o] = c /\ pv[c] = o
    BY <2>1, <2>2, <2>3
  <2>8. a # o /\ c # o
    BY <2>2, <2>3, <2>4, <2>5
  <2> QED BY <2>1, <2>6, <2>7, <2>8
<1>5. \A m \in Lists : nx2[m] = Nil <=> nx[m] = Nil
  <2>1. \A m \in Lists : m \in LinkNodes /\ m # o
    BY <1>1 DEF LinkNodes
  <2> QED BY <1>1, <1>4, <2>1
<1>6. ASSUME NEW m \in Lists \ {l}, nx[m] # Nil, NEW j \in 0..Len(q[m])
      PROVE  /\ nx2[At(m, q[m], j)] = At(m, q[m], j + 1)
             /\ pv2[At(m, q[m], j + 1)] = At(m, q[m], j)
  <2>1. i - 1 \in 0..Len(q[l]) /\ i \in 0..Len(q[l]) /\ (i - 1) + 1 = i
    BY <1>0, <1>1
  <2>2. At(m, q[m], j) # a /\ At(m, q[m], j) # o
    BY <1>6, <2>1, PlacesDiffer
  <2>3. At(m, q[m], j + 1) # c /\ At(m, q[m], j + 1) # o
    BY <1>6, <2>1, Steps
  <2>4. /\ At(m, q[m], j) \in LinkNodes /\ At(m, q[m], j + 1) \in LinkNodes
        /\ nx[At(m, q[m], j)] = At(m, q[m], j + 1) /\ pv[At(m, q[m], j + 1)] = At(m, q[m], j)
    BY <1>6, Steps
  <2> QED BY <2>2, <2>3, <2>4
<1>7. ASSUME NEW j \in 0..Len(t)
      PROVE  nx2[At(l, t, j)] = At(l, t, j + 1) /\ pv2[At(l, t, j + 1)] = At(l, t, j)
  <2>1. \A k \in 0..Len(s) : k # i /\ k # i - 1 =>
            nx2[At(l, s, k)] = At(l, s, k + 1) /\ pv2[At(l, s, k + 1)] = At(l, s, k)
    BY <1>1, <1>4
  <2>2. nx2[a] = c /\ pv2[c] = a
    BY <1>1, <1>4
  <2>3. j \in Nat /\ j + 1 <= Len(s)
    BY <1>1, <1>2
  <2>4. j \in 0..(Len(t) + 1) /\ j + 1 \in 0..(Len(t) + 1)
    BY <1>1, <1>2, <2>3
  <2>5. CASE j < i - 1
    <3>1. At(l, t, j) = At(l, s, j) /\ At(l, t, j + 1) = At(l, s, j + 1)
      BY <1>1, <1>2, <2>3, <2>4, <2>5
    <3> QED BY <1>1, <2>1, <2>3, <2>5, <3>1
  <2>6. CASE j = i - 1
    <3>1. j < i /\ ~(j + 1 < i) /\ (j + 1) + 1 = i + 1
      BY <1>1, <2>6
    <3>2. At(l, t, j) = a /\ At(l, t, j + 1) = c
      BY <1>0, <1>2, <2>4, <2>6, <3>1
    <3> QED BY <2>2, <3>2
  <2>7. CASE j > i - 1
    <3>1. ~(j < i) /\ ~(j + 1 < i) /\ j + 1 \in 0..Len(s) /\ j + 1 # i /\ j + 1 # i - 1
      BY <1>1, <2>3, <2>7
    <3>2. At(l, t, j) = At(l, s, j + 1) /\ At(l, t, j + 1) = At(l, s, (j + 1) + 1)
      BY <1>2, <2>4, <3>1
    <3> QED BY <2>1, <3>1, <3>2
  <2> QED BY <1>1, <2>3, <2>5, <2>6, <2>7
<1>8. ASSUME NEW p \in Objects, nx2[p] # Nil \/ pv2[p] # Nil
      PROVE  \E m \in Lists : \E j \in 1..Len(r[m]) : p = r[m][j]
  <2>1. p \in LinkNodes
    BY DEF LinkNodes
  <2>2. p # o /\ (nx[p] # Nil \/ pv[p] # Nil)
    BY <1>1, <1>4, <1>8, <2>1
  <2>3. PICK m \in Lists : \E j \in 1..Len(q[m]) : p = q[m][j]
    BY <2>2 DEF Holds
  <2>4. PICK j \in 1..Len(q[m]) : p = q[m][j]
    BY <2>3
  <2>5. CASE m # l
    BY <1>3, <2>4, <2>5
  <2>6. CASE m = l
    <3>1. j \in 1..Len(s) /\ p = s[j] /\ j # i
      BY <1>0, <1>1, <2>2, <2>4, <2>6
    <3>2. CASE j < i
      <4>1. j \in 1..Len(t) /\ t[j] = p
        BY <1>1, <1>2, <3>1, <3>2
      <4> QED BY <1>3, <4>1
    <3>3. CASE j > i
      <4>1. j - 1 \in 1..Len(t) /\ ~(j - 1 < i) /\ (j - 1) + 1 = j
        BY <1>1, <1>2, <3>1, <3>3
      <4>2. t[j - 1] = p
        BY <1>2, <3>1, <4>1
      <4> QED BY <1>3, <4>1, <4>2
    <3> QED BY <1>1, <3>1, <3>2, <3>3
  <2> QED BY <2>5, <2>6
<1>9. ASSUME NEW m \in Lists, NEW k \in Lists, NEW g \in 1..Len(r[m]), NEW h \in 1..Len(r[k]),
             r[m][g] = r[k][h]
      PROVE  m = k /\ g = h
  <2>1. ASSUME NEW x \in Lists, NEW j \in 1..Len(r[x])
        PROVE  \E e \in 1..Len(q[x]) : r[x][j] = q[x][e] /\ e = IF x = l /\ j >= i THEN j + 1 ELSE j
    <3>1. CASE x # l
      BY <1>3, <3>1
    <3>2. CASE x = l
      <4>1. j \in 1..Len(t) /\ r[x][j] = t[j] /\ q[x] = s
        BY <1>0, <1>3, <3>2
      <4>2. CASE j < i
        <5>1. t[j] = s[j] /\ j \in 1..Len(s) /\ ~(j >= i)
          BY <1>1, <1>2, <4>1, <4>2
        <5> QED BY <4>1, <5>1
      <4>3. CASE ~(j < i)
        <5>1. t[j] = s[j + 1] /\ j + 1 \in 1..Len(s) /\ j >= i
          BY <1>1, <1>2, <4>1, <4>3
        <5> QED BY <3>2, <4>1, <5>1
      <4> QED BY <4>2, <4>3
    <3> QED BY <3>1, <3>2
  <2>2. PICK e \in 1..Len(q[m]) : r[m][g] = q[m][e] /\ e = IF m = l /\ g >= i THEN g + 1 ELSE g
    BY <2>1
  <2>3. PICK f \in 1..Len(q[k]) : r[k][h] = q[k][f] /\ f = IF k = l /\ h >= i THEN h + 1 ELSE h
    BY <2>1
  <2>4. m = k /\ e = f
    <3>1. q[m][e] = q[k][f]
      BY <1>9, <2>2, <2>3
    <3> QED BY <3>1 DEF Holds
  <2>5. g \in Nat /\ h \in Nat
    BY <1>3
  <2> QED BY <1>1, <2>2, <2>3, <2>4, <2>5
<1>10. \A m \in Lists : nx2[m] = Nil => pv2[m] = Nil /\ r[m] = <<>>
  <2>1. \A m \in Lists : m \in LinkNodes /\ m # o /\ (nx[m] = Nil => pv[m] = Nil /\ q[m] = <<>>)
    BY <1>1 DEF Holds, LinkNodes
  <2>2. \A m \in Lists : nx2[m] = Nil => m # l /\ pv2[m] = pv[m]
    <3>1. i \in 0..Len(q[l])
      BY <1>0, <1>1
    <3>2. \A m \in Lists : nx[m] = Nil => m # c
      BY <3>1, Steps
    <3> QED BY <1>5, <2>1, <3>2
  <2> QED BY <1>3, <1>5, <2>1, <2>2
<1>11. \A m \in Lists : nx2[m] # Nil =>
          \A j \in 0..Len(r[m]) : /\ nx2[At(m, r[m], j)] = At(m, r[m], j + 1)
                                  /\ pv2[At(m, r[m], j + 1)] = At(m, r[m], j)
  <2> SUFFICES ASSUME NEW m \in Lists, nx2[m] # Nil, NEW j \in 0..Len(r[m])
               PROVE  /\ nx2[At(m, r[m], j)] = At(m, r[m], j + 1)
                      /\ pv2[At(m, r[m], j + 1)] = At(m, r[m], j)
    OBVIOUS
  <2>1. CASE m = l
    <3>1. r[m] = t /\ j \in 0..Len(t)
      BY <1>3, <2>1
    <3> QED BY <1>7, <2>1, <3>1
  <2>2. CASE m # l
    <3>1. r[m] = q[m] /\ nx[m] # Nil /\ j \in 0..Len(q[m]) /\ m \in Lists \ {l}
      BY <1>3, <1>5, <2>2
    <3> QED BY <1>6, <3>1
  <2> QED BY <2>1, <2>2
<1>12. Holds(nx2, pv2, r)
  BY <1>3, <1>8, <1>9, <1>10, <1>11 DEF Holds
<1> QED BY <1>0, <1>01, <1>12

\* The stores that put by in the place of o, between a and c.
Replaced(nx, pv, a, o, c, by, nx2, pv2) ==
    /\ {nx2, pv2} \subseteq [LinkNodes -> LinkNodes \cup {Nil}]
    /\ \A n \in LinkNodes : nx2[n] = IF n = o THEN Nil ELSE IF n = a THEN by
                                     ELSE IF n = by THEN c ELSE nx[n]
    /\ \A n \in LinkNodes : pv2[n] = IF n = o THEN Nil ELSE IF n = c THEN by
                                     ELSE IF n = by THEN a ELSE pv[n]

\* Putting an object in the place of another one.
LEMMA ReplaceHolds ==
    ASSUME NodesApart, NEW nx, NEW pv, NEW q, Holds(nx, pv, q),
           NEW l \in Lists, nx[l] # Nil, NEW i \in 1..Len(q[l]),
           NEW o, o = At(l, q[l], i), NEW a, a = At(l, q[l], i - 1), NEW c, c = At(l, q[l], i + 1),
           NEW by \in Objects, nx[by] = Nil,
           NEW nx2, NEW pv2, Replaced(nx, pv, a, o, c, by, nx2, pv2)
    PROVE  Holds(nx2, pv2, [q EXCEPT ![l] = [q[l] EXCEPT ![i] = by]])
<1> PICK s, t, u, w : /\ s = q[l] /\ t = RemoveAt(s, i) /\ u = InsertAt(t, (i - 1) + 1, by)
                       /\ w = [s EXCEPT ![i] = by]
  OBVIOUS
<1> PICK q1 : q1 = [q EXCEPT ![l] = t]
  OBVIOUS
<1> PICK nx1, pv1 :
        /\ nx1 = [n \in LinkNodes |-> IF n = o THEN Nil ELSE IF n = a THEN c ELSE nx[n]]
        /\ pv1 = [n \in LinkNodes |-> IF n = o THEN Nil ELSE IF n = c THEN a ELSE pv[n]]
  OBVIOUS
<1>1. /\ s \in Seq(Objects) /\ Len(s) \in Nat /\ i \in Nat /\ i >= 1 /\ i <= Len(s)
      /\ q \in [Lists -> Seq(Objects)] /\ by \in LinkNodes /\ Nil \notin LinkNodes
      /\ a \in LinkNodes /\ c \in LinkNodes /\ o \in LinkNodes
      /\ by # o /\ by # a /\ by # c /\ a # o /\ o # c /\ o # l
  <2>1. s \in Seq(Objects) /\ Len(s) \in Nat /\ i \in Nat /\ i >= 1 /\ i <= Len(s)
    BY PlacesDiffer
  <2>2. i - 1 \in 0..Len(s) /\ i \in 0..Len(s) /\ (i - 1) + 1 = i /\ i - 1 # i /\ 0 \in 0..Len(s) /\ i # 0
    BY <2>1
  <2>3. a \in LinkNodes /\ c \in LinkNodes /\ o \in LinkNodes /\ by # o /\ by # a /\ by # c
    BY <2>2, Steps
  <2>4. a # o /\ o # c /\ o # l
    BY <2>2, Steps, PlacesDiffer
  <2>5. q \in [Lists -> Seq(Objects)]
    BY DEF Holds
  <2> QED BY <2>1, <2>3, <2>4, <2>5 DEF NodesApart, LinkNodes
<1>2. Removed(l, s, i, t)
  BY <1>1, PlacesRemoved
<1>3. Inserted(l, t, i - 1, by, u)
  <2>1. i - 1 \in 0..Len(t) /\ t \in Seq(Objects)
    BY <1>1, <1>2 DEF Removed
  <2> QED BY <2>1, PlacesInserted
<1>4. u = w
  <2>1. /\ u \in Seq(Objects) /\ Len(u) = Len(s)
        /\ \A j \in 1..Len(u) : u[j] = IF j <= i - 1 THEN t[j] ELSE IF j = (i - 1) + 1 THEN by ELSE t[j - 1]
    BY <1>1, <1>2, <1>3 DEF Removed, Inserted
  <2>2. Len(t) = Len(s) - 1 /\ \A j \in 1..Len(t) : t[j] = IF j < i THEN s[j] ELSE s[j + 1]
    BY <1>2 DEF Removed
  <2>3. \A j \in 1..Len(u) : u[j] = IF j = i THEN by ELSE s[j]
    <3> SUFFICES ASSUME NEW j \in 1..Len(u) PROVE u[j] = IF j = i THEN by ELSE s[j]
      OBVIOUS
    <3>1. CASE j < i
      <4>1. j <= i - 1 /\ j \in 1..Len(t)
        BY <1>1, <2>1, <2>2, <3>1
      <4> QED BY <2>1, <2>2, <3>1, <4>1
    <3>2. CASE j = i
      BY <1>1, <2>1, <3>2
    <3>3. CASE j > i
      <4>1. ~(j <= i - 1) /\ j # (i - 1) + 1 /\ j - 1 \in 1..Len(t) /\ ~(j - 1 < i) /\ (j - 1) + 1 = j /\ j # i
        BY <1>1, <2>1, <2>2, <3>3
      <4> QED BY <2>1, <2>2, <4>1
    <3> QED BY <1>1, <2>1, <3>1, <3>2, <3>3
  <2>4. w \in Seq(Objects) /\ Len(w) = Len(s) /\ \A j \in 1..Len(u) : w[j] = IF j = i THEN by ELSE s[j]
    BY <1>1, <2>1
  <2>6. Len(u) = Len(w) /\ \A j \in 1..Len(u) : u[j] = w[j]
    BY <2>1, <2>3, <2>4
  <2> QED BY <2>1, <2>4, <2>6, SameSeq
<1>5. nx1 \in [LinkNodes -> LinkNodes \cup {Nil}] /\ pv1 \in [LinkNodes -> LinkNodes \cup {Nil}]
  BY <1>1 DEF Holds
<1>6. Holds(nx1, pv1, q1)
  <2>1. Unlinked(nx, pv, a, o, c, nx1, pv1)
    BY <1>5 DEF Unlinked
  <2>3. Holds(nx1, pv1, [q EXCEPT ![l] = RemoveAt(q[l], i)])
    BY <2>1, RemoveHolds
  <2> QED BY <2>3
<1>7. Holds(nx2, pv2, [q1 EXCEPT ![l] = u])
  <2>1. q1[l] = t /\ i - 1 \in 0..Len(q1[l])
    BY <1>1, <1>2 DEF Removed
  <2>2. a = At(l, q1[l], i - 1) /\ c = At(l, q1[l], (i - 1) + 1)
    <3>1. i - 1 \in 0..(Len(t) + 1) /\ i - 1 < i /\ i \in 0..(Len(t) + 1) /\ ~(i < i) /\ (i - 1) + 1 = i
      BY <1>1, <1>2 DEF Removed
    <3> QED BY <1>2, <2>1, <3>1 DEF Removed
  <2>3. nx1[l] # Nil /\ nx1[by] = Nil
    <3>1. l \in LinkNodes
      BY DEF LinkNodes
    <3> QED BY <1>1, <3>1
  <2>4. Linked(nx1, pv1, a, by, c, nx2, pv2)
    BY <1>1 DEF Linked, Replaced
  <2>6. Holds(nx2, pv2, [q1 EXCEPT ![l] = InsertAt(q1[l], (i - 1) + 1, by)])
    BY <1>6, <2>1, <2>2, <2>3, <2>4, InsertHolds
  <2> QED BY <2>1, <2>6
<1>8. [q1 EXCEPT ![l] = u] = [q EXCEPT ![l] = [q[l] EXCEPT ![i] = by]]
  BY <1>1, <1>4
<1> QED BY <1>7, <1>8

\* Creating a list leaves every sequence as it is.
LEMMA CreateHolds ==
    ASSUME NodesApart, NEW nx, NEW pv, NEW q, Holds(nx, pv, q), NEW l \in Lists, nx[l] = Nil
    PROVE  Holds([nx EXCEPT ![l] = l], [pv EXCEPT ![l] = l], q)
<1> PICK nx2, pv2 : nx2 = [nx EXCEPT ![l] = l] /\ pv2 = [pv EXCEPT ![l] = l]
  OBVIOUS
<1>1. /\ l \in LinkNodes /\ l \notin Objects /\ Nil \notin LinkNodes
      /\ \A m \in Lists : m \in LinkNodes
      /\ \A p \in Objects : p \in LinkNodes /\ p # l
  BY DEF NodesApart, LinkNodes
<1>2. /\ nx2 \in [LinkNodes -> LinkNodes \cup {Nil}] /\ pv2 \in [LinkNodes -> LinkNodes \cup {Nil}]
      /\ \A n \in LinkNodes : nx2[n] = (IF n = l THEN l ELSE nx[n]) /\ pv2[n] = IF n = l THEN l ELSE pv[n]
  BY <1>1 DEF Holds
<1>3. ASSUME NEW m \in Lists, nx2[m] # Nil, NEW j \in 0..Len(q[m])
      PROVE  /\ nx2[At(m, q[m], j)] = At(m, q[m], j + 1)
             /\ pv2[At(m, q[m], j + 1)] = At(m, q[m], j)
  <2>1. CASE m = l
    <3>1. q[m] = <<>> /\ j = 0
      BY <1>3, <2>1 DEF Holds
    <3>2. At(m, q[m], j) = l /\ At(m, q[m], j + 1) = l
      BY <2>1, <3>1 DEF At
    <3> QED BY <1>1, <1>2, <3>2
  <2>2. CASE m # l
    <3>1. nx[m] # Nil
      BY <1>1, <1>2, <1>3, <2>2
    <3>2. /\ At(m, q[m], j) \in LinkNodes /\ At(m, q[m], j + 1) \in LinkNodes
          /\ nx[At(m, q[m], j)] = At(m, q[m], j + 1) /\ pv[At(m, q[m], j + 1)] = At(m, q[m], j)
          /\ l # At(m, q[m], j) /\ l # At(m, q[m], j + 1)
      BY <1>3, <3>1, Steps
    <3> QED BY <1>2, <3>2
  <2> QED BY <2>1, <2>2
<1>4. \A m \in Lists : nx2[m] = Nil => pv2[m] = Nil /\ q[m] = <<>>
  <2>1. \A m \in Lists : nx2[m] = Nil => m # l /\ nx[m] = Nil /\ pv2[m] = pv[m]
    BY <1>1, <1>2
  <2> QED BY <2>1 DEF Holds
<1>5. \A p \in Objects : nx2[p] = nx[p] /\ pv2[p] = pv[p]
  BY <1>1, <1>2
<1> QED BY <1>2, <1>3, <1>4, <1>5 DEF Holds

\* Destroying an empty list leaves the sequences as they are, too.
LEMMA DestroyHolds ==
    ASSUME NodesApart, NEW nx, NEW pv, NEW q, Holds(nx, pv, q), NEW l \in Lists, q[l] = <<>>
    PROVE  Holds([nx EXCEPT ![l] = Nil], [pv EXCEPT ![l] = Nil], q)
<1> PICK nx2, pv2 : nx2 = [nx EXCEPT ![l] = Nil] /\ pv2 = [pv EXCEPT ![l] = Nil]
  OBVIOUS
<1>1. /\ l \in LinkNodes /\ l \notin Objects /\ Nil \notin LinkNodes
      /\ \A m \in Lists : m \in LinkNodes
      /\ \A p \in Objects : p \in LinkNodes /\ p # l
  BY DEF NodesApart, LinkNodes
<1>2. /\ nx2 \in [LinkNodes -> LinkNodes \cup {Nil}] /\ pv2 \in [LinkNodes -> LinkNodes \cup {Nil}]
      /\ \A n \in LinkNodes : nx2[n] = (IF n = l THEN Nil ELSE nx[n]) /\ pv2[n] = IF n = l THEN Nil ELSE pv[n]
  BY <1>1 DEF Holds
<1>3. ASSUME NEW m \in Lists, nx2[m] # Nil, NEW j \in 0..Len(q[m])
      PROVE  /\ nx2[At(m, q[m], j)] = At(m, q[m], j + 1)
             /\ pv2[At(m, q[m], j + 1)] = At(m, q[m], j)
  <2>1. m # l /\ nx[m] # Nil
    BY <1>1, <1>2, <1>3
  <2>2. /\ At(m, q[m], j) \in LinkNodes /\ At(m, q[m], j + 1) \in LinkNodes
        /\ nx[At(m, q[m], j)] = At(m, q[m], j + 1) /\ pv[At(m, q[m], j + 1)] = At(m, q[m], j)
    BY <1>3, <2>1, Steps
  <2>3. l # At(m, q[m], j)
    <3>1. l = At(l, q[l], 0) /\ 0 \in 0..Len(q[l])
      BY DEF At
    <3> QED BY <1>3, <2>1, <3>1, PlacesDiffer
  <2>4. l # At(m, q[m], j + 1)
    <3>1. CASE j + 1 \in 1..Len(q[m])
      BY <1>1, <3>1 DEF At, Holds
    <3>2. CASE j + 1 \notin 1..Len(q[m])
      BY <2>1, <3>2 DEF At
    <3> QED BY <3>1, <3>2
  <2> QED BY <1>2, <2>2, <2>3, <2>4
<1>4. \A m \in Lists : nx2[m] = Nil => pv2[m] = Nil /\ q[m] = <<>>
  <2>1. \A m \in Lists : nx2[m] = Nil => m = l \/ (nx[m] = Nil /\ pv2[m] = pv[m])
    BY <1>1, <1>2
  <2>2. pv2[l] = Nil
    BY <1>1, <1>2
  <2> QED BY <2>1, <2>2 DEF Holds
<1>5. \A p \in Objects : nx2[p] = nx[p] /\ pv2[p] = pv[p]
  BY <1>1, <1>2
<1> QED BY <1>2, <1>3, <1>4, <1>5 DEF Holds

\* t is u behind s: its places in the ring of the list that held s.
Appended(l, s, m, u, t) ==
    /\ t \in Seq(Objects) /\ Len(t) = Len(s) + Len(u)
    /\ \A j \in 0..Len(s) : At(l, t, j) = At(l, s, j)
    /\ \A j \in 1..Len(u) : At(l, t, Len(s) + j) = At(m, u, j)
    /\ \A j \in 1..Len(t) : \/ j \in 1..Len(s) /\ t[j] = s[j]
                            \/ j - Len(s) \in 1..Len(u) /\ t[j] = u[j - Len(s)]
    /\ \A j \in 1..Len(s) : t[j] = s[j]
    /\ \A j \in 1..Len(u) : t[Len(s) + j] = u[j]

\* What concatenation makes of the places.
LEMMA PlacesAppended ==
    ASSUME NEW l \in Lists, NEW m \in Lists, NEW s \in Seq(Objects), NEW u \in Seq(Objects)
    PROVE  Appended(l, s, m, u, s \o u)
<1> PICK t : t = s \o u
  OBVIOUS
<1>1. /\ t \in Seq(Objects) /\ Len(t) = Len(s) + Len(u)
      /\ \A j \in 1..Len(s) : t[j] = s[j]
      /\ \A j \in 1..Len(t) : j > Len(s) => t[j] = u[j - Len(s)]
  BY Joined
<1>2. Len(s) \in Nat /\ Len(u) \in Nat
  OBVIOUS
<1>3. \A j \in 1..Len(u) : t[Len(s) + j] = u[j]
  <2>1. \A j \in 1..Len(u) : Len(s) + j \in 1..Len(t) /\ Len(s) + j > Len(s) /\ (Len(s) + j) - Len(s) = j
    BY <1>1, <1>2
  <2> QED BY <1>1, <2>1
<1>4. \A j \in 1..Len(t) : \/ j \in 1..Len(s) /\ t[j] = s[j]
                           \/ j - Len(s) \in 1..Len(u) /\ t[j] = u[j - Len(s)]
  <2>1. \A j \in 1..Len(t) : j \in 1..Len(s) \/ (j > Len(s) /\ j - Len(s) \in 1..Len(u))
    BY <1>1, <1>2
  <2> QED BY <1>1, <2>1
<1>5. \A j \in 0..Len(s) : At(l, t, j) = At(l, s, j)
  <2>1. \A j \in 0..Len(s) : j \in 1..Len(t) <=> (j \in 1..Len(s) \/ (j = 0 /\ 0 \in 1..Len(t)))
    BY <1>1, <1>2
  <2>2. 0 \notin 1..Len(t) /\ 0 \notin 1..Len(s) /\ \A j \in 0..Len(s) : j # 0 => j \in 1..Len(s)
    BY <1>2
  <2> QED BY <1>1, <2>1, <2>2 DEF At
<1>6. \A j \in 1..Len(u) : At(l, t, Len(s) + j) = At(m, u, j)
  <2>1. \A j \in 1..Len(u) : Len(s) + j \in 1..Len(t)
    BY <1>1, <1>2
  <2> QED BY <1>3, <2>1 DEF At
<1> QED BY <1>1, <1>3, <1>4, <1>5, <1>6 DEF Appended

\* The stores that join ring src, from h to z, into the ring of dst behind e.
Joins(nx, pv, dst, src, e, h, z, nx2, pv2) ==
    /\ {nx2, pv2} \subseteq [LinkNodes -> LinkNodes \cup {Nil}]
    /\ \A n \in LinkNodes : nx2[n] = IF n = src THEN src ELSE IF n = z THEN dst
                                     ELSE IF n = e THEN h ELSE nx[n]
    /\ \A n \in LinkNodes : pv2[n] = IF n = src THEN src ELSE IF n = h THEN e
                                     ELSE IF n = dst THEN z ELSE pv[n]

\* Joining two lists.
LEMMA MoveHolds ==
    ASSUME NodesApart, NEW nx, NEW pv, NEW q, Holds(nx, pv, q),
           NEW dst \in Lists, NEW src \in Lists, dst # src, nx[dst] # Nil, nx[src] # Nil, q[src] # <<>>,
           NEW e, e = At(dst, q[dst], Len(q[dst])), NEW h, h = At(src, q[src], 1),
           NEW z, z = At(src, q[src], Len(q[src])),
           NEW nx2, NEW pv2, Joins(nx, pv, dst, src, e, h, z, nx2, pv2)
    PROVE  Holds(nx2, pv2, [q EXCEPT ![dst] = q[dst] \o q[src], ![src] = <<>>])
<1>0. /\ {nx2, pv2} \subseteq [LinkNodes -> LinkNodes \cup {Nil}]
      /\ \A n \in LinkNodes : /\ n # src /\ n # z /\ n # e => nx2[n] = nx[n]
                              /\ n # src /\ n # h /\ n # dst => pv2[n] = pv[n]
  BY DEF Joins
<1> PICK s, u, t : s = q[dst] /\ u = q[src] /\ t = s \o u
  OBVIOUS
<1> PICK r : r = [q EXCEPT ![dst] = t, ![src] = <<>>]
  OBVIOUS
<1>1. /\ s \in Seq(Objects) /\ Len(s) \in Nat /\ u \in Seq(Objects) /\ Len(u) \in Nat /\ Len(u) >= 1
      /\ q \in [Lists -> Seq(Objects)] /\ Nil \notin LinkNodes
      /\ dst \in LinkNodes /\ src \in LinkNodes
  BY PlacesDiffer DEF Holds, NodesApart, LinkNodes
<1>2. Appended(dst, s, src, u, t)
  BY <1>1, PlacesAppended
<1>3. r \in [Lists -> Seq(Objects)] /\ r[dst] = t /\ r[src] = <<>> /\ \A m \in Lists \ {dst, src} : r[m] = q[m]
  <2>1. t \in Seq(Objects) /\ <<>> \in Seq(Objects)
    BY <1>2 DEF Appended
  <2> QED BY <1>1, <2>1
<1>4. /\ \A j \in 0..Len(s) :
            /\ At(dst, s, j) \in LinkNodes /\ At(dst, s, j + 1) \in LinkNodes
            /\ nx[At(dst, s, j)] = At(dst, s, j + 1) /\ pv[At(dst, s, j + 1)] = At(dst, s, j)
            /\ At(dst, s, j) # src /\ At(dst, s, j) # z /\ At(dst, s, j + 1) # src /\ At(dst, s, j + 1) # h
            /\ j # Len(s) => At(dst, s, j) # e /\ At(dst, s, j + 1) # dst
      /\ \A j \in 0..Len(u) :
            /\ At(src, u, j) \in LinkNodes /\ At(src, u, j + 1) \in LinkNodes
            /\ nx[At(src, u, j)] = At(src, u, j + 1) /\ pv[At(src, u, j + 1)] = At(src, u, j)
            /\ At(src, u, j) # dst /\ At(src, u, j) # e /\ At(src, u, j + 1) # dst
            /\ j # 0 => At(src, u, j) # src /\ At(src, u, j + 1) # h
            /\ j # Len(u) => At(src, u, j) # z /\ At(src, u, j + 1) # src
      /\ e \in LinkNodes /\ h \in LinkNodes /\ z \in LinkNodes /\ e # src /\ z # src /\ h # src
      /\ z # e /\ h # dst
  <2>1. \A j \in 0..Len(s) :
            /\ At(dst, s, j) \in LinkNodes /\ At(dst, s, j + 1) \in LinkNodes
            /\ nx[At(dst, s, j)] = At(dst, s, j + 1) /\ pv[At(dst, s, j + 1)] = At(dst, s, j)
    BY Steps
  <2>2. \A j \in 0..Len(u) :
            /\ At(src, u, j) \in LinkNodes /\ At(src, u, j + 1) \in LinkNodes
            /\ nx[At(src, u, j)] = At(src, u, j + 1) /\ pv[At(src, u, j + 1)] = At(src, u, j)
    BY Steps
  <2>3. \A j \in 0..Len(s), k \in 0..Len(u) :
            At(dst, s, j) # At(src, u, k) /\ At(dst, s, j + 1) # At(src, u, k + 1)
    BY Steps, PlacesDiffer
  <2>4. /\ \A j, k \in 0..Len(s) : j # k => At(dst, s, j) # At(dst, s, k) /\ At(dst, s, j + 1) # At(dst, s, k + 1)
        /\ \A j, k \in 0..Len(u) : j # k => At(src, u, j) # At(src, u, k) /\ At(src, u, j + 1) # At(src, u, k + 1)
    BY Steps, PlacesDiffer
  <2>5. /\ 0 \in 0..Len(s) /\ Len(s) \in 0..Len(s) /\ 0 \in 0..Len(u) /\ Len(u) \in 0..Len(u) /\ 1 \in 0..Len(u)
        /\ 0 # Len(u) /\ 0 + 1 = 1
    BY <1>1
  <2>6. /\ At(dst, s, 0) = dst /\ At(dst, s, Len(s) + 1) = dst
        /\ At(src, u, 0) = src /\ At(src, u, Len(u) + 1) = src
    BY Steps
  <2>7. e = At(dst, s, Len(s)) /\ h = At(src, u, 1) /\ h = At(src, u, 0 + 1) /\ z = At(src, u, Len(u))
    BY <2>5
  <2>8. ASSUME NEW j \in 0..Len(s)
        PROVE  /\ At(dst, s, j) # src /\ At(dst, s, j) # z /\ At(dst, s, j + 1) # src /\ At(dst, s, j + 1) # h
               /\ j # Len(s) => At(dst, s, j) # e /\ At(dst, s, j + 1) # dst
    BY <2>3, <2>4, <2>5, <2>6, <2>7
  <2>9. ASSUME NEW j \in 0..Len(u)
        PROVE  /\ At(src, u, j) # dst /\ At(src, u, j) # e /\ At(src, u, j + 1) # dst
               /\ j # 0 => At(src, u, j) # src /\ At(src, u, j + 1) # h
               /\ j # Len(u) => At(src, u, j) # z /\ At(src, u, j + 1) # src
    <3>1. At(src, u, j) # dst /\ At(src, u, j) # e /\ At(src, u, j + 1) # dst
      BY <2>3, <2>5, <2>6, <2>7
    <3>2. j # 0 => At(src, u, j) # At(src, u, 0) /\ At(src, u, j + 1) # At(src, u, 0 + 1)
      BY <2>4, <2>5
    <3>3. j # Len(u) => At(src, u, j) # At(src, u, Len(u)) /\ At(src, u, j + 1) # At(src, u, Len(u) + 1)
      BY <2>4, <2>5
    <3> QED BY <2>6, <2>7, <3>1, <3>2, <3>3
  <2>10. /\ e \in LinkNodes /\ h \in LinkNodes /\ z \in LinkNodes /\ e # src /\ z # src /\ h # src
         /\ z # e /\ h # dst
    BY <2>1, <2>2, <2>5, <2>6, <2>7, <2>8, <2>9
  <2> QED BY <2>1, <2>2, <2>8, <2>9, <2>10
<1>20. /\ nx2[e] = h /\ pv2[h] = e /\ nx2[z] = dst /\ pv2[dst] = z
       /\ nx2[src] = src /\ pv2[src] = src
  BY <1>1, <1>4 DEF Joins
<1>5. \A m \in Lists : nx2[m] = Nil <=> nx[m] = Nil
  <2>1. \A m \in Lists : m \in LinkNodes
    BY DEF LinkNodes
  <2>2. nx[z] # Nil /\ nx[e] # Nil
    <3>1. nx[At(src, u, Len(u))] = At(src, u, Len(u) + 1) /\ At(src, u, Len(u) + 1) \in LinkNodes
      BY <1>1, <1>4
    <3>2. nx[At(dst, s, Len(s))] = At(dst, s, Len(s) + 1) /\ At(dst, s, Len(s) + 1) \in LinkNodes
      BY <1>1, <1>4
    <3> QED BY <1>1, <3>1, <3>2
  <2>3. nx2[src] # Nil /\ nx2[z] # Nil /\ nx2[e] # Nil
    BY <1>1, <1>4, <1>20
  <2> QED BY <1>0, <2>1, <2>2, <2>3
<1>6. ASSUME NEW m \in Lists \ {dst, src}, nx[m] # Nil, NEW j \in 0..Len(q[m])
      PROVE  /\ nx2[At(m, q[m], j)] = At(m, q[m], j + 1)
             /\ pv2[At(m, q[m], j + 1)] = At(m, q[m], j)
  <2>1. /\ At(m, q[m], j) \in LinkNodes /\ At(m, q[m], j + 1) \in LinkNodes
        /\ nx[At(m, q[m], j)] = At(m, q[m], j + 1) /\ pv[At(m, q[m], j + 1)] = At(m, q[m], j)
    BY <1>6, Steps
  <2>2. \A k \in 0..Len(s) : At(m, q[m], j) # At(dst, s, k) /\ At(m, q[m], j + 1) # At(dst, s, k + 1)
    BY <1>6, Steps, PlacesDiffer
  <2>3. \A k \in 0..Len(u) : At(m, q[m], j) # At(src, u, k) /\ At(m, q[m], j + 1) # At(src, u, k + 1)
    BY <1>6, Steps, PlacesDiffer
  <2>4. At(dst, s, Len(s) + 1) = dst /\ At(src, u, 0) = src /\ At(src, u, Len(u) + 1) = src
    BY Steps
  <2>5. Len(s) \in 0..Len(s) /\ Len(u) \in 0..Len(u) /\ 0 \in 0..Len(u) /\ 0 + 1 = 1
    BY <1>1
  <2>6. At(m, q[m], j) # e /\ At(m, q[m], j + 1) # dst
    BY <2>2, <2>4, <2>5
  <2>7. At(m, q[m], j) # src /\ At(m, q[m], j) # z /\ At(m, q[m], j + 1) # h /\ At(m, q[m], j + 1) # src
    BY <2>3, <2>4, <2>5
  <2> QED BY <1>0, <2>1, <2>6, <2>7
<1>7. ASSUME NEW j \in 0..Len(t)
      PROVE  nx2[At(dst, t, j)] = At(dst, t, j + 1) /\ pv2[At(dst, t, j + 1)] = At(dst, t, j)
  <2>1. j \in Nat /\ j <= Len(t) /\ Len(t) = Len(s) + Len(u)
    BY <1>1, <1>2 DEF Appended
  <2>2. At(dst, t, Len(t) + 1) = dst
    <3>1. Len(t) + 1 \notin 1..Len(t)
      BY <1>1, <2>1
    <3> QED BY <3>1 DEF At
  <2>4. CASE j < Len(s)
    <3>1. j \in 0..Len(s) /\ j + 1 \in 0..Len(s) /\ j # Len(s)
      BY <1>1, <2>1, <2>4
    <3>2. At(dst, t, j) = At(dst, s, j) /\ At(dst, t, j + 1) = At(dst, s, j + 1)
      BY <1>2, <3>1 DEF Appended
    <3>3. nx2[At(dst, s, j)] = At(dst, s, j + 1) /\ pv2[At(dst, s, j + 1)] = At(dst, s, j)
      <4>1. /\ At(dst, s, j) \in LinkNodes /\ At(dst, s, j + 1) \in LinkNodes
            /\ nx[At(dst, s, j)] = At(dst, s, j + 1) /\ pv[At(dst, s, j + 1)] = At(dst, s, j)
            /\ At(dst, s, j) # src /\ At(dst, s, j) # z /\ At(dst, s, j + 1) # src /\ At(dst, s, j + 1) # h
            /\ At(dst, s, j) # e /\ At(dst, s, j + 1) # dst
        BY <1>4, <3>1
      <4> QED BY <1>0, <4>1
    <3> QED BY <3>2, <3>3
  <2>5. CASE j = Len(s)
    <3>1. Len(s) \in 0..Len(s) /\ 1 \in 1..Len(u)
      BY <1>1
    <3>2. At(dst, t, j) = e
      BY <1>2, <2>5, <3>1 DEF Appended
    <3>3. At(dst, t, j + 1) = h
      BY <1>2, <2>5, <3>1 DEF Appended
    <3> QED BY <1>20, <3>2, <3>3
  <2>6. CASE j > Len(s) /\ j < Len(t)
    <3> PICK k : k = j - Len(s)
      OBVIOUS
    <3>0. k \in Int /\ k > 0 /\ k < Len(u) /\ Len(s) + k = j
      BY <1>1, <2>1, <2>6
    <3>1. /\ k \in 1..Len(u) /\ k + 1 \in 1..Len(u) /\ k \in 0..Len(u) /\ k # Len(u) /\ k # 0
          /\ Len(s) + k = j /\ Len(s) + (k + 1) = j + 1
      BY <1>1, <2>1, <3>0
    <3>2. At(dst, t, j) = At(src, u, k) /\ At(dst, t, j + 1) = At(src, u, k + 1)
      BY <1>2, <3>1 DEF Appended
    <3>3. nx2[At(src, u, k)] = At(src, u, k + 1) /\ pv2[At(src, u, k + 1)] = At(src, u, k)
      <4>1. /\ At(src, u, k) \in LinkNodes /\ At(src, u, k + 1) \in LinkNodes
            /\ nx[At(src, u, k)] = At(src, u, k + 1) /\ pv[At(src, u, k + 1)] = At(src, u, k)
            /\ At(src, u, k) # e /\ At(src, u, k + 1) # dst
            /\ At(src, u, k) # src /\ At(src, u, k + 1) # h
            /\ At(src, u, k) # z /\ At(src, u, k + 1) # src
        BY <1>4, <3>1
      <4> QED BY <1>0, <4>1
    <3> QED BY <3>2, <3>3
  <2>7. CASE j = Len(t)
    <3>1. Len(u) \in 1..Len(u) /\ Len(s) + Len(u) = j
      BY <1>1, <2>1, <2>7
    <3>2. At(dst, t, j) = z
      BY <1>2, <3>1 DEF Appended
    <3> QED BY <1>20, <2>2, <2>7, <3>2
  <2>8. j < Len(s) \/ j = Len(s) \/ (j > Len(s) /\ j < Len(t)) \/ j = Len(t)
    <3>1. \A f, g, k \in Nat : k <= f + g => k < f \/ k = f \/ (k > f /\ k < f + g) \/ k = f + g
      OBVIOUS
    <3>2. j \in Nat /\ j <= Len(s) + Len(u) /\ Len(s) \in Nat /\ Len(u) \in Nat
      BY <1>1, <2>1
    <3> QED BY <2>1, <3>1, <3>2
  <2> QED BY <2>4, <2>5, <2>6, <2>7, <2>8
<1>8. nx2[At(src, <<>>, 0)] = At(src, <<>>, 0 + 1) /\ pv2[At(src, <<>>, 0 + 1)] = At(src, <<>>, 0)
  <2>1. 0 \notin 1..0 /\ 0 + 1 \notin 1..0 /\ Len(<<>>) = 0
    OBVIOUS
  <2>2. At(src, <<>>, 0) = src /\ At(src, <<>>, 0 + 1) = src
    BY <2>1 DEF At
  <2> QED BY <1>20, <2>2
<1>9. \A m \in Lists : nx2[m] # Nil =>
          \A j \in 0..Len(r[m]) : /\ nx2[At(m, r[m], j)] = At(m, r[m], j + 1)
                                  /\ pv2[At(m, r[m], j + 1)] = At(m, r[m], j)
  <2> SUFFICES ASSUME NEW m \in Lists, nx2[m] # Nil, NEW j \in 0..Len(r[m])
               PROVE  /\ nx2[At(m, r[m], j)] = At(m, r[m], j + 1)
                      /\ pv2[At(m, r[m], j + 1)] = At(m, r[m], j)
    OBVIOUS
  <2>1. CASE m = dst
    <3>1. r[m] = t /\ j \in 0..Len(t)
      BY <1>3, <2>1
    <3> QED BY <1>7, <2>1, <3>1
  <2>2. CASE m = src
    <3>1. r[m] = <<>> /\ j = 0
      BY <1>3, <2>2
    <3> QED BY <1>8, <2>2, <3>1
  <2>3. CASE m \notin {dst, src}
    <3>1. r[m] = q[m] /\ nx[m] # Nil /\ j \in 0..Len(q[m]) /\ m \in Lists \ {dst, src}
      BY <1>3, <1>5, <2>3
    <3> QED BY <1>6, <3>1
  <2> QED BY <2>1, <2>2, <2>3
<1>10. \A m \in Lists : nx2[m] = Nil => pv2[m] = Nil /\ r[m] = <<>>
  <2>1. \A m \in Lists : m \in LinkNodes /\ (nx[m] = Nil => pv[m] = Nil /\ q[m] = <<>>)
    BY DEF Holds, LinkNodes
  <2>2. \A m \in Lists : nx[m] = Nil => m # h
    <3>1. 0 \in 0..Len(q[src]) /\ 0 + 1 = 1
      BY <1>1
    <3> QED BY <3>1, Steps
  <2>4. nx2[dst] # Nil /\ nx2[src] # Nil
    BY <1>5
  <2>3. \A m \in Lists : nx2[m] = Nil => m \notin {dst, src} /\ pv2[m] = pv[m]
    BY <1>0, <1>5, <1>20, <2>1, <2>2, <2>4
  <2> QED BY <1>3, <1>5, <2>1, <2>3
<1>11. ASSUME NEW p \in Objects, nx2[p] # Nil \/ pv2[p] # Nil
       PROVE  \E m \in Lists : \E j \in 1..Len(r[m]) : p = r[m][j]
  <2>1. p \in LinkNodes /\ p # src /\ p # dst
    BY DEF NodesApart, LinkNodes
  <2>2. nx[p] # Nil \/ pv[p] # Nil
    <3>1. nx[z] # Nil /\ nx[e] # Nil /\ pv[h] # Nil
      <4>1. nx[At(src, u, Len(u))] = At(src, u, Len(u) + 1) /\ At(src, u, Len(u) + 1) \in LinkNodes
        BY <1>1, <1>4
      <4>2. nx[At(dst, s, Len(s))] = At(dst, s, Len(s) + 1) /\ At(dst, s, Len(s) + 1) \in LinkNodes
        BY <1>1, <1>4
      <4>3. pv[At(src, u, 0 + 1)] = At(src, u, 0) /\ At(src, u, 0) \in LinkNodes
        BY <1>1, <1>4
      <4> QED BY <1>1, <4>1, <4>2, <4>3
    <3> QED BY <1>0, <1>11, <2>1, <3>1
  <2>3. PICK m \in Lists : \E j \in 1..Len(q[m]) : p = q[m][j]
    BY <2>2 DEF Holds
  <2>4. PICK j \in 1..Len(q[m]) : p = q[m][j]
    BY <2>3
  <2>5. CASE m \notin {dst, src}
    BY <1>3, <2>4, <2>5
  <2>6. CASE m = dst
    <3>1. j \in 1..Len(t) /\ t[j] = p
      BY <1>1, <1>2, <2>4, <2>6 DEF Appended
    <3> QED BY <1>3, <3>1
  <2>7. CASE m = src
    <3>1. Len(s) + j \in 1..Len(t) /\ t[Len(s) + j] = p
      BY <1>1, <1>2, <2>4, <2>7 DEF Appended
    <3> QED BY <1>3, <3>1
  <2> QED BY <2>5, <2>6, <2>7
<1>12. ASSUME NEW m \in Lists, NEW k \in Lists, NEW f \in 1..Len(r[m]), NEW g \in 1..Len(r[k]),
              r[m][f] = r[k][g]
       PROVE  m = k /\ f = g
  <2>1. ASSUME NEW x \in Lists, NEW j \in 1..Len(r[x])
        PROVE  \E y \in Lists : \E i \in 1..Len(q[y]) :
                  /\ r[x][j] = q[y][i]
                  /\ \/ y = src /\ x = dst /\ j = Len(s) + i
                     \/ y # src /\ x = y /\ j = i
    <3>1. CASE x = dst
      <4>1. j \in 1..Len(t) /\ r[x][j] = t[j] /\ j \in Nat
        BY <1>3, <3>1
      <4>2. CASE j \in 1..Len(s) /\ t[j] = s[j]
        BY <3>1, <4>1, <4>2
      <4>3. CASE j - Len(s) \in 1..Len(u) /\ t[j] = u[j - Len(s)]
        <5>1. j = Len(s) + (j - Len(s))
          BY <1>1, <4>1
        <5> QED BY <3>1, <4>1, <4>3, <5>1
      <4> QED BY <1>2, <4>1, <4>2, <4>3 DEF Appended
    <3>2. CASE x = src
      BY <1>3, <3>2
    <3>3. CASE x \notin {dst, src}
      BY <1>3, <3>3
    <3> QED BY <3>1, <3>2, <3>3
  <2>2. PICK y \in Lists : \E i \in 1..Len(q[y]) :
                  /\ r[m][f] = q[y][i]
                  /\ \/ y = src /\ m = dst /\ f = Len(s) + i
                     \/ y # src /\ m = y /\ f = i
    BY <2>1
  <2>3. PICK i \in 1..Len(q[y]) :
                  /\ r[m][f] = q[y][i]
                  /\ \/ y = src /\ m = dst /\ f = Len(s) + i
                     \/ y # src /\ m = y /\ f = i
    BY <2>2
  <2>4. PICK x \in Lists : \E j \in 1..Len(q[x]) :
                  /\ r[k][g] = q[x][j]
                  /\ \/ x = src /\ k = dst /\ g = Len(s) + j
                     \/ x # src /\ k = x /\ g = j
    BY <2>1
  <2>5. PICK j \in 1..Len(q[x]) :
                  /\ r[k][g] = q[x][j]
                  /\ \/ x = src /\ k = dst /\ g = Len(s) + j
                     \/ x # src /\ k = x /\ g = j
    BY <2>4
  <2>6. x = y /\ i = j
    <3>1. q[y][i] = q[x][j]
      BY <1>12, <2>3, <2>5
    <3> QED BY <3>1 DEF Holds
  <2> QED BY <2>3, <2>5, <2>6
<1>13. Holds(nx2, pv2, r)
  BY <1>0, <1>3, <1>9, <1>10, <1>11, <1>12 DEF Holds
<1> QED BY <1>13

-----------------------------------------------------------------------------
(* The sequences as Along reads them.                                       *)

\* A nonempty set of numbers has a least one.
LEMMA Least ==
    ASSUME NEW S \in SUBSET Nat, S # {}
    PROVE  \E m \in S : \A k \in S : m <= k
<1>1. PICK m \in S : \A k \in S : ~(<<k, m>> \in OpToRel(<, Nat))
  BY WFMin, NatLessThanWellFounded
<1>2. \A k \in S : ~(k < m)
  BY <1>1 DEF OpToRel
<1> QED BY <1>2

\* What Along defines as it goes, k nodes far.
Turn(link, m, f) ==
    [k \in 0..m |-> [n \in LinkNodes \cup {Nil} |->
        IF n \in Objects /\ k > 0 THEN <<n>> \o f[k - 1][link[n]] ELSE <<>>]]

\* There is such a function.
LEMMA TurnsExist ==
    ASSUME NEW link, NEW m \in Nat
    PROVE  \E f : f = Turn(link, m, f)
<1> DEFINE Bad == {b \in Nat : ~\E f : f = Turn(link, b, f)}
<1> SUFFICES ASSUME m \in Bad
             PROVE  FALSE
  OBVIOUS
<1>1. Bad \in SUBSET Nat /\ Bad # {}
  OBVIOUS
<1> HIDE DEF Bad
<1>2. PICK b \in Bad : \A k \in Bad : b <= k
  BY <1>1, Least
<1>3. b \in Nat
  BY <1>1
<1>4. CASE b = 0
  <2> DEFINE f == [k \in 0..0 |-> [n \in LinkNodes \cup {Nil} |-> <<>>]]
  <2>1. \A k \in 0..0 : ~(k > 0)
    OBVIOUS
  <2>2. f = Turn(link, 0, f)
    BY <2>1, Zenon DEF Turn
  <2> QED BY <1>4, <2>2 DEF Bad
<1>5. CASE b # 0
  <2>1. b - 1 \in Nat /\ b - 1 \notin Bad
    BY <1>2, <1>3, <1>5
  <2>2. PICK f : f = Turn(link, b - 1, f)
    BY <2>1 DEF Bad
  <2> DEFINE Row(k, g) == [n \in LinkNodes \cup {Nil} |->
                 IF n \in Objects /\ k > 0 THEN <<n>> \o g[k - 1][link[n]] ELSE <<>>]
             h == [k \in 0..b |-> IF k = b THEN Row(k, f) ELSE f[k]]
  <2>3. \A k \in 0..(b - 1) : f[k] = Row(k, f)
    BY <2>2, Zenon DEF Turn
  <2>4. \A k \in 0..b : k = b \/ k \in 0..(b - 1)
    BY <1>3
  <2>5. \A k \in 0..b : k > 0 => k - 1 \in 0..b /\ k - 1 # b /\ k - 1 \in 0..(b - 1)
    BY <1>3
  <2>6. \A k \in 0..b : k > 0 => h[k - 1] = f[k - 1]
    BY <2>5, Zenon
  <2>7. \A k \in 0..b : Row(k, h) = Row(k, f)
    <3> HIDE DEF h
    <3> QED BY <2>6, Zenon
  <2>8. \A k \in 0..b : h[k] = Row(k, f)
    <3> HIDE DEF Row
    <3> QED BY <2>3, <2>4, Zenon
  <2>9. h = [k \in 0..b |-> h[k]]
    BY Zenon
  <2>10. [k \in 0..b |-> h[k]] = [k \in 0..b |-> Row(k, h)]
    <3> HIDE DEF h, Row
    <3> QED BY <2>7, <2>8, Zenon
  <2>11. h = Turn(link, b, h)
    <3> HIDE DEF h
    <3> QED BY <2>9, <2>10, Zenon DEF Turn
  <2> HIDE DEF h
  <2> QED BY <2>11 DEF Bad
<1> QED BY <1>4, <1>5

\* Its value for one node.
LEMMA TurnRow ==
    ASSUME NEW link, NEW m, NEW f, NEW d \in 0..m, NEW n \in LinkNodes
    PROVE  Turn(link, m, f)[d][n] = IF n \in Objects /\ d > 0 THEN <<n>> \o f[d - 1][link[n]] ELSE <<>>
BY Zenon DEF Turn

\* A sequence from place j on begins with what is there.
LEMMA Headed ==
    ASSUME NEW s \in Seq(Objects), NEW j \in 1..Len(s)
    PROVE  <<s[j]>> \o SubSeq(s, j + 1, Len(s)) = SubSeq(s, j, Len(s))
<1> PICK a, b, c : a = <<s[j]>> /\ b = SubSeq(s, j + 1, Len(s)) /\ c = SubSeq(s, j, Len(s))
  OBVIOUS
<1>1. /\ a \in Seq(Objects) /\ Len(a) = 1 /\ a[1] = s[j]
      /\ b \in Seq(Objects) /\ Len(b) = Len(s) - j /\ \A k \in 1..(Len(s) - j) : b[k] = s[j + k]
      /\ c \in Seq(Objects) /\ Len(c) = Len(s) - j + 1 /\ \A k \in 1..(Len(s) - j + 1) : c[k] = s[j + k - 1]
      /\ Len(s) \in Nat
  OBVIOUS
<1>2. /\ a \o b \in Seq(Objects) /\ Len(a \o b) = Len(a) + Len(b)
      /\ \A k \in 1..Len(a) : (a \o b)[k] = a[k]
      /\ \A k \in 1..Len(a \o b) : k > Len(a) => (a \o b)[k] = b[k - Len(a)]
  BY <1>1, Joined, Zenon
<1> PICK d : d = a \o b
  OBVIOUS
<1>3. d \in Seq(Objects) /\ Len(d) = Len(c)
  BY <1>1, <1>2
<1>4. ASSUME NEW k \in 1..Len(d)
      PROVE  d[k] = c[k]
  <2>1. k \in Nat /\ k >= 1 /\ k <= Len(s) - j + 1 /\ j \in Nat /\ j <= Len(s)
    BY <1>1, <1>3
  <2>2. CASE k = 1
    BY <1>1, <1>2, <2>1, <2>2
  <2>3. CASE k # 1
    <3>1. k > Len(a) /\ k - Len(a) = k - 1
      BY <1>1, <2>1, <2>3
    <3>2. k - 1 \in 1..(Len(s) - j) /\ j + (k - 1) = j + k - 1 /\ k \in 1..(Len(s) - j + 1)
      BY <1>1, <2>1, <2>3
    <3>3. d[k] = b[k - 1]
      BY <1>2, <3>1
    <3> QED BY <1>1, <3>2, <3>3
  <2> QED BY <2>2, <2>3
<1>6. d = c
  BY <1>1, <1>3, <1>4, SameSeq
<1> QED BY <1>6

\* The links of list l lead from place to place of s.
Chain(link, l, s) == \A i \in 0..Len(s) : link[At(l, s, i)] = At(l, s, i + 1)

\* From a place on, enough turns read the rest of s.
Reads(l, s, m, f) ==
    \A k \in 0..m, i \in 1..(Len(s) + 1) :
        k >= Len(s) + 1 - i => f[k][At(l, s, i)] = SubSeq(s, i, Len(s))

\* The links of a list lead through its sequence, as far as they are followed.
LEMMA TurnFollows ==
    ASSUME NodesApart, NEW link, NEW l \in Lists, NEW s \in Seq(Objects),
           Chain(link, l, s),
           NEW m \in Nat, NEW f, f = Turn(link, m, f)
    PROVE  Reads(l, s, m, f)
<1> SUFFICES ASSUME NEW k \in 0..m, NEW i \in 1..(Len(s) + 1), k >= Len(s) + 1 - i
             PROVE  f[k][At(l, s, i)] = SubSeq(s, i, Len(s))
  BY DEF Reads
<1> DEFINE Good(d) == \A j \in 1..(Len(s) + 1) :
                          d >= Len(s) + 1 - j => f[d][At(l, s, j)] = SubSeq(s, j, Len(s))
           Bad == {d \in 0..m : ~Good(d)}
<1>1. Len(s) \in Nat /\ \A j \in 1..Len(s) : s[j] \in Objects
  OBVIOUS
<1>2. At(l, s, Len(s) + 1) = l /\ l \notin Objects /\ l \in LinkNodes
  BY <1>1 DEF At, NodesApart, LinkNodes
<1>3. \A d \in 0..m, n \in LinkNodes :
          f[d][n] = IF n \in Objects /\ d > 0 THEN <<n>> \o f[d - 1][link[n]] ELSE <<>>
  <2> SUFFICES ASSUME NEW d \in 0..m, NEW n \in LinkNodes
               PROVE  f[d][n] = IF n \in Objects /\ d > 0 THEN <<n>> \o f[d - 1][link[n]] ELSE <<>>
    OBVIOUS
  <2> PICK g : g = Turn(link, m, f)
    OBVIOUS
  <2>1. g[d][n] = IF n \in Objects /\ d > 0 THEN <<n>> \o f[d - 1][link[n]] ELSE <<>>
    BY TurnRow
  <2>2. g = f
    OBVIOUS
  <2> QED BY <2>1, <2>2
<1>4. \A d \in 0..m : f[d][At(l, s, Len(s) + 1)] = SubSeq(s, Len(s) + 1, Len(s))
  <2>1. SubSeq(s, Len(s) + 1, Len(s)) = <<>>
    BY <1>1
  <2> QED BY <1>2, <1>3, <2>1
<1>5. ASSUME NEW d \in 0..m, d > 0, Good(d - 1)
      PROVE  Good(d)
  <2> SUFFICES ASSUME NEW j \in 1..(Len(s) + 1), d >= Len(s) + 1 - j
               PROVE  f[d][At(l, s, j)] = SubSeq(s, j, Len(s))
    OBVIOUS
  <2>1. CASE j = Len(s) + 1
    BY <1>4, <2>1
  <2>2. CASE j # Len(s) + 1
    <3>1. j \in Nat /\ j \in 1..Len(s) /\ j \in 0..Len(s) /\ j + 1 \in 1..(Len(s) + 1) /\ d - 1 >= Len(s) + 1 - (j + 1)
      BY <1>1, <2>2
    <3>2. At(l, s, j) = s[j] /\ s[j] \in Objects /\ s[j] \in LinkNodes
      BY <1>1, <3>1 DEF At, LinkNodes
    <3>3. link[s[j]] = At(l, s, j + 1)
      BY <3>1, <3>2 DEF Chain
    <3>4. f[d - 1][At(l, s, j + 1)] = SubSeq(s, j + 1, Len(s))
      BY <1>5, <3>1
    <3>5. f[d][s[j]] = <<s[j]>> \o SubSeq(s, j + 1, Len(s))
      BY <1>3, <1>5, <3>2, <3>3, <3>4
    <3>6. <<s[j]>> \o SubSeq(s, j + 1, Len(s)) = SubSeq(s, j, Len(s))
      BY <3>1, Headed
    <3> QED BY <3>2, <3>5, <3>6
  <2> QED BY <2>1, <2>2
<1>6. Good(0)
  <2>1. \A j \in 1..(Len(s) + 1) : 0 >= Len(s) + 1 - j => j = Len(s) + 1
    <3>1. \A g \in Nat : \A j \in 1..(g + 1) : 0 >= g + 1 - j => j = g + 1
      OBVIOUS
    <3> QED BY <1>1, <3>1
  <2>2. 0 \in 0..m
    OBVIOUS
  <2> QED BY <1>4, <2>1, <2>2
<1>7. Good(k)
  <2> HIDE DEF Good
  <2> SUFFICES ASSUME Bad # {}
               PROVE  FALSE
    OBVIOUS
  <2>1. Bad \in SUBSET Nat
    OBVIOUS
  <2> HIDE DEF Bad
  <2>2. PICK d \in Bad : \A c \in Bad : d <= c
    BY <2>1, Least
  <2>3. d \in 0..m /\ ~Good(d)
    BY DEF Bad
  <2>4. d > 0 /\ d - 1 \in 0..m /\ d - 1 \notin Bad
    BY <1>6, <2>2, <2>3
  <2>5. Good(d - 1)
    BY <2>4 DEF Bad
  <2> QED BY <1>5, <2>3, <2>4, <2>5
<1> QED BY <1>7

\* What is met along the links of a list is its sequence.
LEMMA AlongHolds ==
    ASSUME NodesApart, IsFiniteSet(Objects), NEW link, NEW l \in Lists, NEW s \in Seq(Objects),
           \A i, j \in 1..Len(s) : s[i] = s[j] => i = j,
           Chain(link, l, s)
    PROVE  Along(link, l) = s
<1> DEFINE N == Cardinality(Objects)
           from == CHOOSE f : f = Turn(link, N, f)
<1>1. N \in Nat
  BY FS_CardinalityType
<1>0. Len(s) \in Nat
  OBVIOUS
<1>2. Len(s) \in Nat /\ Len(s) <= N
  <2>1. s \in Injection(1..Len(s), Objects)
    <3>1. s \in [1..Len(s) -> Objects]
      OBVIOUS
    <3> QED BY <3>1 DEF Injection, IsInjective
  <2>2. Cardinality(1..Len(s)) <= N
    BY <2>1, FS_Injection
  <2>3. Cardinality(1..Len(s)) = Len(s)
    <3>1. 1 > Len(s) => Len(s) = 0
      BY <1>0
    <3>2. Len(s) - 1 + 1 = Len(s)
      BY <1>0
    <3> QED BY <1>0, <3>1, <3>2, FS_Interval
  <2> QED BY <1>0, <2>2, <2>3
<1>3. Along(link, l) = from[N][link[l]]
  BY Zenon DEF Along, Turn
<1>4. from = Turn(link, N, from)
  <2>1. \E f : f = Turn(link, N, f)
    BY <1>1, TurnsExist
  <2> QED BY <2>1, Zenon
<1>5. link[l] = At(l, s, 1)
  <2>1. 0 \in 0..Len(s) /\ 0 + 1 = 1 /\ 0 \notin 1..Len(s)
    BY <1>2
  <2>2. At(l, s, 0) = l
    BY <2>1 DEF At
  <2> QED BY <2>1, <2>2 DEF Chain
<1>6. from[N][At(l, s, 1)] = SubSeq(s, 1, Len(s))
  <2> HIDE DEF from, N
  <2>1. N \in 0..N /\ 1 \in 1..(Len(s) + 1) /\ N >= Len(s) + 1 - 1
    BY <1>1, <1>2
  <2>2. Reads(l, s, N, from)
    BY <1>1, <1>4, TurnFollows
  <2> QED BY <2>1, <2>2 DEF Reads
<1>7. SubSeq(s, 1, Len(s)) = s
  OBVIOUS
<1> QED BY <1>3, <1>5, <1>6, <1>7

\* A list that exists is a chain both ways.
LEMMA BothChains ==
    ASSUME NodesApart, NEW nx, NEW pv, NEW q, Holds(nx, pv, q), NEW l \in Lists, nx[l] # Nil
    PROVE  /\ Chain(nx, l, q[l]) /\ Chain(pv, l, Reverse(q[l]))
           /\ q[l] \in Seq(Objects) /\ \A i, j \in 1..Len(q[l]) : q[l][i] = q[l][j] => i = j
           /\ Reverse(q[l]) \in Seq(Objects)
           /\ \A i, j \in 1..Len(Reverse(q[l])) : Reverse(q[l])[i] = Reverse(q[l])[j] => i = j
<1> PICK s, t : s = q[l] /\ t = Reverse(s)
  OBVIOUS
<1>1. s \in Seq(Objects) /\ Len(s) \in Nat /\ \A i, j \in 1..Len(s) : s[i] = s[j] => i = j
  BY PlacesDiffer DEF Holds
<1>2. \A i \in 1..Len(s) : Len(s) - i + 1 \in 1..Len(s)
  BY <1>1
<1>3. t = [i \in 1..Len(s) |-> s[Len(s) - i + 1]]
  BY DEF Reverse
<1>4. t \in Seq(Objects) /\ Len(t) = Len(s) /\ \A i \in 1..Len(s) : t[i] = s[Len(s) - i + 1]
  <2>1. t \in [1..Len(s) -> Objects]
    BY <1>1, <1>2, <1>3
  <2> QED BY <1>1, <1>3, <2>1
<1>5. ASSUME NEW i \in 1..Len(s), NEW j \in 1..Len(s), t[i] = t[j]
      PROVE  i = j
  <2> PICK g, h : g = Len(s) - i + 1 /\ h = Len(s) - j + 1
    OBVIOUS
  <2>2. g \in 1..Len(s) /\ h \in 1..Len(s) /\ s[g] = s[h]
    BY <1>2, <1>4, <1>5
  <2>1. g = h
    BY <1>1, <2>2
  <2> QED BY <1>1, <2>1
<1>6. \A i \in 0..(Len(s) + 1) : At(l, t, i) = At(l, s, Len(s) - i + 1)
  <2> SUFFICES ASSUME NEW i \in 0..(Len(s) + 1)
               PROVE  At(l, t, i) = At(l, s, Len(s) - i + 1)
    OBVIOUS
  <2>1. CASE i \in 1..Len(s)
    BY <1>2, <1>4, <2>1 DEF At
  <2>2. CASE i \notin 1..Len(s)
    <3>1. Len(s) - i + 1 \notin 1..Len(s)
      BY <1>1, <2>2
    <3> QED BY <1>4, <2>2, <3>1 DEF At
  <2> QED BY <2>1, <2>2
<1>7. ASSUME NEW i \in 0..Len(t)
      PROVE  pv[At(l, t, i)] = At(l, t, i + 1)
  <2>1. /\ i \in 0..(Len(s) + 1) /\ i + 1 \in 0..(Len(s) + 1)
        /\ Len(s) - i \in 0..Len(s) /\ Len(s) - (i + 1) + 1 = Len(s) - i
    BY <1>1, <1>4
  <2>2. pv[At(l, s, Len(s) - i + 1)] = At(l, s, Len(s) - i)
    BY <2>1, Steps
  <2> QED BY <1>6, <2>1, <2>2
<1>8. Chain(nx, l, s)
  BY Steps DEF Chain
<1> QED BY <1>1, <1>4, <1>5, <1>7, <1>8 DEF Chain

\* So Along reads the sequence of a list forwards, and its reverse backwards.
LEMMA ContentsAre ==
    ASSUME NodesApart, IsFiniteSet(Objects), NEW nx, NEW pv, NEW q, Holds(nx, pv, q),
           NEW l \in Lists, nx[l] # Nil
    PROVE  Along(nx, l) = q[l] /\ Along(pv, l) = Reverse(q[l])
<1>1. Along(nx, l) = q[l]
  BY BothChains, AlongHolds
<1>2. Along(pv, l) = Reverse(q[l])
  BY BothChains, AlongHolds
<1> QED BY <1>1, <1>2

\* Rings that hold sequences can be read both ways.
LEMMA BothWaysFollows ==
    ASSUME NodesApart, IsFiniteSet(Objects), NEW q, Holds(next, prev, q)
    PROVE  BothWays
<1>1. Nil \notin LinkNodes
  BY DEF NodesApart
<1>2. ASSUME NEW n \in LinkNodes
      PROVE  next[n] = Nil <=> prev[n] = Nil
  <2>1. CASE n \in Lists
    <3>1. next[n] = Nil => prev[n] = Nil
      BY <2>1 DEF Holds
    <3>2. ASSUME next[n] # Nil
          PROVE  prev[n] # Nil
      <4>1. Len(q[n]) \in 0..Len(q[n])
        BY <2>1, PlacesDiffer
      <4>2. At(n, q[n], Len(q[n])) \in LinkNodes /\ prev[n] = At(n, q[n], Len(q[n]))
        BY <2>1, <3>2, <4>1, Steps
      <4> QED BY <1>1, <4>2
    <3> QED BY <3>1, <3>2
  <2>2. CASE n \in Objects
    <3>1. ASSUME NEW l \in Lists, NEW i \in 1..Len(q[l]), n = q[l][i]
          PROVE  next[n] # Nil /\ prev[n] # Nil
      <4>1. next[l] # Nil
        BY <3>1 DEF Holds
      <4>2. i \in 0..Len(q[l]) /\ i - 1 \in 0..Len(q[l]) /\ (i - 1) + 1 = i /\ n = At(l, q[l], i)
        BY <3>1, PlacesDiffer DEF At
      <4>3. /\ At(l, q[l], i + 1) \in LinkNodes /\ At(l, q[l], i - 1) \in LinkNodes
            /\ next[n] = At(l, q[l], i + 1) /\ prev[n] = At(l, q[l], i - 1)
        BY <4>1, <4>2, Steps
      <4> QED BY <1>1, <4>3
    <3>2. next[n] # Nil \/ prev[n] # Nil => \E l \in Lists : \E i \in 1..Len(q[l]) : n = q[l][i]
      BY <2>2 DEF Holds
    <3> QED BY <3>1, <3>2
  <2> QED BY <2>1, <2>2 DEF LinkNodes
<1>3. ASSUME NEW l \in Lists, Active(l)
      PROVE  Along(next, l) = q[l] /\ Along(prev, l) = Reverse(q[l])
  <2>1. next[l] # Nil
    BY <1>3 DEF Active
  <2> QED BY <2>1, ContentsAre
<1>4. ASSUME NEW o \in Objects
      PROVE  Cardinality({l \in Lists : Active(l) /\ o \in ToSet(Along(next, l))})
                 = IF Active(o) THEN 1 ELSE 0
  <2> DEFINE On == {l \in Lists : Active(l) /\ o \in ToSet(Along(next, l))}
  <2>1. \A l \in Lists : q[l] \in Seq(Objects) /\ Len(q[l]) \in Nat
    BY PlacesDiffer
  <2>2. \A l \in On : \E i \in 1..Len(q[l]) : o = q[l][i]
    BY <1>3, <2>1 DEF ToSet
  <2>3. CASE Active(o)
    <3>1. PICK l \in Lists : \E i \in 1..Len(q[l]) : o = q[l][i]
      BY <2>3 DEF Active, Holds
    <3>2. PICK i \in 1..Len(q[l]) : o = q[l][i]
      BY <3>1
    <3>3. Active(l)
      BY <3>2 DEF Active, Holds
    <3>4. l \in On
      BY <1>3, <2>1, <3>2, <3>3 DEF ToSet
    <3>5. \A m \in On : m = l
      BY <2>2, <3>2 DEF Holds
    <3>6. On = {l}
      BY <3>4, <3>5
    <3> HIDE DEF On
    <3>7. Cardinality(On) = 1
      BY <3>6, FS_Singleton
    <3> QED BY <2>3, <3>7 DEF On
  <2>4. CASE ~Active(o)
    <3>1. ASSUME NEW l \in On
          PROVE  FALSE
      <4>1. PICK i \in 1..Len(q[l]) : o = q[l][i]
        BY <2>2
      <4>2. i \in 0..Len(q[l]) /\ o = At(l, q[l], i) /\ next[l] # Nil
        BY <2>1, <4>1 DEF At, Active
      <4> QED BY <2>4, <4>2, Steps DEF Active
    <3>2. On = {}
      BY <3>1
    <3> HIDE DEF On
    <3>3. Cardinality(On) = 0
      BY <3>2, FS_EmptySet
    <3> QED BY <2>4, <3>3 DEF On
  <2> QED BY <2>3, <2>4
<1> QED BY <1>2, <1>3, <1>4 DEF BothWays

-----------------------------------------------------------------------------
(* What the operations do to the sequences.                                 *)

\* The lists that exist are the same after the step.
SameLists == \A l \in Lists : next'[l] # Nil <=> next[l] # Nil

\* Linking o in behind node n, or in front of it.
LEMMA LinkStep ==
    ASSUME NodesApart, NEW q, Holds(next, prev, q), NEW n \in LinkNodes, NEW o \in Objects,
           Active(n), LinkAfter(n, o) \/ LinkBefore(n, o)
    PROVE  /\ SameLists /\ next[o] = Nil
           /\ \E l \in Lists : next[l] # Nil /\ \E i \in 0..Len(q[l]) :
                 Holds(next', prev', [q EXCEPT ![l] = InsertAt(q[l], i + 1, o)])
<1>1. next[n] # Nil /\ next[o] = Nil /\ o \in LinkNodes /\ o \notin Lists /\ Nil \notin LinkNodes
  BY DEF Active, LinkAfter, LinkBefore, NodesApart, LinkNodes
<1>2. next \in [LinkNodes -> LinkNodes \cup {Nil}] /\ prev \in [LinkNodes -> LinkNodes \cup {Nil}]
  BY DEF Holds
<1>3. PICK l \in Lists : next[l] # Nil /\ \E k \in 0..Len(q[l]) : n = At(l, q[l], k)
  BY <1>1, PlaceOf
<1>4. PICK k \in 0..Len(q[l]) : n = At(l, q[l], k)
  BY <1>3
<1>5. Len(q[l]) \in Nat
  BY PlacesDiffer
<1>6. ASSUME NEW i \in 0..Len(q[l]), NEW a, a = At(l, q[l], i), NEW b, b = At(l, q[l], i + 1),
             next' = [next EXCEPT ![o] = b, ![a] = o], prev' = [prev EXCEPT ![o] = a, ![b] = o]
      PROVE  SameLists /\ Holds(next', prev', [q EXCEPT ![l] = InsertAt(q[l], i + 1, o)])
  <2>1. a \in LinkNodes /\ b \in LinkNodes /\ next[a] = b /\ o # a /\ o # b
    BY <1>1, <1>3, <1>6, Steps
  <2>2. Linked(next, prev, a, o, b, next', prev')
    BY <1>1, <1>2, <1>6, <2>1 DEF Linked
  <2>3. Holds(next', prev', [q EXCEPT ![l] = InsertAt(q[l], i + 1, o)])
    BY <1>1, <1>3, <1>6, <2>2, InsertHolds
  <2>4. SameLists
    <3>1. \A m \in Lists : m \in LinkNodes /\ m # o
      BY <1>1 DEF LinkNodes
    <3> QED BY <1>1, <1>2, <1>6, <2>1, <3>1 DEF SameLists
  <2> QED BY <2>3, <2>4
<1>7. CASE LinkAfter(n, o)
  <2>1. next[n] = At(l, q[l], k + 1)
    BY <1>3, <1>4, Steps
  <2>2. /\ next' = [next EXCEPT ![o] = next[n], ![n] = o]
        /\ prev' = [prev EXCEPT ![o] = n, ![next[n]] = o]
    BY <1>7 DEF LinkAfter
  <2>3. SameLists /\ Holds(next', prev', [q EXCEPT ![l] = InsertAt(q[l], k + 1, o)])
    BY <1>4, <1>6, <2>1, <2>2
  <2> QED BY <1>1, <1>3, <2>3
<1>8. CASE LinkBefore(n, o)
  <2>1. PICK i \in 0..Len(q[l]) : n = At(l, q[l], i + 1)
    <3>1. CASE k = 0
      <4>1. n = At(l, q[l], Len(q[l]) + 1) /\ Len(q[l]) \in 0..Len(q[l])
        BY <1>3, <1>4, <1>5, <3>1, Steps
      <4> QED BY <4>1
    <3>2. CASE k # 0
      <4>1. k - 1 \in 0..Len(q[l]) /\ (k - 1) + 1 = k
        BY <1>5, <3>2
      <4> QED BY <1>4, <4>1
    <3> QED BY <3>1, <3>2
  <2>2. prev[n] = At(l, q[l], i) /\ prev[n] # o /\ n # o /\ prev[n] \in LinkNodes
    BY <1>1, <1>3, <2>1, Steps
  <2>3. /\ next' = [next EXCEPT ![prev[n]] = o, ![o] = n]
        /\ prev' = [prev EXCEPT ![o] = prev[n], ![n] = o]
    BY <1>8 DEF LinkBefore
  <2>4. next' = [next EXCEPT ![o] = n, ![prev[n]] = o]
    BY <1>1, <1>2, <2>2, <2>3
  <2>5. SameLists /\ Holds(next', prev', [q EXCEPT ![l] = InsertAt(q[l], i + 1, o)])
    BY <1>6, <2>1, <2>2, <2>3, <2>4
  <2> QED BY <1>1, <1>3, <2>5
<1> QED BY <1>7, <1>8

\* Taking an object out.
LEMMA UnlinkStep ==
    ASSUME NodesApart, NEW q, Holds(next, prev, q), NEW n \in Objects, Active(n), RemoveNode(n)
    PROVE  /\ SameLists
           /\ \E l \in Lists : next[l] # Nil /\ \E i \in 1..Len(q[l]) :
                 Holds(next', prev', [q EXCEPT ![l] = RemoveAt(q[l], i)])
<1>1. next[n] # Nil /\ n \in LinkNodes /\ n \notin Lists /\ Nil \notin LinkNodes
  BY DEF Active, NodesApart, LinkNodes
<1>2. next \in [LinkNodes -> LinkNodes \cup {Nil}] /\ prev \in [LinkNodes -> LinkNodes \cup {Nil}]
  BY DEF Holds
<1>3. PICK l \in Lists : next[l] # Nil /\ \E k \in 0..Len(q[l]) : n = At(l, q[l], k)
  BY <1>1, PlaceOf
<1>4. PICK i \in 0..Len(q[l]) : n = At(l, q[l], i)
  BY <1>3
<1>5. Len(q[l]) \in Nat /\ i # 0 /\ i \in 1..Len(q[l]) /\ i - 1 \in 0..Len(q[l]) /\ (i - 1) + 1 = i /\ i - 1 # i
  <2>1. i # 0
    BY <1>1, <1>3, <1>4, Steps
  <2> QED BY <2>1, PlacesDiffer
<1> PICK a, c : a = At(l, q[l], i - 1) /\ c = At(l, q[l], i + 1)
  OBVIOUS
<1>6. /\ prev[n] = a /\ next[n] = c /\ next[a] = n /\ a \in LinkNodes /\ c \in LinkNodes
      /\ a # n /\ c # n
  <2>1. /\ prev[At(l, q[l], (i - 1) + 1)] = a /\ a \in LinkNodes /\ next[n] = c /\ c \in LinkNodes
        /\ next[a] = n
    BY <1>3, <1>4, <1>5, Steps
  <2>2. a # n
    BY <1>4, <1>5, PlacesDiffer
  <2>3. c # n
    <3>1. n = At(l, q[l], (i - 1) + 1)
      BY <1>4, <1>5
    <3> QED BY <1>3, <1>4, <1>5, <3>1, Steps
  <2> QED BY <1>4, <1>5, <2>1, <2>2, <2>3
<1>7. Unlinked(next, prev, a, n, c, next', prev')
  BY <1>1, <1>2, <1>6 DEF Unlinked, RemoveNode
<1>8. Holds(next', prev', [q EXCEPT ![l] = RemoveAt(q[l], i)])
  BY <1>3, <1>4, <1>5, <1>7, RemoveHolds
<1>9. SameLists
  <2>1. \A m \in Lists : m \in LinkNodes /\ m # n
    BY <1>1 DEF LinkNodes
  <2> QED BY <1>1, <1>2, <1>6, <2>1 DEF SameLists, RemoveNode
<1> QED BY <1>3, <1>5, <1>8, <1>9

\* Putting an object in the place of another one.
LEMMA ReplaceStep ==
    ASSUME NodesApart, NEW q, Holds(next, prev, q), NEW o \in Objects, NEW by \in Objects, LinkReplace(o, by)
    PROVE  /\ SameLists /\ next[by] = Nil
           /\ \E l \in Lists : next[l] # Nil /\ \E i \in 1..Len(q[l]) :
                 Holds(next', prev', [q EXCEPT ![l] = [q[l] EXCEPT ![i] = by]])
<1>1. /\ next[o] # Nil /\ next[by] = Nil /\ o \in LinkNodes /\ by \in LinkNodes
      /\ o \notin Lists /\ by \notin Lists /\ Nil \notin LinkNodes
  BY DEF LinkReplace, Active, NodesApart, LinkNodes
<1>2. next \in [LinkNodes -> LinkNodes \cup {Nil}] /\ prev \in [LinkNodes -> LinkNodes \cup {Nil}]
  BY DEF Holds
<1>3. PICK l \in Lists : next[l] # Nil /\ \E k \in 0..Len(q[l]) : o = At(l, q[l], k)
  BY <1>1, PlaceOf
<1>4. PICK i \in 0..Len(q[l]) : o = At(l, q[l], i)
  BY <1>3
<1>5. Len(q[l]) \in Nat /\ i # 0 /\ i \in 1..Len(q[l]) /\ i - 1 \in 0..Len(q[l]) /\ (i - 1) + 1 = i /\ i - 1 # i
  <2>1. i # 0
    BY <1>1, <1>3, <1>4, Steps
  <2> QED BY <2>1, PlacesDiffer
<1> PICK a, c : a = At(l, q[l], i - 1) /\ c = At(l, q[l], i + 1)
  OBVIOUS
<1>6. /\ prev[o] = a /\ next[o] = c /\ next[a] = o /\ a \in LinkNodes /\ c \in LinkNodes
      /\ a # o /\ c # o /\ a # by /\ c # by
  <2>1. /\ prev[At(l, q[l], (i - 1) + 1)] = a /\ a \in LinkNodes /\ next[o] = c /\ c \in LinkNodes
        /\ next[a] = o /\ a # by /\ c # by
    BY <1>1, <1>3, <1>4, <1>5, Steps
  <2>2. a # o
    BY <1>4, <1>5, PlacesDiffer
  <2>3. c # o
    <3>1. o = At(l, q[l], (i - 1) + 1)
      BY <1>4, <1>5
    <3> QED BY <1>3, <1>4, <1>5, <3>1, Steps
  <2> QED BY <1>4, <1>5, <2>1, <2>2, <2>3
<1>7. Replaced(next, prev, a, o, c, by, next', prev')
  BY <1>1, <1>2, <1>6 DEF Replaced, LinkReplace
<1>8. Holds(next', prev', [q EXCEPT ![l] = [q[l] EXCEPT ![i] = by]])
  BY <1>1, <1>3, <1>4, <1>5, <1>7, ReplaceHolds
<1>9. SameLists
  <2>1. \A m \in Lists : m \in LinkNodes /\ m # o /\ m # by
    BY <1>1 DEF LinkNodes
  <2> QED BY <1>1, <1>2, <1>6, <2>1 DEF SameLists, LinkReplace
<1> QED BY <1>1, <1>3, <1>5, <1>8, <1>9

\* Joining two lists.
LEMMA MoveStep ==
    ASSUME NodesApart, NEW q, Holds(next, prev, q), NEW dst \in Lists, NEW src \in Lists, MoveTail(dst, src)
    PROVE  /\ SameLists /\ dst # src /\ next[dst] # Nil /\ next[src] # Nil
           /\ Holds(next', prev', [q EXCEPT ![dst] = q[dst] \o q[src], ![src] = <<>>])
<1>1. /\ dst # src /\ next[dst] # Nil /\ next[src] # Nil /\ next[src] # src /\ Nil \notin LinkNodes
      /\ dst \in LinkNodes /\ src \in LinkNodes
  BY DEF MoveTail, Active, Empty, NodesApart, LinkNodes
<1>2. next \in [LinkNodes -> LinkNodes \cup {Nil}] /\ prev \in [LinkNodes -> LinkNodes \cup {Nil}]
  BY DEF Holds
<1> PICK e, h, z : /\ e = At(dst, q[dst], Len(q[dst])) /\ h = At(src, q[src], 1)
                   /\ z = At(src, q[src], Len(q[src]))
  OBVIOUS
<1>3. Len(q[dst]) \in Nat /\ Len(q[src]) \in Nat /\ q[src] # <<>>
  <2>1. q[src] = <<>> => next[src] = src
    <3>1. ASSUME q[src] = <<>>
          PROVE  Len(q[src]) = 0
      BY <3>1
    <3>2. At(src, q[src], 0) = src /\ At(src, q[src], Len(q[src]) + 1) = src /\ 0 \in 0..0
      BY <1>1, Steps
    <3> QED BY <1>1, <3>1, <3>2, Steps
  <2> QED BY <1>1, <2>1, PlacesDiffer
<1>4. /\ prev[dst] = e /\ prev[src] = z /\ next[src] = h /\ e \in LinkNodes /\ h \in LinkNodes /\ z \in LinkNodes
      /\ next[e] = dst /\ next[z] = src
  <2>1. /\ At(dst, q[dst], Len(q[dst]) + 1) = dst /\ At(src, q[src], Len(q[src]) + 1) = src
        /\ At(src, q[src], 0) = src
    BY <1>1, Steps
  <2>2. /\ Len(q[dst]) \in 0..Len(q[dst]) /\ Len(q[src]) \in 0..Len(q[src]) /\ 0 \in 0..Len(q[src])
        /\ 0 + 1 = 1
    BY <1>3
  <2>3. prev[dst] = e /\ e \in LinkNodes /\ next[e] = dst
    BY <1>1, <2>1, <2>2, Steps
  <2>4. prev[src] = z /\ z \in LinkNodes /\ next[z] = src
    BY <1>1, <2>1, <2>2, Steps
  <2>5. next[src] = h /\ h \in LinkNodes
    BY <1>1, <2>1, <2>2, Steps
  <2> QED BY <2>3, <2>4, <2>5
<1>5. e # z /\ e # src /\ z # src /\ h # src /\ h # dst
  <2>1. Len(q[dst]) \in 0..Len(q[dst]) /\ 0 \in 0..Len(q[src]) /\ 0 + 1 = 1
    BY <1>3
  <2>2. e # z
    BY <1>1, <1>4
  <2>3. e # src /\ z # src
    <3>1. src = At(src, q[src], 0)
      BY <1>1, Steps
    <3>2. e # src
      BY <1>1, <2>1, <3>1, PlacesDiffer
    <3> QED BY <1>1, <1>4, <3>2
  <2>4. h # dst
    <3>1. dst = At(dst, q[dst], Len(q[dst]) + 1) /\ h = At(src, q[src], 0 + 1)
      BY <1>1, <2>1, Steps
    <3> QED BY <1>1, <2>1, <3>1, Steps
  <2> QED BY <1>1, <1>4, <2>2, <2>3, <2>4
<1>6. Joins(next, prev, dst, src, e, h, z, next', prev')
  <2>1. /\ next' = [next EXCEPT ![e] = h, ![z] = dst, ![src] = src]
        /\ prev' = [prev EXCEPT ![h] = e, ![dst] = z, ![src] = src]
    BY <1>4 DEF MoveTail
  <2> QED BY <1>1, <1>2, <1>4, <1>5, <2>1 DEF Joins
<1>7. Holds(next', prev', [q EXCEPT ![dst] = q[dst] \o q[src], ![src] = <<>>])
  BY <1>1, <1>3, <1>6, MoveHolds
<1>8. SameLists
  <2>1. \A m \in Lists : m \in LinkNodes
    BY DEF LinkNodes
  <2> QED BY <1>1, <1>2, <1>4, <1>5, <1>6, <2>1 DEF SameLists, Joins
<1> QED BY <1>1, <1>7, <1>8

\* The heads and tails that are removed are objects.
LEMMA EndsAreObjects ==
    ASSUME NodesApart, NEW q, Holds(next, prev, q), NEW l \in Lists, Active(l), ~Empty(l)
    PROVE  /\ next[l] \in Objects /\ prev[l] \in Objects /\ Active(next[l]) /\ Active(prev[l])
<1>1. next[l] # Nil /\ next[l] # l /\ Nil \notin LinkNodes
  BY DEF Active, Empty, NodesApart
<1>2. q[l] \in Seq(Objects) /\ Len(q[l]) \in Nat
  BY PlacesDiffer
<1>3. /\ 0 \in 0..Len(q[l]) /\ Len(q[l]) \in 0..Len(q[l]) /\ 0 + 1 = 1
  BY <1>2
<1>4. /\ next[l] = At(l, q[l], 1) /\ prev[l] = At(l, q[l], Len(q[l]))
      /\ next[prev[l]] = l /\ l \in LinkNodes
  <2>1. At(l, q[l], 0) = l /\ At(l, q[l], Len(q[l]) + 1) = l
    BY <1>1, Steps
  <2>2. next[l] = At(l, q[l], 1)
    BY <1>1, <1>3, <2>1, Steps
  <2>3. prev[l] = At(l, q[l], Len(q[l])) /\ next[prev[l]] = l
    BY <1>1, <1>3, <2>1, Steps
  <2> QED BY <2>2, <2>3 DEF LinkNodes
<1>5. Len(q[l]) # 0
  <2>1. Len(q[l]) = 0 => 1 \notin 1..Len(q[l])
    OBVIOUS
  <2> QED BY <1>1, <1>4, <2>1 DEF At
<1>6. 1 \in 1..Len(q[l]) /\ Len(q[l]) \in 1..Len(q[l]) /\ 1 \in 0..Len(q[l])
  BY <1>2, <1>5
<1>7. next[l] = q[l][1] /\ prev[l] = q[l][Len(q[l])]
  BY <1>4, <1>6 DEF At
<1>8. next[next[l]] \in LinkNodes
  BY <1>1, <1>4, <1>6, Steps
<1> QED BY <1>1, <1>2, <1>4, <1>6, <1>7, <1>8 DEF Active

\* An empty list holds nothing, and only what holds nothing is empty.
LEMMA EmptyHolds ==
    ASSUME NodesApart, NEW q, Holds(next, prev, q), NEW l \in Lists, Active(l), Empty(l)
    PROVE  q[l] = <<>>
<1>1. next[l] # Nil /\ next[l] = l
  BY DEF Active, Empty
<1>2. q[l] \in Seq(Objects) /\ Len(q[l]) \in Nat
  BY PlacesDiffer
<1>3. Len(q[l]) = 0
  <2> SUFFICES ASSUME Len(q[l]) # 0
               PROVE  FALSE
    OBVIOUS
  <2>1. 0 \in 0..Len(q[l]) /\ 1 \in 0..Len(q[l]) /\ 0 + 1 = 1
    BY <1>2
  <2>2. At(l, q[l], 0) = l
    BY <1>1, Steps
  <2>3. next[l] = At(l, q[l], 1)
    BY <1>1, <2>1, <2>2, Steps
  <2>4. At(l, q[l], 0) = At(l, q[l], 1)
    BY <1>1, <2>2, <2>3
  <2> QED BY <2>1, <2>4, PlacesDiffer
<1> QED BY <1>2, <1>3

\* The steps as the lemmas above take them.
LEMMA StepKinds ==
    ASSUME NodesApart, NEW q, Holds(next, prev, q), ListNext
    PROVE  \/ \E l \in Lists : Create(l) \/ (Destroy(l) /\ q[l] = <<>>)
           \/ \E n \in LinkNodes, o \in Objects : Active(n) /\ (LinkAfter(n, o) \/ LinkBefore(n, o))
           \/ \E n \in Objects : Active(n) /\ RemoveNode(n)
           \/ \E dst, src \in Lists : MoveTail(dst, src)
           \/ \E o, by \in Objects : LinkReplace(o, by)
<1>1. Lists \subseteq LinkNodes /\ Objects \subseteq LinkNodes
  BY DEF LinkNodes
<1>2. ASSUME NEW l \in Lists, Destroy(l)
      PROVE  q[l] = <<>>
  BY <1>2, EmptyHolds DEF Destroy
<1>3. ASSUME NEW l \in Lists, RemoveHead(l) \/ RemoveTail(l)
      PROVE  \E n \in Objects : Active(n) /\ RemoveNode(n)
  <2>1. next[l] \in Objects /\ prev[l] \in Objects /\ Active(next[l]) /\ Active(prev[l])
    BY <1>3, EndsAreObjects DEF RemoveHead, RemoveTail
  <2> QED BY <1>3, <2>1 DEF RemoveHead, RemoveTail
<1>4. ASSUME NEW l \in Lists, NEW o \in Objects, InsertHead(l, o) \/ InsertTail(l, o)
      PROVE  Active(l) /\ (LinkAfter(l, o) \/ LinkBefore(l, o))
  BY <1>4 DEF InsertHead, InsertTail
<1>5. ASSUME NEW at \in Objects, NEW o \in Objects, InsertAfter(at, o) \/ InsertBefore(at, o)
      PROVE  Active(at) /\ (LinkAfter(at, o) \/ LinkBefore(at, o))
  BY <1>5 DEF InsertAfter, InsertBefore
<1> QED BY <1>1, <1>2, <1>3, <1>4, <1>5 DEF ListNext, RemoveObject

\* After every step the rings hold sequences again.
LEMMA StepHolds ==
    ASSUME NodesApart, NEW q, Holds(next, prev, q), [ListNext]_links
    PROVE  \E r : Holds(next', prev', r)
<1>1. CASE UNCHANGED links
  BY <1>1 DEF links
<1>2. ASSUME NEW l \in Lists, Create(l)
      PROVE  \E r : Holds(next', prev', r)
  BY <1>2, CreateHolds DEF Create, Active
<1>3. ASSUME NEW l \in Lists, Destroy(l), q[l] = <<>>
      PROVE  \E r : Holds(next', prev', r)
  BY <1>3, DestroyHolds DEF Destroy
<1>4. ASSUME NEW n \in LinkNodes, NEW o \in Objects, Active(n), LinkAfter(n, o) \/ LinkBefore(n, o)
      PROVE  \E r : Holds(next', prev', r)
  BY <1>4, LinkStep
<1>5. ASSUME NEW n \in Objects, Active(n), RemoveNode(n)
      PROVE  \E r : Holds(next', prev', r)
  BY <1>5, UnlinkStep
<1>6. ASSUME NEW dst \in Lists, NEW src \in Lists, MoveTail(dst, src)
      PROVE  \E r : Holds(next', prev', r)
  BY <1>6, MoveStep
<1>7. ASSUME NEW o \in Objects, NEW by \in Objects, LinkReplace(o, by)
      PROVE  \E r : Holds(next', prev', r)
  BY <1>7, ReplaceStep
<1>8. CASE ListNext
  BY <1>2, <1>3, <1>4, <1>5, <1>6, <1>7, <1>8, StepKinds
<1> QED BY <1>1, <1>8

\* At first nothing is held.
LEMMA InitHolds ==
    ASSUME NodesApart, ListInit
    PROVE  Holds(next, prev, [l \in Lists |-> <<>>])
<1> PICK q : q = [l \in Lists |-> <<>>]
  OBVIOUS
<1>1. /\ q \in [Lists -> Seq(Objects)] /\ \A l \in Lists : q[l] = <<>> /\ Len(q[l]) = 0
  OBVIOUS
<1>2. \A n \in LinkNodes : next[n] = Nil /\ prev[n] = Nil
  BY DEF ListInit, Ends
<1>3. next \in [LinkNodes -> LinkNodes \cup {Nil}] /\ prev \in [LinkNodes -> LinkNodes \cup {Nil}]
  BY DEF ListInit, Ends
<1>4. \A n \in Lists \cup Objects : next[n] = Nil /\ prev[n] = Nil
  BY <1>2 DEF LinkNodes
<1>5. \A l \in Lists : 1..Len(q[l]) = {}
  BY <1>1
<1>6. Holds(next, prev, q)
  BY <1>1, <1>3, <1>4, <1>5, Zenon DEF Holds
<1> QED BY <1>6

\* In every reachable state a list reads backwards as its objects in the opposite
\* order, a node has both links or neither, and an object is on exactly one list
\* if list_link_active says that it is on one and on none otherwise: for any
\* number of lists and any finite number of objects, however the calls are mixed.
THEOREM ReadsBothWays == ListSpec => []BothWays
<1> NodesApart /\ IsFiniteSet(Objects)
  BY LinksAssumption DEF NodesApart, LinkNodes
<1> DEFINE HInv == \E q : Holds(next, prev, q)
<1>1. ListInit => HInv
  BY InitHolds
<1>2. HInv /\ [ListNext]_links => HInv'
  BY StepHolds
<1>3. HInv => BothWays
  BY BothWaysFollows
<1> HIDE DEF HInv
<1> QED BY <1>1, <1>2, <1>3, PTL DEF ListSpec

-----------------------------------------------------------------------------
(* The refinement of ObjectLists.                                           *)

\* NULL is not one of the sequences.
NilApart == Nil \notin Seq(Objects)

\* The lists as ObjectLists has them.
View(nx, q) == [l \in Lists |-> IF nx[l] # Nil THEN q[l] ELSE Nil]

\* What the pointers hold is what Along reads.
LEMMA ContentsView ==
    ASSUME NodesApart, IsFiniteSet(Objects)
    PROVE  /\ \A q : Holds(next, prev, q) => Contents = View(next, q)
           /\ \A q : Holds(next', prev', q) => Contents' = View(next', q)
<1>1. ASSUME NEW nx, NEW pv, NEW q, Holds(nx, pv, q)
      PROVE  [l \in Lists |-> IF nx[l] # Nil THEN Along(nx, l) ELSE Nil] = View(nx, q)
  <2>1. \A l \in Lists : nx[l] # Nil => Along(nx, l) = q[l]
    BY <1>1, ContentsAre
  <2> QED BY <2>1 DEF View
<1>2. Contents = [l \in Lists |-> IF next[l] # Nil THEN Along(next, l) ELSE Nil]
  BY DEF Contents, Active
<1>3. Contents' = [l \in Lists |-> IF next'[l] # Nil THEN Along(next', l) ELSE Nil]
  BY DEF Contents, Active, Along
<1> QED BY <1>1, <1>2, <1>3

\* An object without links is on no list.
LEMMA UnlinkedIsFree ==
    ASSUME NodesApart, NilApart, NEW q, Holds(next, prev, q), Contents = View(next, q),
           NEW o \in Objects, next[o] = Nil
    PROVE  o \in Sequences!Free
<1> SUFFICES ASSUME NEW l \in Lists, Contents[l] # Nil, o \in Sequences!On(l)
             PROVE  FALSE
  BY DEF Sequences!Free, Sequences!Existing
<1>1. next[l] # Nil /\ Contents[l] = q[l]
  BY DEF View
<1>2. q[l] \in Seq(Objects) /\ Len(q[l]) \in Nat
  BY PlacesDiffer
<1>3. PICK i \in 1..Len(q[l]) : o = q[l][i]
  BY <1>1, <1>2 DEF Sequences!On, Sequences!ToSet
<1>4. i \in 0..Len(q[l]) /\ o = At(l, q[l], i)
  BY <1>2, <1>3 DEF At
<1> QED BY <1>1, <1>4, Steps

\* The step on the sequences for every kind of step on the pointers, from the
\* sequences q that the pointers hold.
LEMMA StepRefines ==
    ASSUME NodesApart, NilApart, IsFiniteSet(Objects), NEW q, Holds(next, prev, q), [ListNext]_links
    PROVE  [Sequences!Next]_Contents
<1>1. Contents = View(next, q)
  BY ContentsView
<1>2. \A l \in Lists : q[l] \in Seq(Objects) /\ q[l] # Nil
  BY DEF Holds, NilApart
<1>3. q \in [Lists -> Seq(Objects)]
  BY DEF Holds
<1>4. \A l \in Lists : l \in Sequences!Existing <=> next[l] # Nil
  BY <1>1, <1>2 DEF Sequences!Existing, View
<1>5. \A l \in Lists : next[l] # Nil => Contents[l] = q[l]
  BY <1>1 DEF View
<1>6. ASSUME NEW r, Holds(next', prev', r)
      PROVE  Contents' = View(next', r)
  BY <1>6, ContentsView
<1>7. ASSUME SameLists, NEW l \in Lists, next[l] # Nil, NEW s, Holds(next', prev', [q EXCEPT ![l] = s])
      PROVE  Contents' = [Contents EXCEPT ![l] = s]
  <2>1. Contents' = View(next', [q EXCEPT ![l] = s])
    BY <1>6, <1>7
  <2> QED BY <1>1, <1>3, <1>7, <2>1 DEF View, SameLists
<1>10. CASE UNCHANGED links
  <2>1. Holds(next', prev', q) /\ View(next', q) = View(next, q)
    BY <1>10 DEF links
  <2> QED BY <1>1, <1>6, <2>1
<1>11. ASSUME NEW l \in Lists, Create(l)
       PROVE  Sequences!Create(l)
  <2>1. next[l] = Nil /\ next' = [next EXCEPT ![l] = l] /\ prev' = [prev EXCEPT ![l] = l]
    BY <1>11 DEF Create, Active
  <2>2. Contents' = View(next', q)
    BY <1>6, <2>1, CreateHolds
  <2>3. q[l] = <<>>
    BY <2>1 DEF Holds
  <2>4. \A m \in LinkNodes : next'[m] = IF m = l THEN l ELSE next[m]
    BY <2>1 DEF Holds
  <2>5. l \in LinkNodes /\ l # Nil /\ Lists \subseteq LinkNodes
    BY DEF NodesApart, LinkNodes
  <2>6. Contents' = [Contents EXCEPT ![l] = <<>>]
    BY <1>1, <2>2, <2>3, <2>4, <2>5 DEF View
  <2> QED BY <1>4, <2>1, <2>6 DEF Sequences!Create
<1>12. ASSUME NEW l \in Lists, Destroy(l), q[l] = <<>>
       PROVE  Sequences!Destroy(l)
  <2>1. next[l] # Nil /\ next' = [next EXCEPT ![l] = Nil] /\ prev' = [prev EXCEPT ![l] = Nil]
    BY <1>12 DEF Destroy, Active
  <2>2. Contents' = View(next', q)
    BY <1>6, <1>12, <2>1, DestroyHolds
  <2>4. \A m \in LinkNodes : next'[m] = IF m = l THEN Nil ELSE next[m]
    BY <2>1 DEF Holds
  <2>5. l \in LinkNodes /\ Lists \subseteq LinkNodes
    BY DEF NodesApart, LinkNodes
  <2>6. Contents' = [Contents EXCEPT ![l] = Nil]
    BY <1>1, <2>2, <2>4, <2>5 DEF View
  <2> QED BY <1>4, <1>5, <1>12, <2>1, <2>6 DEF Sequences!Destroy
<1>13. ASSUME NEW n \in LinkNodes, NEW o \in Objects, Active(n), LinkAfter(n, o) \/ LinkBefore(n, o)
       PROVE  \E l \in Sequences!Existing : Sequences!Insert(l, o)
  <2>1. /\ SameLists /\ next[o] = Nil
        /\ \E l \in Lists : next[l] # Nil /\ \E i \in 0..Len(q[l]) :
              Holds(next', prev', [q EXCEPT ![l] = InsertAt(q[l], i + 1, o)])
    BY <1>13, LinkStep
  <2>2. PICK l \in Lists : next[l] # Nil /\ \E i \in 0..Len(q[l]) :
              Holds(next', prev', [q EXCEPT ![l] = InsertAt(q[l], i + 1, o)])
    BY <2>1
  <2>3. PICK i \in 0..Len(q[l]) : Holds(next', prev', [q EXCEPT ![l] = InsertAt(q[l], i + 1, o)])
    BY <2>2
  <2>4. Contents' = [Contents EXCEPT ![l] = InsertAt(q[l], i + 1, o)]
    BY <1>7, <2>1, <2>2, <2>3
  <2>5. i + 1 \in 1..(Len(Contents[l]) + 1)
    <3>1. Len(q[l]) \in Nat
      BY PlacesDiffer
    <3> QED BY <1>5, <2>2, <3>1
  <2>6. Contents' = [Contents EXCEPT ![l] = Sequences!InsertAt(@, i + 1, o)]
    <3>1. Sequences!InsertAt(q[l], i + 1, o) = InsertAt(q[l], i + 1, o)
      BY DEF InsertAt, Sequences!InsertAt
    <3> QED BY <1>5, <2>2, <2>4, <3>1
  <2>7. o \in Sequences!Free
    BY <1>1, <2>1, UnlinkedIsFree
  <2>8. Sequences!Insert(l, o)
    BY <2>5, <2>6, <2>7 DEF Sequences!Insert
  <2> QED BY <1>4, <2>2, <2>8
<1>14. ASSUME NEW n \in Objects, Active(n), RemoveNode(n)
       PROVE  \E l \in Sequences!Existing : Sequences!Take(l)
  <2>1. /\ SameLists
        /\ \E l \in Lists : next[l] # Nil /\ \E i \in 1..Len(q[l]) :
              Holds(next', prev', [q EXCEPT ![l] = RemoveAt(q[l], i)])
    BY <1>14, UnlinkStep
  <2>2. PICK l \in Lists : next[l] # Nil /\ \E i \in 1..Len(q[l]) :
              Holds(next', prev', [q EXCEPT ![l] = RemoveAt(q[l], i)])
    BY <2>1
  <2>3. PICK i \in 1..Len(q[l]) : Holds(next', prev', [q EXCEPT ![l] = RemoveAt(q[l], i)])
    BY <2>2
  <2>4. Contents' = [Contents EXCEPT ![l] = RemoveAt(q[l], i)]
    BY <1>7, <2>1, <2>2, <2>3
  <2>5. i \in DOMAIN Contents[l]
    BY <1>2, <1>5, <2>2
  <2>6. Contents' = [Contents EXCEPT ![l] = Sequences!RemoveAt(@, i)]
    <3>1. Sequences!RemoveAt(q[l], i) = RemoveAt(q[l], i)
      BY DEF RemoveAt, Sequences!RemoveAt
    <3> QED BY <1>5, <2>2, <2>4, <3>1
  <2> QED BY <1>4, <2>2, <2>5, <2>6 DEF Sequences!Take
<1>15. ASSUME NEW dst \in Lists, NEW src \in Lists, MoveTail(dst, src)
       PROVE  \E d, s \in Sequences!Existing : Sequences!Move(d, s)
  <2>1. /\ SameLists /\ dst # src /\ next[dst] # Nil /\ next[src] # Nil
        /\ Holds(next', prev', [q EXCEPT ![dst] = q[dst] \o q[src], ![src] = <<>>])
    BY <1>15, MoveStep
  <2>2. Contents' = View(next', [q EXCEPT ![dst] = q[dst] \o q[src], ![src] = <<>>])
    BY <1>6, <2>1
  <2>3. Contents' = [Contents EXCEPT ![dst] = q[dst] \o q[src], ![src] = <<>>]
    BY <1>1, <1>3, <2>1, <2>2 DEF View, SameLists
  <2>4. Contents' = [Contents EXCEPT ![dst] = @ \o Contents[src], ![src] = <<>>]
    BY <1>5, <2>1, <2>3
  <2>5. Sequences!Move(dst, src)
    BY <2>1, <2>4 DEF Sequences!Move
  <2> QED BY <1>4, <2>1, <2>5
<1>16. ASSUME NEW o \in Objects, NEW by \in Objects, LinkReplace(o, by)
       PROVE  \E l \in Sequences!Existing : Sequences!Replace(l, by)
  <2>1. /\ SameLists /\ next[by] = Nil
        /\ \E l \in Lists : next[l] # Nil /\ \E i \in 1..Len(q[l]) :
              Holds(next', prev', [q EXCEPT ![l] = [q[l] EXCEPT ![i] = by]])
    BY <1>16, ReplaceStep
  <2>2. PICK l \in Lists : next[l] # Nil /\ \E i \in 1..Len(q[l]) :
              Holds(next', prev', [q EXCEPT ![l] = [q[l] EXCEPT ![i] = by]])
    BY <2>1
  <2>3. PICK i \in 1..Len(q[l]) : Holds(next', prev', [q EXCEPT ![l] = [q[l] EXCEPT ![i] = by]])
    BY <2>2
  <2>4. Contents' = [Contents EXCEPT ![l] = [q[l] EXCEPT ![i] = by]]
    BY <1>7, <2>1, <2>2, <2>3
  <2>5. i \in DOMAIN Contents[l]
    BY <1>2, <1>5, <2>2
  <2>6. Contents' = [Contents EXCEPT ![l][i] = by]
    BY <1>5, <2>2, <2>4
  <2>7. by \in Sequences!Free
    BY <1>1, <2>1, UnlinkedIsFree
  <2>8. Sequences!Replace(l, by)
    BY <2>5, <2>6, <2>7 DEF Sequences!Replace
  <2> QED BY <1>4, <2>2, <2>8
<1>17. CASE ListNext
  <2>1. CASE \E l \in Lists : Create(l) \/ (Destroy(l) /\ q[l] = <<>>)
    BY <1>11, <1>12, <2>1 DEF Sequences!Next
  <2>2. CASE \E n \in LinkNodes, o \in Objects : Active(n) /\ (LinkAfter(n, o) \/ LinkBefore(n, o))
    BY <1>13, <2>2 DEF Sequences!Next
  <2>3. CASE \E n \in Objects : Active(n) /\ RemoveNode(n)
    BY <1>14, <2>3 DEF Sequences!Next
  <2>4. CASE \E dst, src \in Lists : MoveTail(dst, src)
    BY <1>15, <2>4 DEF Sequences!Next
  <2>5. CASE \E o, by \in Objects : LinkReplace(o, by)
    BY <1>16, <2>5 DEF Sequences!Next
  <2> QED BY <1>17, <2>1, <2>2, <2>3, <2>4, <2>5, StepKinds
<1> QED BY <1>10, <1>17

\* At first no list exists.
LEMMA InitRefines ==
    ASSUME ListInit
    PROVE  Sequences!Init
<1>1. \A l \in Lists : ~Active(l)
  BY DEF ListInit, Ends, Active, LinkNodes
<1> QED BY <1>1 DEF Contents, Sequences!Init

\* list.c implements sequences: read along the pointers, the lists only ever
\* change as ObjectLists says, whatever the lists and the objects are, so nothing is
\* lost, doubled or put elsewhere by any operation. That sequences are not NULL
\* is what tells a list that exists from one that does not.
THEOREM Implements == ListSpec => ImplementsLists
<1> NodesApart /\ NilApart /\ IsFiniteSet(Objects)
  BY LinksAssumption DEF NodesApart, NilApart, LinkNodes
<1> DEFINE HInv == \E q : Holds(next, prev, q)
<1>1. ListInit => HInv /\ Sequences!Init
  BY InitHolds, InitRefines
<1>2. HInv /\ [ListNext]_links => HInv'
  BY StepHolds
<1>3. HInv /\ [ListNext]_links => [Sequences!Next]_Contents
  BY StepRefines
<1> HIDE DEF HInv
<1> QED BY <1>1, <1>2, <1>3, PTL DEF ListSpec, ImplementsLists, Sequences!Spec
====
