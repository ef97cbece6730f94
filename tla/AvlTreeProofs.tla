--------------------------- MODULE AvlTreeProofs ----------------------------
(****************************************************************************)
(* Proofs about AvlTree, for trees of any size.                             *)
(****************************************************************************)
EXTENDS AvlTree, FiniteSetTheorems, WellFoundedInduction, TLAPS

\* A pointer to a node.
MaybeNode == Nodes \cup {Null}

\* Values of the variable tree.
Trees == [root    : MaybeNode,
          child   : [Nodes -> [Child -> MaybeNode]],
          parent  : [Nodes -> MaybeNode],
          which   : [Nodes -> Child],
          balance : [Nodes -> Int]]

-----------------------------------------------------------------------------
(* The shape of a tree.                                                     *)

\* x is on side d of y.
Before(d, x, y) == IF d = 0 THEN x < y ELSE y < x

\* b[n][d] is the neighbour of n in S on side d, or a number on that side.
Near(S, b) ==
    \A n \in S, d \in Child :
        /\ b[n][d] \in Int /\ Before(d, b[n][d], n)
        /\ b[n][d] \in S => b[b[n][d]][1 - d] = n

\* e[n][d] is the last node on side d of what is below n.
Ends(S, e) == \A n \in S, d \in Child : e[n][d] \in S /\ ~Before(d, n, e[n][d])

\* What is below n on side d ends next to n.
Down(t, S, b, e) ==
    \A n \in S, d \in Child :
        \/ t.child[n][d] = Null /\ e[n][d] = n
        \/ /\ t.child[n][d] \in S /\ t.parent[t.child[n][d]] = n /\ t.which[t.child[n][d]] = d
           /\ e[t.child[n][d]][d] = e[n][d] /\ e[t.child[n][d]][1 - d] = b[n][d]

\* What is not the root is a child of its parent.
Upwards(t, S) ==
    \A n \in S : \/ t.parent[n] = Null /\ n = t.root
                 \/ t.parent[n] \in S /\ t.which[n] \in Child /\ t.child[t.parent[n]][t.which[n]] = n

\* The root, with nothing beyond the last node on each side.
Top(t, S, b, e) ==
    \/ t.root = Null /\ S = {}
    \/ t.root \in S /\ t.parent[t.root] = Null /\ \A d \in Child : b[e[t.root][d]][d] \notin S

\* The nodes S form one tree, in the order of the neighbours b, and reach as far as e says.
Shape(t, S, b, e) ==
    /\ S \subseteq Nodes
    /\ Near(S, b) /\ Ends(S, e) /\ Down(t, S, b, e) /\ Upwards(t, S) /\ Top(t, S, b, e)

\* What the nodes are and how they compare.
LEMMA Sides ==
    /\ Null \notin Nodes /\ Nodes \subseteq Int
    /\ \A d \in Child : 1 - d \in Child /\ 1 - (1 - d) = d /\ 1 - d # d
    /\ \A d \in Child, f \in Child : f = d \/ f = 1 - d
    /\ \A d \in Child : \A x, y \in Int : Before(d, x, y) <=> Before(1 - d, y, x)
    /\ \A d \in Child : \A x, y, z \in Int : Before(d, x, y) /\ ~Before(d, z, y) => Before(d, x, z)
    /\ \A d \in Child : \A x, y, z \in Int : ~Before(d, y, x) /\ Before(d, y, z) => Before(d, x, z)
    /\ \A d \in Child : \A x, y \in Int : ~Before(d, x, y) /\ ~Before(d, y, x) => x = y
    /\ \A d \in Child : \A x \in Int : ~Before(d, x, x)
<1>1. Null \notin Nodes /\ Nodes \subseteq Int
  BY NodesAssumption DEF Null, Nodes
<1>2. \A d \in Child : 1 - d \in Child /\ 1 - (1 - d) = d /\ 1 - d # d
  BY DEF Child
<1>3. \A d \in Child, f \in Child : f = d \/ f = 1 - d
  BY DEF Child
<1>4. ASSUME NEW d \in Child
      PROVE  /\ \A x, y \in Int : Before(d, x, y) <=> Before(1 - d, y, x)
             /\ \A x, y, z \in Int : Before(d, x, y) /\ ~Before(d, z, y) => Before(d, x, z)
             /\ \A x, y, z \in Int : ~Before(d, y, x) /\ Before(d, y, z) => Before(d, x, z)
             /\ \A x, y \in Int : ~Before(d, x, y) /\ ~Before(d, y, x) => x = y
             /\ \A x \in Int : ~Before(d, x, x)
  <2>1. CASE d = 0
    BY <2>1 DEF Before
  <2>2. CASE d = 1
    BY <2>2 DEF Before
  <2> QED BY <2>1, <2>2 DEF Child
<1> QED BY <1>1, <1>2, <1>3, <1>4

\* A nonempty set of numbers has a least one.
LEMMA Least ==
    ASSUME NEW S \in SUBSET Nat, S # {}
    PROVE  \E m \in S : \A k \in S : m <= k
<1>1. PICK m \in S : \A k \in S : ~(<<k, m>> \in OpToRel(<, Nat))
  BY WFMin, NatLessThanWellFounded
<1>2. \A k \in S : ~(k < m)
  BY <1>1 DEF OpToRel
<1> QED BY <1>2

\* A node is among what is below it.
LEMMA Spans ==
    ASSUME NEW S, NEW e, S \subseteq Nodes, Ends(S, e), NEW n \in S
    PROVE  /\ n \in Int /\ e[n][0] \in Int /\ e[n][1] \in Int /\ e[n][0] \in Nodes /\ e[n][1] \in Nodes
           /\ e[n][0] <= n /\ n <= e[n][1] /\ e[n][1] - e[n][0] \in Nat
           /\ MaxNodes - (e[n][1] - e[n][0]) \in Nat
<1> PICK x, y : x = e[n][0] /\ y = e[n][1]
  OBVIOUS
<1>1. x \in S /\ y \in S /\ ~Before(0, n, x) /\ ~Before(1, n, y)
  BY DEF Ends, Child
<1>2. x \in 1..MaxNodes /\ y \in 1..MaxNodes /\ n \in 1..MaxNodes
  BY <1>1 DEF Nodes
<1>3. x <= n /\ n <= y
  BY <1>1, <1>2 DEF Before
<1>4. y - x \in Nat /\ MaxNodes - (y - x) \in Nat
  BY <1>2, <1>3, NodesAssumption
<1> QED BY <1>2, <1>3, <1>4 DEF Nodes

\* A child is on its side of the parent, and spans less.
LEMMA Below ==
    ASSUME NEW t, NEW S, NEW b, NEW e, Shape(t, S, b, e), NEW n \in S, NEW d \in Child,
           NEW c, c = t.child[n][d], c # Null
    PROVE  /\ c \in S /\ c \in Int /\ n \in Int /\ Before(d, c, n) /\ c # n
           /\ t.parent[c] = n /\ t.which[c] = d
           /\ e[c][d] = e[n][d] /\ e[c][1 - d] = b[n][d]
           /\ e[n][0] \in Int /\ e[n][1] \in Int /\ e[n][1] - e[n][0] \in Nat
           /\ e[c][0] \in Int /\ e[c][1] \in Int /\ e[c][1] - e[c][0] \in Nat
           /\ e[c][1] - e[c][0] < e[n][1] - e[n][0]
<1>1. /\ c \in S /\ t.parent[c] = n /\ t.which[c] = d
      /\ e[c][d] = e[n][d] /\ e[c][1 - d] = b[n][d]
  BY DEF Shape, Down
<1>2. S \subseteq Int
  BY Sides DEF Shape
<1>3. \A x \in S : e[x][0] \in Int /\ e[x][1] \in Int /\ e[x][0] <= x /\ x <= e[x][1]
  BY Spans DEF Shape
<1>4. b[n][d] \in Int /\ Before(d, b[n][d], n)
  BY DEF Shape, Near
<1>5. CASE d = 0
  BY <1>1, <1>2, <1>3, <1>4, <1>5 DEF Before
<1>6. CASE d = 1
  BY <1>1, <1>2, <1>3, <1>4, <1>6 DEF Before
<1> QED BY <1>5, <1>6 DEF Child

\* Without a child on a side a node is the last one there.
LEMMA NoneBelow ==
    ASSUME NEW t, NEW S, NEW b, NEW e, Shape(t, S, b, e), NEW n \in S, NEW d \in Child, t.child[n][d] = Null
    PROVE  e[n][d] = n
<1>1. Null \notin S
  BY Sides DEF Shape
<1> QED BY <1>1 DEF Shape, Down

\* A node is the root or a child.
LEMMA Parents ==
    ASSUME NEW t, NEW S, NEW b, NEW e, Shape(t, S, b, e), NEW n \in S
    PROVE  \/ t.parent[n] = Null /\ n = t.root
           \/ /\ t.parent[n] # Null /\ t.parent[n] \in S /\ t.which[n] \in Child
              /\ t.child[t.parent[n]][t.which[n]] = n
<1>1. Null \notin S
  BY Sides DEF Shape
<1> QED BY <1>1 DEF Shape, Upwards

\* Of some nodes of a tree one is the lowest: neither of its children is among them.
LEMMA Lowest ==
    ASSUME NEW t, NEW S, NEW b, NEW e, Shape(t, S, b, e), NEW Some \in SUBSET S, Some # {}
    PROVE  \E n \in Some : \A d \in Child : t.child[n][d] \notin Some
<1> DEFINE size(n) == e[n][1] - e[n][0]
<1>1. \A n \in S : size(n) \in Nat
  BY Spans DEF Shape
<1> HIDE DEF size
<1> DEFINE Sizes == {size(n) : n \in Some}
<1>2. Sizes \in SUBSET Nat /\ Sizes # {}
  BY <1>1
<1>3. PICK m \in Sizes : \A k \in Sizes : m <= k
  <2> HIDE DEF Sizes
  <2> QED BY <1>2, Least
<1>4. PICK n \in Some : size(n) = m
  OBVIOUS
<1>5. ASSUME NEW d \in Child, t.child[n][d] \in Some
      PROVE  FALSE
  <2>1. t.child[n][d] # Null
    BY <1>5, Sides DEF Shape
  <2>2. size(t.child[n][d]) < size(n)
    BY <2>1, Below DEF size
  <2>3. m <= size(t.child[n][d])
    BY <1>3, <1>5
  <2> QED BY <1>1, <1>4, <1>5, <2>2, <2>3
<1> QED BY <1>5

\* Of some nodes of a tree one is the highest: its parent is not among them.
LEMMA Highest ==
    ASSUME NEW t, NEW S, NEW b, NEW e, Shape(t, S, b, e), NEW Some \in SUBSET S, Some # {}
    PROVE  \E n \in Some : t.parent[n] \notin Some
<1> DEFINE size(n) == MaxNodes - (e[n][1] - e[n][0])
<1>1. \A n \in S : size(n) \in Nat
  BY Spans DEF Shape
<1> HIDE DEF size
<1> DEFINE Sizes == {size(n) : n \in Some}
<1>2. Sizes \in SUBSET Nat /\ Sizes # {}
  BY <1>1
<1>3. PICK m \in Sizes : \A k \in Sizes : m <= k
  <2> HIDE DEF Sizes
  <2> QED BY <1>2, Least
<1>4. PICK n \in Some : size(n) = m
  OBVIOUS
<1>5. ASSUME t.parent[n] \in Some
      PROVE  FALSE
  <2> PICK p, d : p = t.parent[n] /\ d = t.which[n]
    OBVIOUS
  <2>0. p \in S /\ n \in S /\ p # Null /\ n # Null
    <3>1. p \in S /\ n \in S
      BY <1>5
    <3> QED BY <3>1, Sides DEF Shape
  <2>1. d \in Child /\ t.child[p][d] = n
    BY <2>0 DEF Shape, Upwards
  <2>2. /\ e[n][1] - e[n][0] < e[p][1] - e[p][0]
        /\ e[n][1] - e[n][0] \in Nat /\ e[p][1] - e[p][0] \in Nat
    BY <2>0, <2>1, Below
  <2>3. size(p) < size(n)
    BY <2>2, NodesAssumption DEF size
  <2>4. m <= size(p)
    BY <1>3, <1>5
  <2> QED BY <1>1, <1>4, <2>0, <2>3, <2>4
<1> QED BY <1>5

\* The last node on a side has none on that side, and is the child on that side of
\* its parent when it is not the node the side was taken of.
LEMMA Spine ==
    ASSUME NEW t, NEW S, NEW b, NEW e, Shape(t, S, b, e), NEW n \in S, NEW d \in Child
    PROVE  /\ e[n][d] \in S /\ t.child[e[n][d]][d] = Null /\ e[e[n][d]][d] = e[n][d]
           /\ e[n][d] # n => /\ t.parent[e[n][d]] \in S /\ t.which[e[n][d]] = d
                             /\ e[t.parent[e[n][d]]][d] = e[n][d]
<1> PICK u : u = e[n][d]
  OBVIOUS
<1>1. u \in S
  BY DEF Shape, Ends
<1>2. t.child[u][d] = Null /\ e[u][d] = u
  <2> DEFINE Some == {x \in S : e[x][d] = u}
  <2>1. Some \in SUBSET S /\ Some # {}
    OBVIOUS
  <2>2. PICK x \in Some : \A f \in Child : t.child[x][f] \notin Some
    <3> HIDE DEF Some
    <3> QED BY <2>1, Lowest
  <2>3. t.child[x][d] = Null
    BY <2>2, Below
  <2>4. e[x][d] = x
    BY <2>3, Sides DEF Shape, Down
  <2> QED BY <2>3, <2>4
<1>3. ASSUME u # n
      PROVE  t.parent[u] \in S /\ t.which[u] = d /\ e[t.parent[u]][d] = u
  <2> DEFINE Some == {x \in S : e[x][d] = u /\ x # u}
  <2>1. Some \in SUBSET S /\ Some # {}
    BY <1>3
  <2>2. PICK x \in Some : \A f \in Child : t.child[x][f] \notin Some
    <3> HIDE DEF Some
    <3> QED BY <2>1, Lowest
  <2>3. t.child[x][d] # Null
    <3>1. x \in S /\ e[x][d] # x
      OBVIOUS
    <3>2. Null \notin S
      BY Sides DEF Shape
    <3> HIDE DEF Some
    <3> QED BY <3>1, <3>2 DEF Shape, Down
  <2>4. t.child[x][d] = u
    BY <2>2, <2>3, Below
  <2> QED BY <2>3, <2>4, Below
<1> QED BY <1>1, <1>2, <1>3

-----------------------------------------------------------------------------
(* What the changes of links make of the shape.                             *)

\* u is t with c, or nothing, as child w of p, or as the root.
Hung(t, p, w, c, u) ==
    /\ u \in Trees
    /\ u.root = IF p = Null THEN c ELSE t.root
    /\ \A n \in Nodes, d \in Child : u.child[n][d] = IF n = p /\ d = w THEN c ELSE t.child[n][d]
    /\ \A n \in Nodes : u.parent[n] = IF n = c THEN p ELSE t.parent[n]
    /\ \A n \in Nodes : u.which[n] = IF n = c THEN w ELSE t.which[n]
    /\ \A n \in Nodes : u.balance[n] = t.balance[n]

\* Hang makes the change.
LEMMA HangHangs ==
    ASSUME NEW t \in Trees, NEW p \in MaybeNode, NEW w \in Child, NEW c \in MaybeNode
    PROVE  Hung(t, p, w, c, Hang(t, p, w, c))
<1>1. /\ t.root \in MaybeNode /\ t.child \in [Nodes -> [Child -> MaybeNode]]
      /\ t.parent \in [Nodes -> MaybeNode] /\ t.which \in [Nodes -> Child] /\ t.balance \in [Nodes -> Int]
  BY DEF Trees
<1>2. Null \notin Nodes
  BY Sides
<1>3. PICK ch, pa, wh : /\ ch = IF p = Null THEN t.child ELSE [t.child EXCEPT ![p][w] = c]
                        /\ pa = IF c = Null THEN t.parent ELSE [t.parent EXCEPT ![c] = p]
                        /\ wh = IF c = Null THEN t.which ELSE [t.which EXCEPT ![c] = w]
  OBVIOUS
<1>4. /\ ch \in [Nodes -> [Child -> MaybeNode]]
      /\ \A n \in Nodes, d \in Child : ch[n][d] = IF n = p /\ d = w THEN c ELSE t.child[n][d]
  BY <1>1, <1>2, <1>3 DEF MaybeNode
<1>5. pa \in [Nodes -> MaybeNode] /\ \A n \in Nodes : pa[n] = IF n = c THEN p ELSE t.parent[n]
  BY <1>1, <1>2, <1>3 DEF MaybeNode
<1>6. wh \in [Nodes -> Child] /\ \A n \in Nodes : wh[n] = IF n = c THEN w ELSE t.which[n]
  BY <1>1, <1>2, <1>3 DEF MaybeNode
<1>7. PICK u : u = [root |-> IF p = Null THEN c ELSE t.root, child |-> ch, parent |-> pa, which |-> wh,
                    balance |-> t.balance]
  OBVIOUS
<1>8. Hang(t, p, w, c) = u
  BY <1>3, <1>7, Zenon DEF Hang
<1>9. /\ u \in Trees /\ u.root = IF p = Null THEN c ELSE t.root
      /\ u.child = ch /\ u.parent = pa /\ u.which = wh /\ u.balance = t.balance
  BY <1>1, <1>4, <1>5, <1>6, <1>7 DEF Trees
<1> QED BY <1>4, <1>5, <1>6, <1>8, <1>9 DEF Hung

\* r is new on side d of p, which has nothing there.
Entering(t, S, r, p, d) ==
    /\ r \in Nodes /\ r \notin S /\ t.child[r][0] = Null /\ t.child[r][1] = Null
    /\ d \in Child /\ p \in MaybeNode
    /\ p = Null => S = {}
    /\ p # Null => p \in S /\ t.child[p][d] = Null

\* b2 is b with r next to p.
Between(S, b, r, p, d, b2) ==
    /\ Near(S \cup {r}, b2)
    /\ \A n \in S, f \in Child :
          /\ b[n][f] # r
          /\ b2[n][f] = IF (n = p /\ f = d) \/ (b[n][f] = p /\ f = 1 - d) THEN r ELSE b[n][f]
    /\ p # Null => b2[r][d] = b[p][d] /\ b2[r][1 - d] = p

\* e2 is e with r where p was the last one.
Reaching(S, e, r, p, d, e2) ==
    /\ \A f \in Child : e2[r][f] = r
    /\ \A n \in S, f \in Child : e2[n][f] = IF f = d /\ e[n][f] = p THEN r ELSE e[n][f]

\* A new leaf.
LEMMA LeafShape ==
    ASSUME NEW t, NEW S, NEW b, NEW e, Shape(t, S, b, e), NEW r, NEW p, NEW d, Entering(t, S, r, p, d),
           NEW u, Hung(t, p, d, r, u), NEW b2, Between(S, b, r, p, d, b2), NEW e2, Reaching(S, e, r, p, d, e2)
    PROVE  Shape(u, S \cup {r}, b2, e2)
<1>a. /\ r \in Nodes /\ r \notin S /\ t.child[r][0] = Null /\ t.child[r][1] = Null
      /\ d \in Child /\ p \in MaybeNode /\ (p = Null => S = {})
      /\ (p # Null => p \in S /\ t.child[p][d] = Null)
  BY DEF Entering
<1>b. Near(S \cup {r}, b2) /\ (p # Null => b2[r][d] = b[p][d] /\ b2[r][1 - d] = p)
  BY DEF Between
<1>c. \A n \in S, f \in Child :
          /\ b[n][f] # r
          /\ b2[n][f] = IF (n = p /\ f = d) \/ (b[n][f] = p /\ f = 1 - d) THEN r ELSE b[n][f]
  BY DEF Between
<1>d. /\ \A f \in Child : e2[r][f] = r
      /\ \A n \in S, f \in Child : e2[n][f] = IF f = d /\ e[n][f] = p THEN r ELSE e[n][f]
  BY DEF Reaching
<1>0. Null \notin Nodes /\ Nodes \subseteq Int
  BY Sides
<1>1. S \subseteq Nodes /\ r \notin S /\ r # Null /\ p # r /\ Null \notin S /\ r \in Int /\ S \subseteq Int
  BY <1>0, <1>a DEF Shape
<1>2. /\ \A f \in Child : u.child[r][f] = Null
      /\ \A n \in S, f \in Child : u.child[n][f] = IF n = p /\ f = d THEN r ELSE t.child[n][f]
      /\ u.parent[r] = p /\ u.which[r] = d
      /\ \A n \in S : u.parent[n] = t.parent[n] /\ u.which[n] = t.which[n]
      /\ u.root = IF p = Null THEN r ELSE t.root
  BY <1>1, <1>a DEF Hung, Child
<1>3. Ends(S \cup {r}, e2)
  <2>1. ASSUME NEW n \in S, NEW f \in Child
        PROVE  e2[n][f] \in S \cup {r} /\ ~Before(f, n, e2[n][f])
    <3>1. e[n][f] \in S /\ ~Before(f, n, e[n][f])
      BY DEF Shape, Ends
    <3>2. CASE f = d /\ e[n][f] = p
      <4>1. b2[p][d] = r /\ p \in S
        BY <1>1, <1>a, <1>c, <3>1, <3>2
      <4>2. Before(d, r, p)
        BY <1>a, <1>b, <4>1 DEF Near
      <4> QED BY <1>1, <1>d, <3>1, <3>2, <4>1, <4>2, Sides DEF Before
    <3>3. CASE ~(f = d /\ e[n][f] = p)
      BY <1>d, <3>1, <3>3
    <3> QED BY <3>2, <3>3
  <2>2. ASSUME NEW f \in Child
        PROVE  e2[r][f] \in S \cup {r} /\ ~Before(f, r, e2[r][f])
    BY <1>1, <1>d, Sides
  <2> QED BY <2>1, <2>2 DEF Ends
<1>4. Down(u, S \cup {r}, b2, e2)
  <2>1. ASSUME NEW n \in S, NEW f \in Child
        PROVE  \/ u.child[n][f] = Null /\ e2[n][f] = n
               \/ /\ u.child[n][f] \in S \cup {r} /\ u.parent[u.child[n][f]] = n /\ u.which[u.child[n][f]] = f
                  /\ e2[u.child[n][f]][f] = e2[n][f] /\ e2[u.child[n][f]][1 - f] = b2[n][f]
    <3>1. CASE n = p /\ f = d
      <4>0. t.child[p][d] = Null /\ p \in S
        BY <1>1, <1>a, <3>1
      <4>1. e[p][d] = p
        BY <1>a, <4>0, NoneBelow
      <4>2. u.child[n][f] = r /\ e2[n][f] = r /\ b2[n][f] = r
        BY <1>2, <1>c, <1>d, <3>1, <4>1
      <4> QED BY <1>2, <1>d, <3>1, <4>2, Sides
    <3>2. CASE ~(n = p /\ f = d)
      <4> PICK c : c = t.child[n][f]
        OBVIOUS
      <4>1. u.child[n][f] = c
        BY <1>2, <3>2
      <4>2. CASE c = Null
        <5>0. t.child[n][f] = Null
          BY <4>2
        <5>1. e[n][f] = n
          BY <5>0, NoneBelow
        <5>2. e2[n][f] = n
          BY <1>d, <3>2, <5>1
        <5> QED BY <4>1, <4>2, <5>2
      <4>3. CASE c # Null
        <5>1. /\ c \in S /\ t.parent[c] = n /\ t.which[c] = f
              /\ e[c][f] = e[n][f] /\ e[c][1 - f] = b[n][f]
          BY <4>3, Below
        <5>2. e2[c][f] = e2[n][f]
          BY <1>d, <5>1
        <5>3. e2[c][1 - f] = b2[n][f]
          <6>1. 1 - f \in Child /\ (1 - f = d <=> f = 1 - d)
            BY <1>a DEF Child
          <6> QED BY <1>c, <1>d, <3>2, <5>1, <6>1
        <5> QED BY <1>2, <4>1, <5>1, <5>2, <5>3
      <4> QED BY <4>2, <4>3
    <3> QED BY <3>1, <3>2
  <2> QED BY <1>2, <1>d, <2>1 DEF Down
<1>5. Upwards(u, S \cup {r})
  <2>1. ASSUME NEW n \in S
        PROVE  \/ u.parent[n] = Null /\ n = u.root
               \/ u.parent[n] \in S /\ u.which[n] \in Child /\ u.child[u.parent[n]][u.which[n]] = n
    <3>1. CASE t.parent[n] = Null /\ n = t.root
      BY <1>a, <1>2, <3>1
    <3>2. CASE t.parent[n] \in S /\ t.which[n] \in Child /\ t.child[t.parent[n]][t.which[n]] = n
      <4> PICK q, f : q = t.parent[n] /\ f = t.which[n]
        OBVIOUS
      <4>1. q \in S /\ f \in Child /\ t.child[q][f] = n /\ n # Null /\ q # Null
        BY <1>1, <3>2
      <4>2. ~(q = p /\ f = d)
        BY <1>a, <4>1
      <4> QED BY <1>2, <4>1, <4>2
    <3> QED BY <3>1, <3>2 DEF Shape, Upwards
  <2>2. \/ u.parent[r] = Null /\ r = u.root
        \/ u.parent[r] \in S /\ u.which[r] \in Child /\ u.child[u.parent[r]][u.which[r]] = r
    BY <1>2, <1>a
  <2> QED BY <2>1, <2>2 DEF Upwards
<1>6. Top(u, S \cup {r}, b2, e2)
  <2>1. CASE p = Null
    <3>1. u.root = r /\ u.parent[r] = Null /\ S \cup {r} = {r}
      BY <1>2, <1>a, <2>1
    <3>2. \A f \in Child : b2[r][f] # r
      BY <1>1, <1>b, Sides DEF Near
    <3>3. \A f \in Child : e2[r][f] = r
      BY <1>d
    <3> QED BY <3>1, <3>2, <3>3 DEF Top
  <2>2. CASE p # Null
    <3>1. u.root = t.root /\ t.root \in S /\ t.parent[t.root] = Null /\ \A f \in Child : b[e[t.root][f]][f] \notin S
      BY <1>2, <1>a, <2>2 DEF Shape, Top
    <3>2. ASSUME NEW f \in Child
          PROVE  b2[e2[t.root][f]][f] \notin S \cup {r}
      <4> PICK x : x = e[t.root][f]
        OBVIOUS
      <4>1. x \in S /\ b[x][f] \notin S /\ b[x][f] # r
        BY <1>c, <3>1 DEF Shape, Ends
      <4>2. CASE f = d /\ x = p
        BY <1>a, <1>b, <1>d, <2>2, <3>1, <4>1, <4>2
      <4>3. CASE ~(f = d /\ x = p)
        <5>1. e2[t.root][f] = x
          BY <1>d, <3>1, <4>3
        <5>2. b[x][f] # p
          BY <1>a, <2>2, <4>1
        <5> QED BY <1>c, <4>1, <4>3, <5>1, <5>2
      <4> QED BY <4>2, <4>3
    <3> QED BY <1>2, <3>1, <3>2 DEF Top
  <2> QED BY <2>1, <2>2
<1> QED BY <1>a, <1>1, <1>b, <1>3, <1>4, <1>5, <1>6 DEF Shape

\* The nodes of a rotation: n, its child c on side d, the inner child g of c, the parent of n.
Chain(t, n, d, c, g, p, w) ==
    /\ n \in Nodes /\ d \in Child /\ c # Null
    /\ c = t.child[n][d] /\ g = t.child[c][1 - d] /\ p = t.parent[n] /\ w = t.which[n]

\* Node n has become the child of its own child on side d, which has taken its place.
Turned(t, n, d, c, g, p, w, u) ==
    /\ u.root = IF p = Null THEN c ELSE t.root
    /\ \A x \in Nodes, f \in Child :
          u.child[x][f] = IF x = c /\ f = 1 - d THEN n ELSE IF x = n /\ f = d THEN g
                          ELSE IF x = p /\ f = w THEN c ELSE t.child[x][f]
    /\ \A x \in Nodes : u.parent[x] = IF x = c THEN p ELSE IF x = n THEN c ELSE IF x = g THEN n ELSE t.parent[x]
    /\ \A x \in Nodes : u.which[x] = IF x = c THEN w ELSE IF x = n THEN 1 - d ELSE IF x = g THEN d ELSE t.which[x]

\* e2 is e after that.
Swung(S, b, e, n, d, c, e2) ==
    \A x \in S, f \in Child :
        e2[x][f] = IF x = n /\ f = d THEN b[c][1 - d] ELSE IF x = c /\ f = 1 - d THEN e[n][1 - d] ELSE e[x][f]

\* What is known of the nodes around such a place.
Nearby(t, S, b, e, n, d, c, g, p, w) ==
    /\ c \in S /\ c # n /\ t.parent[c] = n /\ t.which[c] = d
    /\ e[c][d] = e[n][d] /\ e[c][1 - d] = b[n][d]
    /\ g = Null => b[c][1 - d] = n
    /\ g # Null => /\ g \in S /\ t.parent[g] = c /\ t.which[g] = 1 - d /\ g # c /\ g # n
                   /\ e[g][1 - d] = b[n][d] /\ e[g][d] = b[c][1 - d]
    /\ \/ p = Null /\ n = t.root
       \/ /\ p # Null /\ p \in S /\ w \in Child /\ t.child[p][w] = n /\ p # n /\ p # c
          /\ e[p][w] = e[n][w] /\ b[p][w] = e[n][1 - w] /\ p # g

\* It is so.
LEMMA Around ==
    ASSUME NEW t, NEW S, NEW b, NEW e, Shape(t, S, b, e), NEW n \in S, NEW d \in Child,
           NEW c, NEW g, NEW p, NEW w, Chain(t, n, d, c, g, p, w)
    PROVE  Nearby(t, S, b, e, n, d, c, g, p, w)
<1>0. Null \notin S /\ 1 - d \in Child /\ 1 - (1 - d) = d
  BY Sides DEF Shape
<1>a. c # Null /\ c = t.child[n][d] /\ g = t.child[c][1 - d] /\ p = t.parent[n] /\ w = t.which[n]
  BY DEF Chain
<1>1. /\ c \in S /\ c # n /\ t.parent[c] = n /\ t.which[c] = d
      /\ e[c][d] = e[n][d] /\ e[c][1 - d] = b[n][d]
      /\ e[c][1] - e[c][0] < e[n][1] - e[n][0] /\ e[n][1] - e[n][0] \in Nat /\ e[c][1] - e[c][0] \in Nat
  BY <1>a, Below
<1>2. g = Null => b[c][1 - d] = n
  <2>1. ASSUME g = Null
        PROVE  e[c][1 - d] = c
    <3> PICK f : f = 1 - d
      OBVIOUS
    <3>1. f \in Child /\ t.child[c][f] = Null
      BY <1>0, <1>a, <2>1
    <3>2. e[c][f] = c
      BY <1>1, <3>1, NoneBelow
    <3> QED BY <3>2
  <2>2. b[n][d] \in S => b[b[n][d]][1 - d] = n
    BY DEF Shape, Near
  <2> QED BY <1>1, <2>1, <2>2
<1>3. ASSUME g # Null
      PROVE  /\ g \in S /\ t.parent[g] = c /\ t.which[g] = 1 - d /\ g # c /\ g # n
             /\ e[g][1 - d] = b[n][d] /\ e[g][d] = b[c][1 - d]
             /\ e[g][1] - e[g][0] < e[n][1] - e[n][0] /\ e[g][1] - e[g][0] \in Nat
  <2>1. /\ g \in S /\ t.parent[g] = c /\ t.which[g] = 1 - d /\ g # c
        /\ e[g][1 - d] = e[c][1 - d] /\ e[g][1 - (1 - d)] = b[c][1 - d]
        /\ e[g][1] - e[g][0] < e[c][1] - e[c][0] /\ e[g][1] - e[g][0] \in Nat
    <3> PICK f : f = 1 - d
      OBVIOUS
    <3>1. f \in Child /\ g = t.child[c][f]
      BY <1>0, <1>a
    <3>2. /\ g \in S /\ t.parent[g] = c /\ t.which[g] = f /\ g # c
          /\ e[g][f] = e[c][f] /\ e[g][1 - f] = b[c][f]
          /\ e[g][1] - e[g][0] < e[c][1] - e[c][0] /\ e[g][1] - e[g][0] \in Nat
      BY <1>1, <1>3, <3>1, Below
    <3> QED BY <3>2
  <2>2. g # n /\ e[g][1] - e[g][0] < e[n][1] - e[n][0]
    <3> PICK i, j, k : i = e[g][1] - e[g][0] /\ j = e[c][1] - e[c][0] /\ k = e[n][1] - e[n][0]
      OBVIOUS
    <3>1. i \in Nat /\ j \in Nat /\ k \in Nat /\ i < j /\ j < k
      BY <1>1, <2>1
    <3>2. i < k
      BY <3>1
    <3> QED BY <3>1, <3>2
  <2> QED BY <1>0, <1>1, <2>1, <2>2
<1>4. ASSUME ~(p = Null /\ n = t.root)
      PROVE  /\ p # Null /\ p \in S /\ w \in Child /\ t.child[p][w] = n /\ p # n /\ p # c
             /\ e[p][w] = e[n][w] /\ b[p][w] = e[n][1 - w] /\ p # g
  <2>1. p # Null /\ p \in S /\ w \in Child /\ t.child[p][w] = n
    BY <1>4, <1>a, Parents
  <2>2. /\ n # p /\ e[n][w] = e[p][w] /\ e[n][1 - w] = b[p][w]
        /\ e[n][1] - e[n][0] < e[p][1] - e[p][0] /\ e[p][1] - e[p][0] \in Nat
    BY <1>0, <2>1, Below
  <2>3. p # g
    <3>1. CASE g = Null
      BY <2>1, <3>1
    <3>2. CASE g # Null
      <4> PICK i, j, k : i = e[g][1] - e[g][0] /\ j = e[n][1] - e[n][0] /\ k = e[p][1] - e[p][0]
        OBVIOUS
      <4>1. i \in Nat /\ j \in Nat /\ k \in Nat /\ i < j /\ j < k
        BY <1>1, <1>3, <2>2, <3>2
      <4>2. i # k
        BY <4>1
      <4> QED BY <4>2
    <3> QED BY <3>1, <3>2
  <2> QED BY <1>1, <2>1, <2>2, <2>3
<1> QED BY <1>1, <1>2, <1>3, <1>4 DEF Nearby

\* That keeps the order of the nodes.
LEMMA TurnShape ==
    ASSUME NEW t, NEW S, NEW b, NEW e, Shape(t, S, b, e), NEW n \in S, NEW d \in Child,
           NEW c, NEW g, NEW p, NEW w, Chain(t, n, d, c, g, p, w),
           NEW u, Turned(t, n, d, c, g, p, w, u), NEW e2, Swung(S, b, e, n, d, c, e2)
    PROVE  Shape(u, S, b, e2)
<1>0. /\ Null \notin S /\ S \subseteq Nodes /\ S \subseteq Int
      /\ d \in Child /\ 1 - d \in Child /\ 1 - (1 - d) = d /\ 1 - d # d
      /\ \A f \in Child : f = d \/ f = 1 - d
  BY Sides DEF Shape
<1>1. c # Null /\ c = t.child[n][d] /\ g = t.child[c][1 - d] /\ p = t.parent[n] /\ w = t.which[n]
  BY DEF Chain
<1>2. /\ c \in S /\ c # n /\ t.parent[c] = n /\ t.which[c] = d
      /\ e[c][d] = e[n][d] /\ e[c][1 - d] = b[n][d]
      /\ g = Null => b[c][1 - d] = n
      /\ g # Null => /\ g \in S /\ t.parent[g] = c /\ t.which[g] = 1 - d /\ g # c /\ g # n
                     /\ e[g][1 - d] = b[n][d] /\ e[g][d] = b[c][1 - d]
      /\ \/ p = Null /\ n = t.root
         \/ /\ p # Null /\ p \in S /\ w \in Child /\ t.child[p][w] = n /\ p # n /\ p # c
            /\ e[p][w] = e[n][w] /\ b[p][w] = e[n][1 - w]
  <2>1. Nearby(t, S, b, e, n, d, c, g, p, w)
    BY Around
  <2> QED BY <2>1 DEF Nearby
<1>3. /\ e2[n][d] = b[c][1 - d] /\ e2[n][1 - d] = e[n][1 - d]
      /\ e2[c][1 - d] = e[n][1 - d] /\ e2[c][d] = e[c][d]
      /\ \A x \in S, f \in Child : ~(x = n /\ f = d) /\ ~(x = c /\ f = 1 - d) => e2[x][f] = e[x][f]
  BY <1>0, <1>2 DEF Swung
<1>4. /\ u.root = IF p = Null THEN c ELSE t.root
      /\ u.child[c][1 - d] = n /\ u.child[n][d] = g
      /\ p # Null => u.child[p][w] = c
      /\ \A x \in S, f \in Child :
            ~(x = c /\ f = 1 - d) /\ ~(x = n /\ f = d) /\ ~(x = p /\ f = w) => u.child[x][f] = t.child[x][f]
      /\ u.parent[c] = p /\ u.parent[n] = c /\ (g # Null => u.parent[g] = n)
      /\ \A x \in S : x \notin {c, n, g} => u.parent[x] = t.parent[x]
      /\ u.which[c] = w /\ u.which[n] = 1 - d /\ (g # Null => u.which[g] = d)
      /\ \A x \in S : x \notin {c, n, g} => u.which[x] = t.which[x]
  <2>1. /\ u.root = IF p = Null THEN c ELSE t.root
        /\ u.child[c][1 - d] = n /\ u.child[n][d] = g
        /\ p # Null => u.child[p][w] = c
        /\ \A x \in S, f \in Child :
              ~(x = c /\ f = 1 - d) /\ ~(x = n /\ f = d) /\ ~(x = p /\ f = w) => u.child[x][f] = t.child[x][f]
    BY <1>0, <1>2 DEF Turned
  <2>2. /\ u.parent[c] = p /\ u.parent[n] = c /\ (g # Null => u.parent[g] = n)
        /\ \A x \in S : x \notin {c, n, g} => u.parent[x] = t.parent[x]
    BY <1>0, <1>2 DEF Turned
  <2>3. /\ u.which[c] = w /\ u.which[n] = 1 - d /\ (g # Null => u.which[g] = d)
        /\ \A x \in S : x \notin {c, n, g} => u.which[x] = t.which[x]
    BY <1>0, <1>2 DEF Turned
  <2> QED BY <2>1, <2>2, <2>3
<1>5. Ends(S, e2)
  <2>1. \A x \in S, f \in Child : e[x][f] \in S /\ ~Before(f, x, e[x][f])
    BY DEF Shape, Ends
  <2>2. Before(d, c, n) /\ Before(d, b[n][d], n) /\ b[n][d] \in Int
    <3>1. Before(d, c, n)
      BY <1>0, <1>1, Below
    <3>2. Before(d, b[n][d], n) /\ b[n][d] \in Int
      BY <1>0 DEF Shape, Near
    <3> QED BY <3>1, <3>2
  <2>3. e2[n][d] \in S /\ ~Before(d, n, e2[n][d])
    <3>1. CASE g = Null
      BY <1>0, <1>2, <1>3, <3>1, Sides
    <3>2. CASE g # Null
      <4>1. /\ g \in S /\ e[g][d] \in S /\ e[g][1 - d] \in S /\ e[g][1 - d] = b[n][d] /\ e[g][d] = b[c][1 - d]
            /\ ~Before(d, g, e[g][d]) /\ ~Before(1 - d, g, e[g][1 - d])
        BY <1>0, <1>2, <2>1, <3>2
      <4>2. \A x, y, z \in Int : ~Before(d, x, y) /\ ~Before(1 - d, x, z) /\ Before(d, z, n) => ~Before(d, n, y)
        BY <1>0 DEF Before, Child
      <4> QED BY <1>0, <1>3, <2>2, <4>1, <4>2
    <3> QED BY <3>1, <3>2
  <2>4. e2[c][1 - d] \in S /\ ~Before(1 - d, c, e2[c][1 - d])
    <3>1. e[n][1 - d] \in S /\ ~Before(1 - d, n, e[n][1 - d])
      BY <1>0, <2>1
    <3>2. \A y \in Int : ~Before(1 - d, n, y) /\ Before(d, c, n) => ~Before(1 - d, c, y)
      BY <1>0, <1>2 DEF Before, Child
    <3> QED BY <1>0, <1>3, <2>2, <3>1, <3>2
  <2> QED BY <1>3, <2>1, <2>3, <2>4 DEF Ends
<1>6. Down(u, S, b, e2)
  <2> SUFFICES ASSUME NEW x \in S, NEW f \in Child
               PROVE  \/ u.child[x][f] = Null /\ e2[x][f] = x
                      \/ /\ u.child[x][f] \in S /\ u.parent[u.child[x][f]] = x /\ u.which[u.child[x][f]] = f
                         /\ e2[u.child[x][f]][f] = e2[x][f] /\ e2[u.child[x][f]][1 - f] = b[x][f]
    BY DEF Down
  <2>1. CASE x = c /\ f = 1 - d
    BY <1>0, <1>3, <1>4, <2>1
  <2>2. CASE x = n /\ f = d
    <3>1. CASE g = Null
      BY <1>2, <1>3, <1>4, <2>2, <3>1
    <3>2. CASE g # Null
      <4>1. e2[g][d] = e[g][d] /\ e2[g][1 - d] = e[g][1 - d]
        BY <1>0, <1>2, <1>3, <3>2
      <4> QED BY <1>2, <1>3, <1>4, <2>2, <3>2, <4>1
    <3> QED BY <3>1, <3>2
  <2>3. CASE x = p /\ f = w
    <3>1. p # Null /\ e[p][w] = e[n][w] /\ b[p][w] = e[n][1 - w] /\ w \in Child /\ p # n /\ p # c
      BY <1>0, <1>2, <2>3
    <3>2. e2[p][w] = e[p][w]
      BY <1>3, <2>3, <3>1
    <3>3. e2[c][w] = e[n][w] /\ e2[c][1 - w] = e[n][1 - w]
      BY <1>0, <1>2, <1>3, <3>1
    <3> QED BY <1>2, <1>4, <2>3, <3>1, <3>2, <3>3
  <2>4. CASE ~(x = c /\ f = 1 - d) /\ ~(x = n /\ f = d) /\ ~(x = p /\ f = w)
    <3> PICK y : y = t.child[x][f]
      OBVIOUS
    <3>1. u.child[x][f] = y /\ e2[x][f] = e[x][f]
      BY <1>3, <1>4, <2>4
    <3>2. CASE y = Null
      <4>1. t.child[x][f] = Null
        BY <3>2
      <4>2. e[x][f] = x
        BY <4>1, NoneBelow
      <4> QED BY <3>1, <3>2, <4>2
    <3>3. CASE y # Null
      <4>1. y \in S /\ t.parent[y] = x /\ t.which[y] = f /\ e[y][f] = e[x][f] /\ e[y][1 - f] = b[x][f]
        BY <3>3, Below
      <4>2. y \notin {c, n, g}
        BY <1>0, <1>1, <1>2, <2>4, <4>1
      <4>3. e2[y][f] = e[y][f] /\ e2[y][1 - f] = e[y][1 - f]
        BY <1>0, <1>3, <4>1, <4>2
      <4> QED BY <1>4, <3>1, <4>1, <4>2, <4>3
    <3> QED BY <3>2, <3>3
  <2> QED BY <2>1, <2>2, <2>3, <2>4
<1>7. Upwards(u, S)
  <2> SUFFICES ASSUME NEW x \in S
               PROVE  \/ u.parent[x] = Null /\ x = u.root
                      \/ u.parent[x] \in S /\ u.which[x] \in Child /\ u.child[u.parent[x]][u.which[x]] = x
    BY DEF Upwards
  <2>1. CASE x = c
    BY <1>2, <1>4, <2>1
  <2>2. CASE x = n
    BY <1>0, <1>2, <1>4, <2>2
  <2>3. CASE x = g
    BY <1>0, <1>2, <1>4, <2>3
  <2>4. CASE x \notin {c, n, g}
    <3>1. u.parent[x] = t.parent[x] /\ u.which[x] = t.which[x]
      BY <1>4, <2>4
    <3>2. CASE t.parent[x] = Null /\ x = t.root
      BY <1>2, <1>4, <2>4, <3>1, <3>2
    <3>3. CASE ~(t.parent[x] = Null /\ x = t.root)
      <4> PICK q, f : q = t.parent[x] /\ f = t.which[x]
        OBVIOUS
      <4>1. q # Null /\ q \in S /\ f \in Child /\ t.child[q][f] = x
        BY <3>3, Parents
      <4>2. ~(q = c /\ f = 1 - d) /\ ~(q = n /\ f = d) /\ ~(q = p /\ f = w)
        BY <1>1, <1>2, <2>4, <4>1
      <4> QED BY <1>4, <3>1, <4>1, <4>2
    <3> QED BY <3>2, <3>3
  <2> QED BY <2>1, <2>2, <2>3, <2>4
<1>8. Top(u, S, b, e2)
  <2>1. t.root \in S /\ t.parent[t.root] = Null /\ \A f \in Child : b[e[t.root][f]][f] \notin S
    BY DEF Shape, Top
  <2>2. CASE p = Null
    <3>1. n = t.root /\ u.root = c /\ u.parent[c] = Null
      BY <1>2, <1>4, <2>2
    <3>2. \A f \in Child : e2[c][f] = e[n][f]
      BY <1>0, <1>2, <1>3
    <3> QED BY <1>2, <2>1, <3>1, <3>2 DEF Top
  <2>3. CASE p # Null
    <3>1. t.root \notin {c, n, g} /\ u.root = t.root
      BY <1>0, <1>1, <1>2, <1>4, <2>1, <2>3
    <3>2. u.parent[t.root] = Null /\ \A f \in Child : e2[t.root][f] = e[t.root][f]
      BY <1>3, <1>4, <2>1, <3>1
    <3> QED BY <2>1, <3>1, <3>2 DEF Top
  <2> QED BY <2>2, <2>3
<1> QED BY <1>0, <1>5, <1>6, <1>7, <1>8 DEF Shape

-----------------------------------------------------------------------------
(* The rotations.                                                           *)

\* The three links of a single rotation.
LEMMA OnceTurns ==
    ASSUME NEW t, NEW S, NEW b, NEW e, Shape(t, S, b, e), NEW n \in S, NEW d \in Child,
           NEW c, NEW g, NEW p, NEW w, Chain(t, n, d, c, g, p, w),
           NEW u1, Hung(t, n, d, g, u1), NEW u2, Hung(u1, c, 1 - d, n, u2), NEW u3, Hung(u2, p, w, c, u3)
    PROVE  Turned(t, n, d, c, g, p, w, u3)
<1>1. Nearby(t, S, b, e, n, d, c, g, p, w)
  BY Around
<1>2. /\ Null \notin S /\ S \subseteq Nodes /\ Null \notin Nodes /\ d # 1 - d /\ 1 - d \in Child
  BY Sides DEF Shape
<1>3. c \in S /\ c # n /\ p # n /\ p # c /\ c # Null /\ n # Null /\ g # n /\ g # c
  BY <1>1, <1>2 DEF Nearby
<1>4. u3.root = IF p = Null THEN c ELSE t.root
  BY <1>3 DEF Hung
<1>5. \A x \in Nodes, f \in Child :
          u3.child[x][f] = IF x = c /\ f = 1 - d THEN n ELSE IF x = n /\ f = d THEN g
                           ELSE IF x = p /\ f = w THEN c ELSE t.child[x][f]
  BY <1>2, <1>3 DEF Hung
<1>6. \A x \in Nodes :
          u3.parent[x] = IF x = c THEN p ELSE IF x = n THEN c ELSE IF x = g THEN n ELSE t.parent[x]
  BY <1>3 DEF Hung
<1>7. \A x \in Nodes :
          u3.which[x] = IF x = c THEN w ELSE IF x = n THEN 1 - d ELSE IF x = g THEN d ELSE t.which[x]
  BY <1>3 DEF Hung
<1> QED BY <1>4, <1>5, <1>6, <1>7 DEF Turned

\* A turn has a new reach.
LEMMA TurnedShape ==
    ASSUME NEW t, NEW S, NEW b, NEW e, Shape(t, S, b, e), NEW n \in S, NEW d \in Child,
           NEW c, NEW g, NEW p, NEW w, Chain(t, n, d, c, g, p, w), NEW u, Turned(t, n, d, c, g, p, w, u)
    PROVE  \E e2 : Shape(u, S, b, e2)
<1>1. PICK e2 : e2 = [x \in S |-> [f \in Child |->
                        IF x = n /\ f = d THEN b[c][1 - d] ELSE IF x = c /\ f = 1 - d THEN e[n][1 - d] ELSE e[x][f]]]
  OBVIOUS
<1>2. Swung(S, b, e, n, d, c, e2)
  BY <1>1 DEF Swung
<1> QED BY <1>2, TurnShape

\* What the balances become.
Kept(t, n, d, c, u) ==
    LET b == t.balance[c] - Grown(d) IN
    /\ u \in Trees
    /\ \A x \in Nodes : u.balance[x] = IF x = c THEN b ELSE IF x = n THEN -b ELSE t.balance[x]

\* The signs.
LEMMA Signs ==
    ASSUME NEW d \in Child
    PROVE  /\ Grown(d) \in Int /\ Grown(1 - d) = -Grown(d) /\ Grown(d) # 0 /\ Grown(d) \in -1..1
           /\ (IF 2 * Grown(d) < 0 THEN 0 ELSE 1) = d
           /\ (IF 2 * Grown(d) < 0 THEN -1 ELSE 1) = Grown(d)
BY DEF Child, Grown

\* avl_rotation when the child is not heavy on the other side.
LEMMA RotatesOnce ==
    ASSUME NEW t \in Trees, NEW S, NEW b, NEW e, Shape(t, S, b, e), NEW n \in S, NEW d \in Child,
           NEW c, NEW g, NEW p, NEW w, Chain(t, n, d, c, g, p, w), t.balance[c] # -Grown(d),
           NEW r, r = Rotation(t, n, 2 * Grown(d))
    PROVE  /\ Turned(t, n, d, c, g, p, w, r.tree) /\ Kept(t, n, d, c, r.tree)
           /\ r.shorter <=> t.balance[c] = Grown(d)
<1>a. c # Null /\ c = t.child[n][d] /\ g = t.child[c][1 - d] /\ p = t.parent[n] /\ w = t.which[n]
  BY DEF Chain
<1>0. /\ Null \notin S /\ S \subseteq Nodes /\ S \subseteq MaybeNode /\ 1 - d \in Child /\ 1 - (1 - d) = d
  BY Sides DEF Shape, MaybeNode
<1>1. Nearby(t, S, b, e, n, d, c, g, p, w)
  BY Around
<1>2. c \in S /\ c # n /\ g \in MaybeNode /\ p \in MaybeNode /\ w \in Child
  BY <1>0, <1>a, <1>1 DEF Nearby, Trees, MaybeNode
<1>3. PICK u1 : u1 = Hang(t, n, d, g)
  OBVIOUS
<1>4. Hung(t, n, d, g, u1)
  BY <1>0, <1>2, <1>3, HangHangs
<1>5. PICK u2 : u2 = Hang(u1, c, 1 - d, n)
  OBVIOUS
<1>6. u1 \in Trees /\ Hung(u1, c, 1 - d, n, u2)
  <2>1. u1 \in Trees
    BY <1>4 DEF Hung
  <2> QED BY <2>1, <1>0, <1>2, <1>5, HangHangs
<1>7. PICK u3 : u3 = Hang(u2, p, w, c)
  OBVIOUS
<1>8. Hung(u2, p, w, c, u3)
  <2>1. u2 \in Trees
    BY <1>6 DEF Hung
  <2> QED BY <2>1, <1>0, <1>2, <1>7, HangHangs
<1>9. u3 \in Trees /\ Turned(t, n, d, c, g, p, w, u3)
  BY <1>4, <1>6, <1>8, OnceTurns DEF Hung
<1>10. Once(t, n, d) = u2
  BY <1>0, <1>a, <1>3, <1>5, Zenon DEF Once, Lowered
<1>11. PICK v, w2 : v = t.balance[c] - Grown(d) /\ w2 = [t.balance EXCEPT ![n] = -v, ![c] = v]
  OBVIOUS
<1>12. v = t.balance[c] + (-Grown(d)) /\ v \in Int /\ (v = 0 <=> t.balance[c] = Grown(d))
  <2>1. t.balance[c] \in Int
    BY <1>0, <1>2 DEF Trees
  <2>2. Grown(d) \in Int
    BY Signs
  <2>3. \A x, y \in Int : x - y = x + (-y) /\ x - y \in Int /\ (x - y = 0 <=> x = y)
    OBVIOUS
  <2> QED BY <1>11, <2>1, <2>2, <2>3
<1>13. w2 \in [Nodes -> Int] /\ \A x \in Nodes : w2[x] = IF x = c THEN v ELSE IF x = n THEN -v ELSE t.balance[x]
  BY <1>0, <1>2, <1>11, <1>12 DEF Trees
<1>14. r = [tree |-> [u3 EXCEPT !.balance = w2], shorter |-> v = 0]
  BY <1>a, <1>7, <1>10, <1>11, <1>12, Signs, Zenon DEF Rotation
<1>15. PICK z : z = [u3 EXCEPT !.balance = w2]
  OBVIOUS
<1>16. /\ z \in Trees /\ z.root = u3.root /\ z.child = u3.child /\ z.parent = u3.parent /\ z.which = u3.which
       /\ z.balance = w2
  BY <1>9, <1>13, <1>15 DEF Trees
<1>17. Turned(t, n, d, c, g, p, w, z)
  BY <1>9, <1>16 DEF Turned
<1>18. Kept(t, n, d, c, z)
  BY <1>11, <1>13, <1>16 DEF Kept
<1>19. r.tree = z /\ r.shorter = (v = 0)
  BY <1>14, <1>15
<1> QED BY <1>12, <1>17, <1>18, <1>19, Zenon

\* Node c is turned with its inner child g, and then n with g.
Doubled(t, n, d, c, g, p, w, u) ==
    \E t1 : /\ Turned(t, c, 1 - d, g, t.child[g][d], n, d, t1)
            /\ Turned(t1, n, d, g, t.child[g][1 - d], p, w, u)
            /\ Chain(t1, n, d, g, t.child[g][1 - d], p, w)

\* The inner child of c is between two others as well.
LEMMA Inner ==
    ASSUME NEW t, NEW S, NEW b, NEW e, Shape(t, S, b, e), NEW n \in S, NEW d \in Child,
           NEW c, NEW g, NEW p, NEW w, Chain(t, n, d, c, g, p, w), g # Null
    PROVE  /\ c \in S /\ 1 - d \in Child /\ Chain(t, c, 1 - d, g, t.child[g][d], n, d)
           /\ Nearby(t, S, b, e, c, 1 - d, g, t.child[g][d], n, d)
           /\ Nearby(t, S, b, e, n, d, c, g, p, w)
<1>0. Null \notin S /\ S \subseteq Nodes /\ 1 - d \in Child /\ 1 - (1 - d) = d
  BY Sides DEF Shape
<1>1. Nearby(t, S, b, e, n, d, c, g, p, w)
  BY Around
<1>2. c \in S /\ t.parent[c] = n /\ t.which[c] = d
  BY <1>1 DEF Nearby
<1>3. Chain(t, c, 1 - d, g, t.child[g][d], n, d)
  BY <1>0, <1>2 DEF Chain
<1>4. Nearby(t, S, b, e, c, 1 - d, g, t.child[g][d], n, d)
  <2> PICK f, k : f = 1 - d /\ k = t.child[g][d]
    OBVIOUS
  <2>1. f \in Child /\ Chain(t, c, f, g, k, n, d)
    BY <1>0, <1>3
  <2>2. Nearby(t, S, b, e, c, f, g, k, n, d)
    BY <1>2, <2>1, Around
  <2> QED BY <2>2
<1> QED BY <1>0, <1>1, <1>2, <1>3, <1>4

\* A double rotation has a new reach.
LEMMA DoubledShape ==
    ASSUME NEW t, NEW S, NEW b, NEW e, Shape(t, S, b, e), NEW n \in S, NEW d \in Child,
           NEW c, NEW g, NEW p, NEW w, Chain(t, n, d, c, g, p, w), g # Null,
           NEW u, Doubled(t, n, d, c, g, p, w, u)
    PROVE  \E e2 : Shape(u, S, b, e2)
<1>1. PICK t1 : /\ Turned(t, c, 1 - d, g, t.child[g][d], n, d, t1)
                /\ Turned(t1, n, d, g, t.child[g][1 - d], p, w, u)
                /\ Chain(t1, n, d, g, t.child[g][1 - d], p, w)
  BY DEF Doubled
<1>2. c \in S /\ 1 - d \in Child /\ Chain(t, c, 1 - d, g, t.child[g][d], n, d)
  BY Inner
<1>3. PICK e1 : Shape(t1, S, b, e1)
  <2> PICK f, k : f = 1 - d /\ k = t.child[g][d]
    OBVIOUS
  <2>1. f \in Child /\ Chain(t, c, f, g, k, n, d) /\ Turned(t, c, f, g, k, n, d, t1)
    BY <1>1, <1>2
  <2> QED BY <1>2, <2>1, TurnedShape
<1> QED BY <1>1, <1>3, TurnedShape

\* The five links of a double rotation.
LEMMA TwiceTurns ==
    ASSUME NEW t \in Trees, NEW S, NEW b, NEW e, Shape(t, S, b, e), NEW n \in S, NEW d \in Child,
           NEW c, NEW g, NEW p, NEW w, Chain(t, n, d, c, g, p, w), g # Null,
           NEW u1, Hung(t, c, 1 - d, t.child[g][d], u1), NEW u2, Hung(u1, g, d, c, u2),
           NEW u3, Hung(u2, n, d, t.child[g][1 - d], u3), NEW u4, Hung(u3, g, 1 - d, n, u4),
           NEW u5, Hung(u4, p, w, g, u5)
    PROVE  Doubled(t, n, d, c, g, p, w, u5)
<1>0. /\ Null \notin S /\ S \subseteq Nodes /\ S \subseteq MaybeNode /\ 1 - d \in Child /\ 1 - (1 - d) = d /\ d # 1 - d
      /\ Null \notin Nodes
  BY Sides DEF Shape, MaybeNode
<1>1. /\ c \in S /\ Chain(t, c, 1 - d, g, t.child[g][d], n, d)
      /\ Nearby(t, S, b, e, c, 1 - d, g, t.child[g][d], n, d)
      /\ Nearby(t, S, b, e, n, d, c, g, p, w)
  BY Inner
<1>2. PICK f, k, m : f = 1 - d /\ k = t.child[g][d] /\ m = t.child[g][f]
  OBVIOUS
<1>3. PICK t1 : t1 = Hang(u2, n, d, g)
  OBVIOUS
<1>4. g \in S /\ n # c /\ n # g /\ g # c /\ k # c /\ k # g
  BY <1>0, <1>1, <1>2 DEF Nearby
<1>5. Hung(u2, n, d, g, t1)
  <2>1. u2 \in Trees
    BY DEF Hung
  <2> QED BY <2>1, <1>0, <1>3, <1>4, HangHangs
<1>6. Turned(t, c, f, g, k, n, d, t1)
  <2>1. Hung(t, c, f, k, u1) /\ Hung(u1, g, 1 - f, c, u2) /\ f \in Child /\ Chain(t, c, f, g, k, n, d)
    BY <1>0, <1>1, <1>2
  <2> QED BY <2>1, <1>1, <1>5, OnceTurns
<1>7. k # n /\ p # g /\ p # n
  <2>1. p # g /\ p # n
    BY <1>0, <1>1, <1>4 DEF Nearby
  <2>2. k # Null => t.parent[k] = g
    BY <1>1, <1>2 DEF Nearby
  <2>3. p = t.parent[n] /\ n # Null
    BY <1>0 DEF Chain
  <2> QED BY <2>1, <2>2, <2>3
<1>8. Chain(t1, n, d, g, m, p, w)
  <2>1. t1.child[n][d] = g /\ t1.child[g][f] = m /\ t1.parent[n] = t.parent[n] /\ t1.which[n] = t.which[n]
    BY <1>0, <1>2, <1>4, <1>6, <1>7 DEF Turned
  <2> QED BY <1>0, <1>2, <1>4, <2>1 DEF Chain
<1>9. Turned(t1, n, d, g, m, p, w, u5)
  <2>1. u5.root = IF p = Null THEN g ELSE t1.root
    BY <1>0, <1>4, <1>5 DEF Hung
  <2>2. \A x \in Nodes, h \in Child :
            u5.child[x][h] = IF x = g /\ h = 1 - d THEN n ELSE IF x = n /\ h = d THEN m
                             ELSE IF x = p /\ h = w THEN g ELSE t1.child[x][h]
    BY <1>0, <1>2, <1>4, <1>5, <1>7 DEF Hung
  <2>3. \A x \in Nodes :
            u5.parent[x] = IF x = g THEN p ELSE IF x = n THEN g ELSE IF x = m THEN n ELSE t1.parent[x]
    BY <1>0, <1>2, <1>4, <1>5 DEF Hung
  <2>4. \A x \in Nodes :
            u5.which[x] = IF x = g THEN w ELSE IF x = n THEN 1 - d ELSE IF x = m THEN d ELSE t1.which[x]
    BY <1>0, <1>2, <1>4, <1>5 DEF Hung
  <2> QED BY <2>1, <2>2, <2>3, <2>4 DEF Turned
<1> QED BY <1>2, <1>6, <1>8, <1>9 DEF Doubled

\* What the balances become then.
KeptTwice(t, n, d, c, g, u) ==
    /\ u \in Trees
    /\ \A x \in Nodes : u.balance[x] = IF x = g THEN 0 ELSE IF x = n THEN Passed(t.balance[g], Grown(d))
                                       ELSE IF x = c THEN Passed(t.balance[g], -Grown(d)) ELSE t.balance[x]

\* avl_rotation when it is.
LEMMA RotatesTwice ==
    ASSUME NEW t \in Trees, NEW S, NEW b, NEW e, Shape(t, S, b, e), NEW n \in S, NEW d \in Child,
           NEW c, NEW g, NEW p, NEW w, Chain(t, n, d, c, g, p, w), t.balance[c] = -Grown(d), g # Null,
           NEW r, r = Rotation(t, n, 2 * Grown(d))
    PROVE  Doubled(t, n, d, c, g, p, w, r.tree) /\ KeptTwice(t, n, d, c, g, r.tree) /\ r.shorter
<1>a. c # Null /\ c = t.child[n][d] /\ g = t.child[c][1 - d] /\ p = t.parent[n] /\ w = t.which[n]
  BY DEF Chain
<1>0. /\ Null \notin S /\ S \subseteq Nodes /\ S \subseteq MaybeNode /\ 1 - d \in Child /\ 1 - (1 - d) = d
      /\ d # 1 - d
  BY Sides DEF Shape, MaybeNode
<1>1. Nearby(t, S, b, e, n, d, c, g, p, w)
  BY Around
<1>2. c \in S /\ c # n /\ g \in S /\ g # c /\ g # n /\ p \in MaybeNode /\ w \in Child
  BY <1>0, <1>a, <1>1 DEF Nearby, Trees, MaybeNode
<1>3. PICK k, m : k = t.child[g][d] /\ m = t.child[g][1 - d]
  OBVIOUS
<1>4. k \in MaybeNode /\ m \in MaybeNode
  BY <1>0, <1>2, <1>3 DEF Trees
<1>5. PICK u1 : u1 = Hang(t, c, 1 - d, k)
  OBVIOUS
<1>6. u1 \in Trees /\ Hung(t, c, 1 - d, k, u1)
  <2>1. Hung(t, c, 1 - d, k, u1)
    BY <1>0, <1>2, <1>4, <1>5, HangHangs
  <2> QED BY <2>1 DEF Hung
<1>7. PICK u2 : u2 = Hang(u1, g, d, c)
  OBVIOUS
<1>8. u2 \in Trees /\ Hung(u1, g, d, c, u2)
  <2>1. Hung(u1, g, d, c, u2)
    BY <1>0, <1>2, <1>6, <1>7, HangHangs
  <2> QED BY <2>1 DEF Hung
<1>9. PICK u3 : u3 = Hang(u2, n, d, m)
  OBVIOUS
<1>10. u3 \in Trees /\ Hung(u2, n, d, m, u3)
  <2>1. Hung(u2, n, d, m, u3)
    BY <1>0, <1>4, <1>8, <1>9, HangHangs
  <2> QED BY <2>1 DEF Hung
<1>11. PICK u4 : u4 = Hang(u3, g, 1 - d, n)
  OBVIOUS
<1>12. u4 \in Trees /\ Hung(u3, g, 1 - d, n, u4)
  <2>1. Hung(u3, g, 1 - d, n, u4)
    BY <1>0, <1>2, <1>10, <1>11, HangHangs
  <2> QED BY <2>1 DEF Hung
<1>13. PICK u5 : u5 = Hang(u4, p, w, g)
  OBVIOUS
<1>14. u5 \in Trees /\ Hung(u4, p, w, g, u5)
  <2>1. Hung(u4, p, w, g, u5)
    BY <1>0, <1>2, <1>12, <1>13, HangHangs
  <2> QED BY <2>1 DEF Hung
<1>15. Doubled(t, n, d, c, g, p, w, u5)
  BY <1>3, <1>6, <1>8, <1>10, <1>12, <1>14, TwiceTurns
<1>16. u2.child[g][1 - d] = m
  BY <1>0, <1>2, <1>3, <1>6, <1>8 DEF Hung
<1>17. Twice(t, n, d) = u4
  <2>1. Lowered(t, c, g, d) = u2
    BY <1>3, <1>5, <1>7, Zenon DEF Lowered
  <2>2. Lowered(u2, n, g, 1 - d) = u4
    BY <1>0, <1>9, <1>11, <1>16, Zenon DEF Lowered
  <2> QED BY <1>a, <2>1, <2>2, Zenon DEF Twice
<1>18. PICK v, y, w2 : /\ v = Passed(t.balance[g], -Grown(d)) /\ y = Passed(t.balance[g], Grown(d))
                       /\ w2 = [t.balance EXCEPT ![c] = v, ![n] = y, ![g] = 0]
  OBVIOUS
<1>19. v \in Int /\ y \in Int
  <2>1. Grown(d) \in Int /\ -Grown(d) \in Int /\ -(-Grown(d)) \in Int
    BY Signs
  <2> QED BY <1>18, <2>1 DEF Passed
<1>20. /\ w2 \in [Nodes -> Int]
       /\ \A x \in Nodes : w2[x] = IF x = g THEN 0 ELSE IF x = n THEN y ELSE IF x = c THEN v ELSE t.balance[x]
  <2>1. t.balance \in [Nodes -> Int]
    BY DEF Trees
  <2> QED BY <1>0, <1>2, <1>18, <1>19, <2>1
<1>21. r = [tree |-> [u5 EXCEPT !.balance = w2], shorter |-> TRUE]
  BY <1>a, <1>13, <1>17, <1>18, Signs, Zenon DEF Rotation
<1>22. PICK z : z = [u5 EXCEPT !.balance = w2]
  OBVIOUS
<1>23. /\ z \in Trees /\ z.root = u5.root /\ z.child = u5.child /\ z.parent = u5.parent /\ z.which = u5.which
       /\ z.balance = w2
  BY <1>14, <1>20, <1>22 DEF Trees
<1>24. Doubled(t, n, d, c, g, p, w, z)
  <2>1. PICK t1 : /\ Turned(t, c, 1 - d, g, t.child[g][d], n, d, t1)
                  /\ Turned(t1, n, d, g, t.child[g][1 - d], p, w, u5)
                  /\ Chain(t1, n, d, g, t.child[g][1 - d], p, w)
    BY <1>15 DEF Doubled
  <2>2. Turned(t1, n, d, g, t.child[g][1 - d], p, w, z)
    BY <1>23, <2>1 DEF Turned
  <2> QED BY <2>1, <2>2 DEF Doubled
<1>25. KeptTwice(t, n, d, c, g, z)
  BY <1>18, <1>20, <1>23 DEF KeptTwice
<1>26. r.tree = z /\ r.shorter
  BY <1>21, <1>22
<1> QED BY <1>24, <1>25, <1>26, Zenon

-----------------------------------------------------------------------------
(* The heights.                                                             *)

\* The greater of two heights.
Higher(x, y) == IF x > y THEN x ELSE y

\* A node has height hn and balance bal: x is the height of its side d, y that of the other.
Poised(d, x, y, bal, hn) ==
    /\ x \in Nat /\ y \in Nat
    /\ bal = (IF d = 1 THEN x - y ELSE y - x) /\ bal \in -1..1
    /\ hn = 1 + Higher(x, y)

\* h has the heights; at the node q.at the change q.by of side q.side is still to be dealt with.
High(t, h, n, d) == IF t.child[n][d] = Null THEN 0 ELSE h[t.child[n][d]]
Due(q, n, d)     == IF q.at = n /\ q.side = d THEN q.by ELSE 0

\* The height of that side, without what is still to be recorded.
Side(t, h, q, n, d) == High(t, h, n, d) - Due(q, n, d)

\* Node n records how its sides differ.
LevelAt(t, h, q, n, d) == Poised(d, Side(t, h, q, n, d), Side(t, h, q, n, 1 - d), t.balance[n], h[n])
Level(t, S, h, q)      == \A n \in S, d \in Child : LevelAt(t, h, q, n, d)

\* A change that is still to be recorded.
Waits(at, side, by) == [at |-> at, side |-> side, by |-> by]

\* There are heights of u with the change by due at side w of p.
Leveled(u, S, p, w, by) == \E h2 : Level(u, S, h2, Waits(p, w, by))

\* One side tells of the other.
LEMMA PoisedBoth ==
    ASSUME NEW d \in Child, NEW x, NEW y, NEW bal, NEW hn, Poised(d, x, y, bal, hn)
    PROVE  Poised(1 - d, y, x, bal, hn)
BY DEF Poised, Higher, Child

\* The heights are positive.
LEMMA HighNat ==
    ASSUME NEW t, NEW S, NEW b, NEW e, Shape(t, S, b, e), NEW h, NEW q, Level(t, S, h, q), NEW n \in S, NEW d \in Child
    PROVE  h[n] \in Nat \ {0} /\ High(t, h, n, d) \in Nat
<1>1. ASSUME NEW x \in S
      PROVE  h[x] \in Nat \ {0}
  <2>1. Poised(0, Side(t, h, q, x, 0), Side(t, h, q, x, 1 - 0), t.balance[x], h[x])
    BY DEF Level, LevelAt, Child
  <2> QED BY <2>1 DEF Poised, Higher
<1>2. t.child[n][d] # Null => t.child[n][d] \in S
  BY Below
<1> QED BY <1>1, <1>2 DEF High

\* A node at which nothing is due.
LEMMA NothingDue ==
    ASSUME NEW t, NEW S, NEW b, NEW e, Shape(t, S, b, e), NEW h, NEW q, Level(t, S, h, q),
           NEW n \in S, n # q.at, NEW d \in Child
    PROVE  Poised(d, High(t, h, n, d), High(t, h, n, 1 - d), t.balance[n], h[n])
<1>1. 1 - d \in Child
  BY DEF Child
<1>2. \A f \in Child : Side(t, h, q, n, f) = High(t, h, n, f)
  <2> SUFFICES ASSUME NEW f \in Child
               PROVE  Side(t, h, q, n, f) = High(t, h, n, f)
    OBVIOUS
  <2>1. High(t, h, n, f) \in Nat
    BY HighNat
  <2> QED BY <2>1 DEF Side, Due
<1> QED BY <1>1, <1>2, Zenon DEF Level, LevelAt

\* Nothing is due where there is no node, nor when the change is none.
LEMMA NoneDue ==
    ASSUME NEW t, NEW S, NEW h, NEW q, Level(t, S, h, q), q.at \notin S \/ q.by = 0,
           NEW r, r.at \notin S \/ r.by = 0
    PROVE  Level(t, S, h, r)
<1> SUFFICES ASSUME NEW n \in S, NEW d \in Child
             PROVE  Side(t, h, q, n, d) = Side(t, h, r, n, d) /\ Side(t, h, q, n, 1 - d) = Side(t, h, r, n, 1 - d)
  BY Zenon DEF Level, LevelAt
<1> QED BY DEF Side, Due

\* u is t but for the balance of n.
Rebalanced(t, S, n, u) == u.child = t.child /\ \A x \in S : x # n => u.balance[x] = t.balance[x]

\* A node has dealt with what was due, by its balance alone.
LEMMA Settles ==
    ASSUME NEW t, NEW S, NEW b, NEW e, Shape(t, S, b, e), NEW h, NEW q, Level(t, S, h, q), NEW n \in S, q.at = n,
           NEW d \in Child, NEW hn, NEW u, Rebalanced(t, S, n, u),
           Poised(d, High(t, h, n, d), High(t, h, n, 1 - d), u.balance[n], hn)
    PROVE  Leveled(u, S, t.parent[n], t.which[n], hn - h[n])
<1>0. u.child = t.child /\ \A x \in S : x # n => u.balance[x] = t.balance[x]
  BY DEF Rebalanced
<1>1. PICK h2 : h2 = [x \in S |-> IF x = n THEN hn ELSE h[x]]
  OBVIOUS
<1>2. h2[n] = hn /\ \A x \in S : x # n => h2[x] = h[x]
  BY <1>1
<1>3. PICK r : r = Waits(t.parent[n], t.which[n], hn - h[n])
  OBVIOUS
<1>4. r.at = t.parent[n] /\ r.side = t.which[n] /\ r.by = hn - h[n]
  BY <1>3 DEF Waits
<1>5. h[n] \in Nat /\ hn \in Nat
  <2>1. h[n] \in Nat
    BY HighNat
  <2> QED BY <2>1 DEF Poised, Higher
<1>p. /\ Null \notin S
      /\ \/ t.parent[n] = Null
         \/ t.parent[n] # Null /\ t.parent[n] \in S /\ t.which[n] \in Child /\ t.child[t.parent[n]][t.which[n]] = n
  <2>1. Null \notin S
    BY Sides DEF Shape
  <2> QED BY <2>1, Parents
<1>6. ASSUME NEW x \in S, NEW f \in Child, x # n
      PROVE  Side(u, h2, r, x, f) = High(t, h, x, f)
  <2> PICK y : y = t.child[x][f]
    OBVIOUS
  <2>1. CASE y = Null
    <3>1. Due(r, x, f) = 0
      <4>1. ~(t.parent[n] = x /\ t.which[n] = f)
        BY <1>p, <2>1
      <4> QED BY <1>4, <4>1 DEF Due
    <3> QED BY <1>0, <2>1, <3>1 DEF Side, High
  <2>2. CASE y # Null
    <3>1. y \in S /\ t.parent[y] = x /\ t.which[y] = f
      BY <2>2, Below
    <3>2. h[y] \in Nat
      BY <3>1, HighNat
    <3>3. CASE y = n
      <4>1. Due(r, x, f) = hn - h[n] /\ High(u, h2, x, f) = hn
        BY <1>0, <1>2, <1>4, <2>2, <3>1, <3>3 DEF Due, High
      <4>2. High(t, h, x, f) = h[n]
        BY <2>2, <3>3 DEF High
      <4> QED BY <1>5, <4>1, <4>2 DEF Side
    <3>4. CASE y # n
      <4>1. ~(t.parent[n] = x /\ t.which[n] = f)
        BY <1>p, <3>4
      <4>2. Due(r, x, f) = 0
        BY <1>4, <4>1 DEF Due
      <4>3. High(u, h2, x, f) = h[y] /\ High(t, h, x, f) = h[y]
        BY <1>0, <1>2, <2>2, <3>1, <3>4 DEF High
      <4> QED BY <3>2, <4>2, <4>3 DEF Side
    <3> QED BY <3>3, <3>4
  <2> QED BY <2>1, <2>2
<1>7. ASSUME NEW f \in Child
      PROVE  Side(u, h2, r, n, f) = High(t, h, n, f)
  <2>1. t.parent[n] # n /\ t.child[n][f] # n
    <3>1. \A k \in S, g \in Child : t.child[k][g] # Null => t.child[k][g] # k
      BY Below
    <3> QED BY <1>p, <3>1
  <2>2. Due(r, n, f) = 0
    BY <1>4, <2>1 DEF Due
  <2>3. High(u, h2, n, f) = High(t, h, n, f)
    <3>1. t.child[n][f] # Null => t.child[n][f] \in S
      BY Below
    <3> QED BY <1>0, <1>2, <2>1, <3>1 DEF High
  <2>4. High(t, h, n, f) \in Nat
    BY HighNat
  <2> QED BY <2>2, <2>3, <2>4 DEF Side
<1>8. Level(u, S, h2, r)
  <2> SUFFICES ASSUME NEW x \in S, NEW f \in Child
               PROVE  Poised(f, Side(u, h2, r, x, f), Side(u, h2, r, x, 1 - f), u.balance[x], h2[x])
    BY DEF Level, LevelAt
  <2>1. 1 - f \in Child /\ 1 - (1 - d) = d /\ (f = d \/ f = 1 - d)
    BY DEF Child
  <2>2. CASE x = n
    <3>1. Poised(f, High(t, h, n, f), High(t, h, n, 1 - f), u.balance[n], hn)
      <4>1. Poised(1 - d, High(t, h, n, 1 - d), High(t, h, n, d), u.balance[n], hn)
        BY PoisedBoth
      <4> QED BY <2>1, <4>1
    <3> QED BY <1>2, <1>7, <2>1, <2>2, <3>1
  <2>3. CASE x # n
    <3>1. Poised(f, High(t, h, x, f), High(t, h, x, 1 - f), t.balance[x], h[x])
      BY <2>3, NothingDue
    <3> QED BY <1>0, <1>2, <1>6, <2>1, <2>3, <3>1
  <2> QED BY <2>2, <2>3
<1> QED BY <1>3, <1>8 DEF Leveled

\* Of the nodes Moved, all below n, top has come to the place of n; the others are as they were.
Replaced(t, S, h, Moved, n, top, u, h2, r) ==
    /\ r = Waits(t.parent[n], t.which[n], h2[top] - h[n])
    /\ n \in Moved /\ top \in Moved /\ Moved \subseteq S /\ h2[top] \in Nat
    /\ \A x \in Moved : x = n \/ t.parent[x] \in Moved
    /\ \A x \in S \ Moved : u.balance[x] = t.balance[x] /\ h2[x] = h[x]
    /\ \A x \in S \ Moved, f \in Child :
          u.child[x][f] = IF x = t.parent[n] /\ f = t.which[n] THEN top ELSE t.child[x][f]

\* For the nodes that are not moved the change of height is still due, where n was.
LEMMA OthersLevel ==
    ASSUME NEW t, NEW S, NEW b, NEW e, Shape(t, S, b, e), NEW h, NEW q, Level(t, S, h, q), NEW n \in S, q.at = n,
           NEW Moved, NEW top, NEW u, NEW h2, NEW r, Replaced(t, S, h, Moved, n, top, u, h2, r),
           NEW x \in S, x \notin Moved, NEW d \in Child
    PROVE  LevelAt(u, h2, r, x, d)
<1>1. r.at = t.parent[n] /\ r.side = t.which[n] /\ r.by = h2[top] - h[n]
  BY DEF Waits, Replaced
<1>2. x # n /\ x # Null /\ top # Null /\ 1 - d \in Child /\ Null \notin S
  BY Sides DEF Shape, Replaced
<1>3. h[n] \in Nat /\ h2[top] \in Nat
  <2>1. h[n] \in Nat
    BY HighNat
  <2> QED BY <2>1 DEF Replaced
<1>4. ASSUME NEW f \in Child
      PROVE  Side(u, h2, r, x, f) = High(t, h, x, f)
  <2> PICK y : y = t.child[x][f]
    OBVIOUS
  <2>1. CASE x = t.parent[n] /\ f = t.which[n]
    <3>1. y = n /\ n # Null
      BY <1>2, <2>1, Parents
    <3>2. High(u, h2, x, f) = h2[top]
      BY <1>2, <2>1 DEF High, Replaced
    <3>3. High(t, h, x, f) = h[n]
      BY <3>1 DEF High
    <3>4. Due(r, x, f) = h2[top] - h[n]
      BY <1>1, <2>1 DEF Due
    <3> QED BY <1>3, <3>2, <3>3, <3>4 DEF Side
  <2>2. CASE ~(x = t.parent[n] /\ f = t.which[n])
    <3>1. Due(r, x, f) = 0
      BY <1>1, <2>2 DEF Due
    <3>2. u.child[x][f] = y
      BY <2>2 DEF Replaced
    <3>3. High(t, h, x, f) \in Nat
      BY HighNat
    <3>4. ASSUME y # Null
          PROVE  h2[y] = h[y]
      <4>1. y \in S /\ t.parent[y] = x /\ t.which[y] = f
        BY <3>4, Below
      <4>2. y \notin Moved
        BY <2>2, <4>1 DEF Replaced
      <4> QED BY <4>1, <4>2 DEF Replaced
    <3>5. High(u, h2, x, f) = High(t, h, x, f)
      BY <3>2, <3>4 DEF High
    <3> QED BY <3>1, <3>3, <3>5 DEF Side
  <2> QED BY <2>1, <2>2
<1>5. Poised(d, High(t, h, x, d), High(t, h, x, 1 - d), t.balance[x], h[x])
  BY <1>2, NothingDue
<1> QED BY <1>2, <1>4, <1>5 DEF Replaced, LevelAt

\* The heights of the nodes of a rotation.
Tall(t, h, n, d, c, g) ==
    /\ h[c] = High(t, h, n, 1 - d) + 2
    /\ Poised(d, High(t, h, c, d), High(t, h, c, 1 - d), t.balance[c], h[c])
    /\ g # Null => h[g] = High(t, h, c, 1 - d)
    /\ t.balance[c] = -Grown(d) => g # Null

\* They are these.
LEMMA TallSide ==
    ASSUME NEW t, NEW S, NEW b, NEW e, Shape(t, S, b, e), NEW h, NEW q, Level(t, S, h, q), NEW n \in S, q.at = n,
           NEW d \in Child, NEW c, NEW g, NEW p, NEW w, Chain(t, n, d, c, g, p, w),
           High(t, h, n, d) = High(t, h, n, 1 - d) + 2
    PROVE  Tall(t, h, n, d, c, g)
<1>1. Nearby(t, S, b, e, n, d, c, g, p, w)
  BY Around
<1>2. c \in S /\ c # n /\ c = t.child[n][d] /\ c # Null /\ g = t.child[c][1 - d]
  BY <1>1 DEF Nearby, Chain
<1>3. h[c] = High(t, h, n, 1 - d) + 2
  BY <1>2 DEF High
<1>4. Poised(d, High(t, h, c, d), High(t, h, c, 1 - d), t.balance[c], h[c])
  BY <1>2, NothingDue
<1>5. g # Null => h[g] = High(t, h, c, 1 - d)
  BY <1>2 DEF High
<1>6. ASSUME g = Null
      PROVE  t.balance[c] # -Grown(d)
  <2>1. High(t, h, c, 1 - d) = 0
    BY <1>2, <1>6 DEF High
  <2> QED BY <1>4, <2>1 DEF Poised, Grown, Child
<1> QED BY <1>3, <1>4, <1>5, <1>6 DEF Tall

\* The numbers of a single rotation, ...
LEMMA OnceNumbers ==
    ASSUME NEW d \in Child, NEW r \in Nat, NEW x, NEW y, NEW bal, Poised(d, x, y, bal, r + 2), bal # -Grown(d),
           NEW v, v = bal - Grown(d)
    PROVE  /\ x = r + 1 /\ y \in {r, r + 1} /\ (y = r <=> bal = Grown(d))
           /\ Poised(d, y, r, -v, y + 1) /\ Poised(d, x, y + 1, v, y + 2)
<1>1. CASE d = 0
  BY <1>1 DEF Poised, Grown, Higher
<1>2. CASE d = 1
  BY <1>2 DEF Poised, Grown, Higher
<1> QED BY <1>1, <1>2 DEF Child

\* ... and of a double one.
LEMMA TwiceNumbers ==
    ASSUME NEW d \in Child, NEW r \in Nat, NEW x, NEW y, NEW bal, Poised(d, x, y, bal, r + 2), bal = -Grown(d),
           NEW i, NEW j, NEW bag, Poised(d, i, j, bag, y)
    PROVE  /\ y = r + 1
           /\ Poised(d, j, r, Passed(bag, Grown(d)), r + 1) /\ Poised(d, x, i, Passed(bag, -Grown(d)), r + 1)
           /\ Poised(d, r + 1, r + 1, 0, r + 2)
<1>1. /\ x = r /\ y = r + 1 /\ i \in Nat /\ j \in Nat /\ bag \in -1..1 /\ bag = (IF d = 1 THEN i - j ELSE j - i)
      /\ r + 1 = 1 + Higher(i, j)
  <2>1. CASE d = 0
    BY <2>1 DEF Poised, Grown, Higher
  <2>2. CASE d = 1
    BY <2>2 DEF Poised, Grown, Higher
  <2> QED BY <2>1, <2>2 DEF Child
<1>2. \/ bag = Grown(d) /\ i = r /\ j = r - 1
      \/ bag = 0 /\ i = r /\ j = r
      \/ bag = -Grown(d) /\ i = r - 1 /\ j = r
  <2>1. CASE d = 0
    BY <1>1, <2>1 DEF Grown, Higher
  <2>2. CASE d = 1
    BY <1>1, <2>2 DEF Grown, Higher
  <2> QED BY <2>1, <2>2 DEF Child
<1>3. Passed(bag, Grown(d)) = (IF bag = Grown(d) THEN -Grown(d) ELSE 0)
  BY DEF Passed
<1>4. Passed(bag, -Grown(d)) = (IF bag = -Grown(d) THEN Grown(d) ELSE 0)
  BY Signs DEF Passed
<1>5. Poised(d, r + 1, r + 1, 0, r + 2)
  BY DEF Poised, Higher, Child
<1>6. Poised(d, j, r, Passed(bag, Grown(d)), r + 1)
  <2>1. CASE d = 0
    BY <1>1, <1>2, <1>3, <2>1 DEF Poised, Grown, Higher
  <2>2. CASE d = 1
    BY <1>1, <1>2, <1>3, <2>2 DEF Poised, Grown, Higher
  <2> QED BY <2>1, <2>2 DEF Child
<1>7. Poised(d, x, i, Passed(bag, -Grown(d)), r + 1)
  <2>1. CASE d = 0
    BY <1>1, <1>2, <1>4, <2>1 DEF Poised, Grown, Higher
  <2>2. CASE d = 1
    BY <1>1, <1>2, <1>4, <2>2 DEF Poised, Grown, Higher
  <2> QED BY <2>1, <2>2 DEF Child
<1> QED BY <1>1, <1>5, <1>6, <1>7

\* A single rotation at a node one of whose sides is higher by two.
LEMMA TurnLevel ==
    ASSUME NEW t, NEW S, NEW b, NEW e, Shape(t, S, b, e), NEW h, NEW q, Level(t, S, h, q), NEW n \in S, q.at = n,
           NEW d \in Child, NEW c, NEW g, NEW p, NEW w, Chain(t, n, d, c, g, p, w),
           High(t, h, n, d) = High(t, h, n, 1 - d) + 2, t.balance[c] # -Grown(d),
           NEW u, Turned(t, n, d, c, g, p, w, u), Kept(t, n, d, c, u)
    PROVE  Leveled(u, S, p, w, (High(t, h, n, 1 - d) + (IF t.balance[c] = Grown(d) THEN 2 ELSE 3)) - h[n])
<1>1. /\ c # Null /\ c = t.child[n][d] /\ g = t.child[c][1 - d] /\ p = t.parent[n] /\ w = t.which[n]
      /\ Null \notin S /\ S \subseteq Nodes /\ 1 - d \in Child /\ 1 - (1 - d) = d /\ d # 1 - d
  BY Sides DEF Chain, Shape
<1>2. Nearby(t, S, b, e, n, d, c, g, p, w)
  BY Around
<1>3. /\ c \in S /\ c # n /\ p # n /\ p # c /\ t.parent[c] = n /\ t.which[c] = d
      /\ g # Null => g \in S /\ g # c /\ g # n
  BY <1>1, <1>2 DEF Nearby
<1>4. PICK r, x, y, v : /\ r = High(t, h, n, 1 - d) /\ x = High(t, h, c, d) /\ y = High(t, h, c, 1 - d)
                        /\ v = t.balance[c] - Grown(d)
  OBVIOUS
<1>5. /\ h[c] = r + 2 /\ Poised(d, x, y, t.balance[c], r + 2) /\ (g # Null => h[g] = y) /\ r \in Nat
  <2>1. High(t, h, n, 1 - d) \in Nat
    BY <1>1, HighNat
  <2>2. Tall(t, h, n, d, c, g)
    BY TallSide
  <2> QED BY <1>4, <2>1, <2>2 DEF Tall
<1>6. /\ x = r + 1 /\ y \in {r, r + 1} /\ (y = r <=> t.balance[c] = Grown(d))
      /\ Poised(d, y, r, -v, y + 1) /\ Poised(d, x, y + 1, v, y + 2)
  <2> PICK bal : bal = t.balance[c]
    OBVIOUS
  <2>1. Poised(d, x, y, bal, r + 2) /\ bal # -Grown(d) /\ v = bal - Grown(d) /\ r \in Nat
    BY <1>4, <1>5
  <2> QED BY <2>1, OnceNumbers
<1>7. PICK h2 : h2 = [k \in S |-> IF k = n THEN y + 1 ELSE IF k = c THEN y + 2 ELSE h[k]]
  OBVIOUS
<1>8. h2[n] = y + 1 /\ h2[c] = y + 2 /\ \A k \in S : k # n /\ k # c => h2[k] = h[k]
  BY <1>3, <1>7
<1>9. PICK z : z = Waits(p, w, h2[c] - h[n])
  OBVIOUS
<1>10. u.balance[n] = -v /\ u.balance[c] = v /\ \A k \in S : k # n /\ k # c => u.balance[k] = t.balance[k]
  BY <1>1, <1>3, <1>4 DEF Kept
<1>11. Replaced(t, S, h, {n, c}, n, c, u, h2, z)
  <2>1. \A k \in S \ {n, c}, f \in Child : u.child[k][f] = IF k = p /\ f = w THEN c ELSE t.child[k][f]
    BY <1>1 DEF Turned
  <2>2. h2[c] \in Nat
    BY <1>5, <1>6, <1>8
  <2>3. {n, c} \subseteq S /\ \A k \in {n, c} : k = n \/ t.parent[k] \in {n, c}
    BY <1>3
  <2>4. \A k \in S \ {n, c} : u.balance[k] = t.balance[k] /\ h2[k] = h[k]
    BY <1>8, <1>10
  <2>5. z = Waits(t.parent[n], t.which[n], h2[c] - h[n])
    BY <1>1, <1>9
  <2>6. \A k \in S \ {n, c}, f \in Child :
           u.child[k][f] = IF k = t.parent[n] /\ f = t.which[n] THEN c ELSE t.child[k][f]
    BY <1>1, <2>1
  <2>7. n \in {n, c} /\ c \in {n, c}
    OBVIOUS
  <2> QED BY <2>2, <2>3, <2>4, <2>5, <2>6, <2>7, Zenon DEF Replaced
<1>12. /\ u.child[n][d] = g /\ u.child[n][1 - d] = t.child[n][1 - d]
       /\ u.child[c][d] = t.child[c][d] /\ u.child[c][1 - d] = n
  BY <1>1, <1>3 DEF Turned
<1>13. ASSUME NEW k \in {n, c}, NEW f \in Child
       PROVE  Due(z, k, f) = 0
  BY <1>3, <1>9 DEF Due, Waits
<1>14. Side(u, h2, z, n, d) = y /\ Side(u, h2, z, n, 1 - d) = r
  <2>1. High(u, h2, n, d) = y
    BY <1>1, <1>3, <1>4, <1>5, <1>8, <1>12 DEF High
  <2>2. High(u, h2, n, 1 - d) = r
    <3> PICK k, f : f = 1 - d /\ k = t.child[n][f]
      OBVIOUS
    <3>1. k # Null => k \in S /\ k # n /\ t.which[k] = f
      BY <1>1, Below
    <3> QED BY <1>1, <1>3, <1>4, <1>8, <1>12, <3>1 DEF High
  <2>3. y \in Nat /\ r \in Nat
    BY <1>5, <1>6
  <2> QED BY <1>1, <1>13, <2>1, <2>2, <2>3 DEF Side
<1>15. Side(u, h2, z, c, d) = x /\ Side(u, h2, z, c, 1 - d) = y + 1
  <2>1. High(u, h2, c, d) = x
    <3> PICK k : k = t.child[c][d]
      OBVIOUS
    <3>1. k # Null => k \in S /\ k # c /\ t.parent[k] = c
      BY <1>3, Below
    <3> QED BY <1>1, <1>3, <1>4, <1>8, <1>12, <3>1 DEF High
  <2>2. High(u, h2, c, 1 - d) = y + 1
    BY <1>1, <1>8, <1>12 DEF High
  <2>3. y \in Nat /\ x \in Nat
    BY <1>5, <1>6
  <2> QED BY <1>1, <1>13, <2>1, <2>2, <2>3 DEF Side
<1>16. Level(u, S, h2, z)
  <2> SUFFICES ASSUME NEW k \in S, NEW f \in Child
               PROVE  Poised(f, Side(u, h2, z, k, f), Side(u, h2, z, k, 1 - f), u.balance[k], h2[k])
    BY DEF Level, LevelAt
  <2>1. f = d \/ f = 1 - d
    BY Sides
  <2>2. CASE k = n
    <3>1. Poised(d, y, r, -v, y + 1) /\ Poised(1 - d, r, y, -v, y + 1)
      BY <1>6, PoisedBoth
    <3> QED BY <1>1, <1>8, <1>10, <1>14, <2>1, <2>2, <3>1
  <2>3. CASE k = c
    <3>1. Poised(d, x, y + 1, v, y + 2) /\ Poised(1 - d, y + 1, x, v, y + 2)
      BY <1>6, PoisedBoth
    <3> QED BY <1>1, <1>8, <1>10, <1>15, <2>1, <2>3, <3>1
  <2>4. CASE k \notin {n, c}
    <3> PICK Moved : Moved = {n, c}
      OBVIOUS
    <3>1. k \notin Moved /\ Replaced(t, S, h, Moved, n, c, u, h2, z)
      BY <1>11, <2>4
    <3>2. LevelAt(u, h2, z, k, f)
      BY <3>1, OthersLevel
    <3> QED BY <3>2 DEF LevelAt
  <2> QED BY <2>2, <2>3, <2>4
<1>17. h2[c] = r + (IF t.balance[c] = Grown(d) THEN 2 ELSE 3)
  BY <1>5, <1>6, <1>8
<1>18. z = Waits(p, w, (High(t, h, n, 1 - d) + (IF t.balance[c] = Grown(d) THEN 2 ELSE 3)) - h[n])
  BY <1>4, <1>9, <1>17
<1> QED BY <1>16, <1>18, Zenon DEF Leveled

\* A double rotation at such a node.
LEMMA DoubledLevel ==
    ASSUME NEW t, NEW S, NEW b, NEW e, Shape(t, S, b, e), NEW h, NEW q, Level(t, S, h, q), NEW n \in S, q.at = n,
           NEW d \in Child, NEW c, NEW g, NEW p, NEW w, Chain(t, n, d, c, g, p, w),
           High(t, h, n, d) = High(t, h, n, 1 - d) + 2, t.balance[c] = -Grown(d),
           NEW u, Doubled(t, n, d, c, g, p, w, u), KeptTwice(t, n, d, c, g, u)
    PROVE  Leveled(u, S, p, w, (High(t, h, n, 1 - d) + 2) - h[n])
<1> PICK o : o = 1 - d
  OBVIOUS
<1>1. /\ c # Null /\ c = t.child[n][d] /\ g = t.child[c][o] /\ p = t.parent[n] /\ w = t.which[n] /\ n # Null
      /\ Null \notin S /\ S \subseteq Nodes /\ o \in Child /\ 1 - o = d /\ d # o
      /\ \A f \in Child : f = d \/ f = o
  BY Sides DEF Chain, Shape
<1>2. g # Null /\ Nearby(t, S, b, e, n, d, c, g, p, w)
  <2>1. Tall(t, h, n, d, c, g)
    BY TallSide
  <2> QED BY <2>1, Around DEF Tall
<1>3. /\ c \in S /\ c # n /\ p # n /\ p # c /\ p # g /\ t.parent[c] = n /\ t.which[c] = d
      /\ g \in S /\ g # c /\ g # n /\ t.parent[g] = c /\ t.which[g] = o
  BY <1>1, <1>2 DEF Nearby
<1>4. PICK r, x, y, i, j : /\ r = High(t, h, n, o) /\ x = High(t, h, c, d) /\ y = High(t, h, c, o)
                           /\ i = High(t, h, g, d) /\ j = High(t, h, g, o)
  OBVIOUS
<1>5. /\ h[c] = r + 2 /\ Poised(d, x, y, t.balance[c], r + 2) /\ h[g] = y /\ r \in Nat
      /\ Poised(d, i, j, t.balance[g], y)
  <2>1. High(t, h, n, o) \in Nat
    BY <1>1, HighNat
  <2>2. Tall(t, h, n, d, c, g)
    BY TallSide
  <2>3. Poised(d, High(t, h, g, d), High(t, h, g, 1 - d), t.balance[g], h[g])
    BY <1>3, NothingDue
  <2> QED BY <1>2, <1>4, <2>1, <2>2, <2>3 DEF Tall
<1>6. PICK v, k1 : v = Passed(t.balance[g], -Grown(d)) /\ k1 = Passed(t.balance[g], Grown(d))
  OBVIOUS
<1>7. Poised(d, j, r, k1, r + 1) /\ Poised(d, x, i, v, r + 1) /\ Poised(d, r + 1, r + 1, 0, r + 2)
  BY <1>5, <1>6, TwiceNumbers
<1>8. PICK h2 : h2 = [k \in S |-> IF k = n \/ k = c THEN r + 1 ELSE IF k = g THEN r + 2 ELSE h[k]]
  OBVIOUS
<1>9. h2[n] = r + 1 /\ h2[c] = r + 1 /\ h2[g] = r + 2 /\ \A k \in S : k # n /\ k # c /\ k # g => h2[k] = h[k]
  BY <1>3, <1>8
<1>10. PICK z : z = Waits(p, w, h2[g] - h[n])
  OBVIOUS
<1>11. /\ u.balance[n] = k1 /\ u.balance[c] = v /\ u.balance[g] = 0
       /\ \A k \in S : k # n /\ k # c /\ k # g => u.balance[k] = t.balance[k]
  BY <1>1, <1>3, <1>6 DEF KeptTwice
<1>12. PICK gl, gr, kn, kc : /\ gl = t.child[g][d] /\ gr = t.child[g][o]
                             /\ kn = t.child[n][o] /\ kc = t.child[c][d]
  OBVIOUS
<1>13. \A k \in S, f \in Child :
          u.child[k][f] = IF k = g THEN (IF f = d THEN c ELSE n)
                          ELSE IF k = n /\ f = d THEN gr
                          ELSE IF k = c /\ f = o THEN gl
                          ELSE IF k = p /\ f = w THEN g ELSE t.child[k][f]
  <2>1. PICK t1 : Turned(t, c, o, g, gl, n, d, t1) /\ Turned(t1, n, d, g, gr, p, w, u)
    BY <1>12 DEF Doubled
  <2>2. \A k \in Nodes, f \in Child :
          t1.child[k][f] = IF k = g /\ f = d THEN c ELSE IF k = c /\ f = o THEN gl
                           ELSE IF k = n /\ f = d THEN g ELSE t.child[k][f]
    <3>1. \A k \in Nodes, f \in Child :
            t1.child[k][f] = IF k = g /\ f = 1 - o THEN c ELSE IF k = c /\ f = o THEN gl
                             ELSE IF k = n /\ f = d THEN g ELSE t.child[k][f]
      BY <2>1, Zenon DEF Turned
    <3>2. 1 - o = d
      BY <1>1 DEF Child
    <3> QED BY <3>1, <3>2, Zenon
  <2>3. \A k \in Nodes, f \in Child :
          u.child[k][f] = IF k = g /\ f = o THEN n ELSE IF k = n /\ f = d THEN gr
                          ELSE IF k = p /\ f = w THEN g ELSE t1.child[k][f]
    <3>1. \A k \in Nodes, f \in Child :
            u.child[k][f] = IF k = g /\ f = 1 - d THEN n ELSE IF k = n /\ f = d THEN gr
                            ELSE IF k = p /\ f = w THEN g ELSE t1.child[k][f]
      BY <2>1, Zenon DEF Turned
    <3> QED BY <3>1
  <2>4. ASSUME NEW k \in S, NEW f \in Child
        PROVE  u.child[k][f] = IF k = g THEN (IF f = d THEN c ELSE n)
                          ELSE IF k = n /\ f = d THEN gr ELSE IF k = c /\ f = o THEN gl
                          ELSE IF k = p /\ f = w THEN g ELSE t.child[k][f]
    <3>1. k \in Nodes /\ (f = d \/ f = o)
      BY <1>1
    <3> PICK y1, y2, y3 : y1 = t1.child[k][f] /\ y2 = u.child[k][f] /\ y3 = t.child[k][f]
      OBVIOUS
    <3>2. y1 = IF k = g /\ f = d THEN c ELSE IF k = c /\ f = o THEN gl ELSE IF k = n /\ f = d THEN g ELSE y3
      BY <2>2, <3>1
    <3>3. y2 = IF k = g /\ f = o THEN n ELSE IF k = n /\ f = d THEN gr ELSE IF k = p /\ f = w THEN g ELSE y1
      BY <2>3, <3>1
    <3>4. y2 = IF k = g THEN (IF f = d THEN c ELSE n)
               ELSE IF k = n /\ f = d THEN gr ELSE IF k = c /\ f = o THEN gl
               ELSE IF k = p /\ f = w THEN g ELSE y3
      BY <1>1, <1>3, <3>1, <3>2, <3>3
    <3> QED BY <3>4
  <2> QED BY <2>4
<1>14. PICK Moved : Moved = {n, c, g}
  OBVIOUS
<1>15. Replaced(t, S, h, Moved, n, g, u, h2, z)
  <2>1. \A k \in S \ Moved, f \in Child :
           u.child[k][f] = IF k = t.parent[n] /\ f = t.which[n] THEN g ELSE t.child[k][f]
    <3>1. p = t.parent[n] /\ w = t.which[n]
      BY <1>1
    <3>2. ASSUME NEW k \in S \ Moved, NEW f \in Child
          PROVE  u.child[k][f] = IF k = p /\ f = w THEN g ELSE t.child[k][f]
      <4>1. k \in S /\ k # n /\ k # c /\ k # g
        BY <1>14
      <4> QED BY <1>13, <4>1
    <3> QED BY <3>1, <3>2
  <2>2. h2[g] \in Nat
    BY <1>5, <1>9
  <2>3. Moved \subseteq S /\ (\A k \in Moved : k = n \/ t.parent[k] \in Moved) /\ n \in Moved /\ g \in Moved
    BY <1>3, <1>14
  <2>4. \A k \in S \ Moved : u.balance[k] = t.balance[k] /\ h2[k] = h[k]
    BY <1>9, <1>11, <1>14
  <2>5. z = Waits(t.parent[n], t.which[n], h2[g] - h[n])
    BY <1>1, <1>10
  <2> QED BY <2>1, <2>2, <2>3, <2>4, <2>5, Zenon DEF Replaced
<1>16. /\ \A f \in Child : Due(z, n, f) = 0
       /\ \A f \in Child : Due(z, c, f) = 0
       /\ \A f \in Child : Due(z, g, f) = 0
  BY <1>3, <1>10 DEF Due, Waits
<1>17. /\ kn # Null => h2[kn] = h[kn]
       /\ kc # Null => h2[kc] = h[kc]
       /\ gl # Null => h2[gl] = h[gl]
       /\ gr # Null => h2[gr] = h[gr]
  <2>1. \A m \in S, f \in Child :
           t.child[m][f] # Null => /\ t.child[m][f] \in S /\ t.child[m][f] # m
                                   /\ t.parent[t.child[m][f]] = m /\ t.which[t.child[m][f]] = f
    BY Below
  <2>2. kn # Null => kn \in S /\ kn # n /\ t.parent[kn] = n /\ t.which[kn] = o
    BY <1>1, <1>12, <2>1
  <2>3. kc # Null => kc \in S /\ kc # c /\ t.parent[kc] = c /\ t.which[kc] = d
    BY <1>3, <1>12, <2>1
  <2>4. gl # Null => gl \in S /\ gl # g /\ t.parent[gl] = g
    BY <1>3, <1>12, <2>1
  <2>5. gr # Null => gr \in S /\ gr # g /\ t.parent[gr] = g
    BY <1>1, <1>3, <1>12, <2>1
  <2>6. t.parent[n] = p
    BY <1>1
  <2> QED BY <1>1, <1>3, <1>9, <2>2, <2>3, <2>4, <2>5, <2>6
<1>18. Side(u, h2, z, n, d) = j /\ Side(u, h2, z, n, o) = r
  <2>1. u.child[n][d] = gr /\ u.child[n][o] = kn
    BY <1>1, <1>3, <1>12, <1>13
  <2>2. High(u, h2, n, d) = j /\ High(u, h2, n, o) = r
    BY <1>4, <1>12, <1>17, <2>1 DEF High
  <2>3. j \in Nat /\ r \in Nat
    BY <1>5, <1>7 DEF Poised
  <2>4. Due(z, n, d) = 0 /\ Due(z, n, o) = 0
    BY <1>1, <1>16
  <2> QED BY <2>2, <2>3, <2>4 DEF Side
<1>19. Side(u, h2, z, c, d) = x /\ Side(u, h2, z, c, o) = i
  <2>1. u.child[c][d] = kc /\ u.child[c][o] = gl
    BY <1>1, <1>3, <1>12, <1>13
  <2>2. High(u, h2, c, d) = x /\ High(u, h2, c, o) = i
    BY <1>4, <1>12, <1>17, <2>1 DEF High
  <2>3. x \in Nat /\ i \in Nat
    BY <1>7 DEF Poised
  <2>4. Due(z, c, d) = 0 /\ Due(z, c, o) = 0
    BY <1>1, <1>16
  <2> QED BY <2>2, <2>3, <2>4 DEF Side
<1>20. Side(u, h2, z, g, d) = r + 1 /\ Side(u, h2, z, g, o) = r + 1
  <2>1. u.child[g][d] = c /\ u.child[g][o] = n
    BY <1>1, <1>3, <1>13
  <2>2. High(u, h2, g, d) = r + 1 /\ High(u, h2, g, o) = r + 1
    BY <1>1, <1>9, <2>1 DEF High
  <2>3. r + 1 \in Nat
    BY <1>5
  <2>4. Due(z, g, d) = 0 /\ Due(z, g, o) = 0
    BY <1>1, <1>16
  <2> QED BY <2>2, <2>3, <2>4 DEF Side
<1>21. Level(u, S, h2, z)
  <2> SUFFICES ASSUME NEW k \in S, NEW f \in Child
               PROVE  LevelAt(u, h2, z, k, f)
    BY DEF Level
  <2>1. (f = d /\ 1 - f = o) \/ (f = o /\ 1 - f = d)
    BY <1>1
  <2>2. CASE k = n
    <3>1. Poised(d, j, r, k1, r + 1) /\ Poised(o, r, j, k1, r + 1)
      BY <1>7, PoisedBoth
    <3> QED BY <1>9, <1>11, <1>18, <2>1, <2>2, <3>1 DEF LevelAt
  <2>3. CASE k = c
    <3>1. Poised(d, x, i, v, r + 1) /\ Poised(o, i, x, v, r + 1)
      BY <1>7, PoisedBoth
    <3> QED BY <1>9, <1>11, <1>19, <2>1, <2>3, <3>1 DEF LevelAt
  <2>4. CASE k = g
    <3>1. Poised(d, r + 1, r + 1, 0, r + 2) /\ Poised(o, r + 1, r + 1, 0, r + 2)
      BY <1>7, PoisedBoth
    <3> QED BY <1>9, <1>11, <1>20, <2>1, <2>4, <3>1 DEF LevelAt
  <2>5. CASE k \notin Moved
    BY <1>15, <2>5, OthersLevel
  <2> QED BY <1>14, <2>2, <2>3, <2>4, <2>5
<1>22. h2[g] = High(t, h, n, 1 - d) + 2
  BY <1>4, <1>9
<1>23. z = Waits(p, w, (High(t, h, n, 1 - d) + 2) - h[n])
  BY <1>10, <1>22
<1> QED BY <1>21, <1>23, Zenon DEF Leveled

-----------------------------------------------------------------------------
(* A tree in order.                                                         *)

\* What is not in the tree has no links.
Clear(t, S) == \A x \in Nodes \ S : t.parent[x] = Null /\ \A d \in Child : t.child[x][d] = Null

\* It has no children at least.
Bare(t, S) == \A x \in Nodes \ S, d \in Child : t.child[x][d] = Null

\* A clear tree is bare.
LEMMA ClearIsBare ==
    ASSUME NEW t, NEW S, Clear(t, S)
    PROVE  Bare(t, S)
BY DEF Clear, Bare

\* t has the nodes S with the neighbours b and the heights h, but for what is due.
Formed(t, S, b, h, q) == t \in Trees /\ Clear(t, S) /\ (\E e : Shape(t, S, b, e)) /\ Level(t, S, h, q)

\* u is in order with the change by due at side w of p.
Reformed(u, S, b, p, w, by) == \E h2 : Formed(u, S, b, h2, Waits(p, w, by))

\* A rotation has been made at n, and what it did to the height is due where n was.
RotatedAt(t, S, b, h, n, d, r) ==
    Reformed(r.tree, S, b, t.parent[n], t.which[n],
             (High(t, h, n, 1 - d) + (IF r.shorter THEN 2 ELSE 3)) - h[n])

\* A rotation puts a node in order one of whose sides is higher by two.
LEMMA RotationForms ==
    ASSUME NEW t, NEW S, NEW b, NEW h, NEW q, Formed(t, S, b, h, q), NEW n \in S, q.at = n, NEW d \in Child,
           High(t, h, n, d) = High(t, h, n, 1 - d) + 2, NEW r, r = Rotation(t, n, 2 * Grown(d))
    PROVE  /\ RotatedAt(t, S, b, h, n, d, r)
           /\ t.child[n][d] \in S /\ h[t.child[n][d]] = High(t, h, n, 1 - d) + 2
           /\ t.balance[t.child[n][d]] # 0 => r.shorter
<1>1. PICK e : t \in Trees /\ Clear(t, S) /\ Shape(t, S, b, e) /\ Level(t, S, h, q)
  BY DEF Formed
<1>2. PICK c, g, p, w : c = t.child[n][d] /\ g = t.child[c][1 - d] /\ p = t.parent[n] /\ w = t.which[n]
  OBVIOUS
<1>3. c # Null
  <2>1. 1 - d \in Child
    BY Sides
  <2>2. High(t, h, n, 1 - d) \in Nat
    BY <1>1, <2>1, HighNat
  <2> QED BY <1>2, <2>2 DEF High
<1>4. Null \notin S /\ S \subseteq Nodes /\ Null \notin Nodes
  BY <1>1, Sides DEF Shape
<1>5. Chain(t, n, d, c, g, p, w)
  BY <1>2, <1>3, <1>4 DEF Chain
<1>6. Nearby(t, S, b, e, n, d, c, g, p, w)
  BY <1>1, <1>5, Around
<1>7. c \in S /\ h[c] = High(t, h, n, 1 - d) + 2 /\ (t.balance[c] = -Grown(d) => g # Null)
      /\ t.balance[c] \in -1..1
  <2>1. Tall(t, h, n, d, c, g)
    BY <1>1, <1>5, TallSide
  <2> QED BY <1>6, <2>1 DEF Tall, Nearby, Poised
<1>8. \A x \in Nodes : x \notin S => x # n /\ x # c /\ x # g /\ x # p
  BY <1>4, <1>6 DEF Nearby
<1>9. CASE t.balance[c] # -Grown(d)
  <2>1. /\ Turned(t, n, d, c, g, p, w, r.tree) /\ Kept(t, n, d, c, r.tree)
        /\ r.shorter <=> t.balance[c] = Grown(d)
    BY <1>1, <1>5, <1>9, RotatesOnce
  <2>2. Leveled(r.tree, S, p, w, (High(t, h, n, 1 - d) + (IF t.balance[c] = Grown(d) THEN 2 ELSE 3)) - h[n])
    BY <1>1, <1>5, <1>9, <2>1, TurnLevel
  <2>3. PICK e2 : Shape(r.tree, S, b, e2)
    BY <1>1, <1>5, <2>1, TurnedShape
  <2>4. Clear(r.tree, S)
    BY <1>1, <1>8, <2>1 DEF Turned, Clear
  <2>5. r.tree \in Trees
    BY <2>1 DEF Kept
  <2>6. Leveled(r.tree, S, p, w, (High(t, h, n, 1 - d) + (IF r.shorter THEN 2 ELSE 3)) - h[n])
    BY <2>1, <2>2, Zenon
  <2>7. RotatedAt(t, S, b, h, n, d, r)
    BY <1>2, <2>3, <2>4, <2>5, <2>6, Zenon DEF RotatedAt, Reformed, Formed, Leveled
  <2>8. t.balance[c] # 0 => r.shorter
    BY <1>7, <1>9, <2>1 DEF Grown, Child
  <2> QED BY <1>2, <1>7, <2>7, <2>8
<1>10. CASE t.balance[c] = -Grown(d)
  <2>1. Doubled(t, n, d, c, g, p, w, r.tree) /\ KeptTwice(t, n, d, c, g, r.tree) /\ r.shorter
    BY <1>1, <1>5, <1>7, <1>10, RotatesTwice
  <2>2. Leveled(r.tree, S, p, w, (High(t, h, n, 1 - d) + 2) - h[n])
    BY <1>1, <1>5, <1>10, <2>1, DoubledLevel
  <2>3. PICK e2 : Shape(r.tree, S, b, e2)
    BY <1>1, <1>5, <1>7, <1>10, <2>1, DoubledShape
  <2>4. Clear(r.tree, S)
    <3>1. PICK t1 : /\ Turned(t, c, 1 - d, g, t.child[g][d], n, d, t1)
                    /\ Turned(t1, n, d, g, t.child[g][1 - d], p, w, r.tree)
      BY <2>1 DEF Doubled
    <3>2. d \in Child /\ \A f \in Child : t.child[g][f] = Null \/ t.child[g][f] \in S
      <4>1. g \in S
        BY <1>6, <1>7, <1>10 DEF Nearby
      <4> QED BY <1>1, <4>1, Below
    <3>3. Clear(t1, S)
      <4>1. \A x \in Nodes : x \notin S => x # t.child[g][d]
        BY <1>4, <3>2
      <4>2. \A x \in Nodes :
                x \notin S => t1.parent[x] = t.parent[x] /\ \A f \in Child : t1.child[x][f] = t.child[x][f]
        BY <1>8, <3>1, <4>1 DEF Turned
      <4> QED BY <1>1, <4>2 DEF Clear
    <3>4. \A x \in Nodes : x \notin S => x # t.child[g][1 - d]
      BY <1>4, <3>2, Sides
    <3> QED BY <1>8, <3>1, <3>3, <3>4 DEF Turned, Clear
  <2>5. r.tree \in Trees
    BY <2>1 DEF KeptTwice
  <2>6. Leveled(r.tree, S, p, w, (High(t, h, n, 1 - d) + (IF r.shorter THEN 2 ELSE 3)) - h[n])
    BY <2>1, <2>2, Zenon
  <2>7. RotatedAt(t, S, b, h, n, d, r)
    BY <1>2, <2>3, <2>4, <2>5, <2>6, Zenon DEF RotatedAt, Reformed, Formed, Leveled
  <2> QED BY <1>2, <1>7, <2>1, <2>7
<1> QED BY <1>9, <1>10

\* u is t with another balance of n.
Sets(t, n, v, u) == u = [t EXCEPT !.balance[n] = v]

\* The balance v of n is right; by is what its own height hn has changed.
Righted(t, h, n, d, v, hn, by) == Poised(d, High(t, h, n, d), High(t, h, n, 1 - d), v, hn) /\ by = hn - h[n]

\* Of the node n only the balance has changed.
Only(t, n, v, u) == u.balance[n] = v /\ u.child = t.child

\* A change of one balance that is due keeps the tree in order.
LEMMA BalanceForms ==
    ASSUME NEW t, NEW S, NEW b, NEW h, NEW q, Formed(t, S, b, h, q), NEW n \in S, q.at = n, NEW d \in Child,
           NEW v, NEW hn, NEW u, Sets(t, n, v, u), NEW by, Righted(t, h, n, d, v, hn, by)
    PROVE  Reformed(u, S, b, t.parent[n], t.which[n], by) /\ Only(t, n, v, u)
<1>1. PICK e : t \in Trees /\ Clear(t, S) /\ Shape(t, S, b, e) /\ Level(t, S, h, q)
  BY DEF Formed
<1>2. v \in Int
  BY DEF Poised, Righted
<1>3. S \subseteq Nodes
  BY <1>1 DEF Shape
<1>4. PICK w : w = [t.balance EXCEPT ![n] = v]
  OBVIOUS
<1>5. w \in [Nodes -> Int] /\ w[n] = v /\ \A x \in S : x # n => w[x] = t.balance[x]
  BY <1>1, <1>2, <1>3, <1>4 DEF Trees
<1>6. /\ u \in Trees /\ u.root = t.root /\ u.child = t.child /\ u.parent = t.parent /\ u.which = t.which
      /\ u.balance = w
  <2>1. u = [t EXCEPT !.balance[n] = v]
    BY DEF Sets
  <2> QED BY <1>1, <1>4, <1>5, <2>1 DEF Trees
<1>7. Shape(u, S, b, e)
  BY <1>1, <1>6 DEF Shape, Down, Upwards, Top
<1>8. Clear(u, S)
  BY <1>1, <1>6 DEF Clear
<1>9. Leveled(u, S, t.parent[n], t.which[n], by)
  <2>1. Rebalanced(t, S, n, u) /\ u.balance[n] = v
    BY <1>5, <1>6 DEF Rebalanced
  <2>2. Poised(d, High(t, h, n, d), High(t, h, n, 1 - d), u.balance[n], hn)
    BY <2>1 DEF Righted
  <2>3. Leveled(u, S, t.parent[n], t.which[n], hn - h[n])
    BY <1>1, <2>1, <2>2, Settles
  <2> QED BY <2>3 DEF Righted
<1> QED BY <1>5, <1>6, <1>7, <1>8, <1>9 DEF Formed, Leveled, Reformed, Only

-----------------------------------------------------------------------------
(* The invariant, and the turns of the loops.                               *)

\* The neighbours of the names 1..numnodes.
NextTo == [n \in Nodes |-> [d \in Child |-> IF d = 0 THEN n - 1 ELSE n + 1]]

\* What the operation in progress has still to deal with.
Change(o) == IF o.pc = "insert" THEN 1 ELSE IF o.pc = "remove" THEN -1 ELSE 0
Owed(o)   == Waits(o.at, o.side, Change(o))

\* The operation in progress.
Fields(o) == o = [pc |-> o.pc, at |-> o.at, side |-> o.side, again |-> o.again]
\* What the operation in progress holds, in a tree of N nodes.
Doing(o, N) ==
    /\ Fields(o)
    /\ o.pc \in {"idle", "insert", "add", "remove"} /\ o.at \in 0..N /\ o.side \in Child /\ o.again \in 0..(N + 1)
    /\ o.pc \in {"idle", "add"} => o.at = Null
    /\ o.pc = "remove" => o.at # Null
    /\ o.pc = "add" => o.again # 0

\* What has grown is higher on one side, or new.
Uneven(t, h, o) ==
    o.pc = "insert" /\ o.at # Null => \/ t.balance[t.child[o.at][o.side]] # 0
                                      \/ h[t.child[o.at][o.side]] = 1

\* The tree between any two steps.
Standing(t, N, o) ==
    /\ N \in Nat /\ N <= MaxNodes
    /\ Doing(o, N)
    /\ \E h : Formed(t, 1..N, NextTo, h, Owed(o)) /\ Uneven(t, h, o)

\* The inductive invariant.
AvlInv ==
    /\ Fields(op)
    /\ op.pc # "destroy" => Standing(tree, numnodes, op)

\* x is too high a side beside y, in a tree of height hn.
TooHigh(x, y, hn, by) == x = y + 2 /\ hn = y + by

\* The numbers at a node one side of which has grown (y = 1) or become shorter (y = -1).
LEMMA Turns ==
    ASSUME NEW d \in Child, NEW X \in Nat, NEW Y \in Nat, NEW bal, NEW hn
    PROVE  /\ Poised(d, X - 1, Y, bal, hn) =>
                /\ bal + Grown(d) = 0 => Poised(d, X, Y, 0, hn)
                /\ bal = 0 => Poised(d, X, Y, Grown(d), hn + 1)
                /\ bal = Grown(d) => TooHigh(X, Y, hn, 2)
                /\ hn \in Nat
           /\ Poised(d, X - (-1), Y, bal, hn) =>
                /\ bal = 0 => Poised(d, X, Y, -Grown(d), hn)
                /\ bal = Grown(d) => Poised(d, X, Y, 0, hn - 1)
                /\ bal = -Grown(d) => TooHigh(Y, X, hn, 3)
                /\ hn \in Nat
<1>1. CASE d = 0
  <2>1. ASSUME Poised(d, X - 1, Y, bal, hn)
        PROVE  /\ bal + Grown(d) = 0 => Poised(d, X, Y, 0, hn)
               /\ bal = 0 => Poised(d, X, Y, Grown(d), hn + 1)
               /\ bal = Grown(d) => TooHigh(X, Y, hn, 2)
               /\ hn \in Nat
    BY <1>1, <2>1 DEF Poised, Grown, Higher, TooHigh
  <2>2. ASSUME Poised(d, X - (-1), Y, bal, hn)
        PROVE  /\ bal = 0 => Poised(d, X, Y, -Grown(d), hn)
               /\ bal = Grown(d) => Poised(d, X, Y, 0, hn - 1)
               /\ bal = -Grown(d) => TooHigh(Y, X, hn, 3)
               /\ hn \in Nat
    <3>1. X - (-1) = X + 1
      OBVIOUS
    <3>2. Poised(d, X + 1, Y, bal, hn)
      BY <2>2, <3>1
    <3>3. bal = Y - (X + 1) /\ bal \in -1..1 /\ hn = 1 + (IF X + 1 > Y THEN X + 1 ELSE Y)
      BY <1>1, <3>2 DEF Poised, Higher
    <3>4. bal = 0 => Poised(d, X, Y, -Grown(d), hn)
      <4>1. -Grown(d) = 1
        <5>1. Grown(d) \in Int /\ Grown(d) + 1 = 0
          BY <1>1 DEF Grown
        <5>2. \A x \in Int : x + 1 = 0 => -x = 1
          OBVIOUS
        <5> QED BY <5>1, <5>2
      <4>2. bal = 0 => Y = X + 1 /\ hn = 1 + Y
        BY <3>3
      <4>3. Y = X + 1 => Poised(d, X, Y, 1, 1 + Y)
        BY <1>1 DEF Poised, Higher
      <4> QED BY <4>1, <4>2, <4>3
    <3>5. bal = Grown(d) => Poised(d, X, Y, 0, hn - 1)
      BY <1>1, <3>3 DEF Poised, Grown, Higher
    <3>6. (bal = -Grown(d) => Y = X + 2 /\ hn = X + 3) /\ hn \in Nat
      BY <1>1, <3>3 DEF Grown
    <3> QED BY <3>4, <3>5, <3>6 DEF TooHigh
  <2> QED BY <2>1, <2>2
<1>2. CASE d = 1
  <2>1. ASSUME Poised(d, X - 1, Y, bal, hn)
        PROVE  /\ bal + Grown(d) = 0 => Poised(d, X, Y, 0, hn)
               /\ bal = 0 => Poised(d, X, Y, Grown(d), hn + 1)
               /\ bal = Grown(d) => TooHigh(X, Y, hn, 2)
               /\ hn \in Nat
    BY <1>2, <2>1 DEF Poised, Grown, Higher, TooHigh
  <2>2. ASSUME Poised(d, X - (-1), Y, bal, hn)
        PROVE  /\ bal = 0 => Poised(d, X, Y, -Grown(d), hn)
               /\ bal = Grown(d) => Poised(d, X, Y, 0, hn - 1)
               /\ bal = -Grown(d) => TooHigh(Y, X, hn, 3)
               /\ hn \in Nat
    <3>1. X - (-1) = X + 1
      OBVIOUS
    <3>2. Poised(d, X + 1, Y, bal, hn)
      BY <2>2, <3>1
    <3>3. bal = (X + 1) - Y /\ bal \in -1..1 /\ hn = 1 + (IF X + 1 > Y THEN X + 1 ELSE Y)
      BY <1>2, <3>2 DEF Poised, Higher
    <3>4. bal = 0 => Poised(d, X, Y, -Grown(d), hn)
      BY <1>2, <3>3 DEF Poised, Grown, Higher
    <3>5. bal = Grown(d) => Poised(d, X, Y, 0, hn - 1)
      BY <1>2, <3>3 DEF Poised, Grown, Higher
    <3>6. (bal = -Grown(d) => Y = X + 2 /\ hn = X + 3) /\ hn \in Nat
      BY <1>2, <3>3 DEF Grown
    <3> QED BY <3>4, <3>5, <3>6 DEF TooHigh
  <2> QED BY <2>1, <2>2
<1> QED BY <1>1, <1>2 DEF Child

\* The node n that a loop has come to, and the side d it came from.
AtNode(t, h, o, N, n, d) ==
    /\ n \in 1..N /\ d \in Child /\ 1 - d \in Child /\ Owed(o).at = n
    /\ High(t, h, n, d) \in Nat /\ High(t, h, n, 1 - d) \in Nat
    /\ Poised(d, High(t, h, n, d) - Change(o), High(t, h, n, 1 - d), t.balance[n], h[n])
    /\ t.parent[n] \in {Null} \cup 1..N /\ t.which[n] \in Child
    /\ t.parent[n] # Null => t.child[t.parent[n]][t.which[n]] = n

\* What a loop has to go on with: where it is, and how the sides of that node differ.
LEMMA AtWork ==
    ASSUME NEW t, NEW N, NEW o, Doing(o, N), o.at # Null, NEW h, Formed(t, 1..N, NextTo, h, Owed(o)),
           NEW n, n = o.at, NEW d, d = o.side
    PROVE  AtNode(t, h, o, N, n, d)
<1>1. PICK e : t \in Trees /\ Shape(t, 1..N, NextTo, e) /\ Level(t, 1..N, h, Owed(o))
  BY DEF Formed
<1>2. n \in 1..N /\ d \in Child /\ 1 - d \in Child /\ d # 1 - d /\ 1..N \subseteq Nodes
  BY <1>1, Sides DEF Doing, Null, Shape
<1>3. High(t, h, n, d) \in Nat /\ High(t, h, n, 1 - d) \in Nat
  BY <1>1, <1>2, HighNat
<1>4. Owed(o).at = n /\ Owed(o).side = d /\ Owed(o).by = Change(o)
  BY DEF Owed, Waits
<1>5. Side(t, h, Owed(o), n, d) = High(t, h, n, d) - Change(o) /\ Side(t, h, Owed(o), n, 1 - d) = High(t, h, n, 1 - d)
  BY <1>2, <1>3, <1>4 DEF Side, Due
<1>6. Poised(d, High(t, h, n, d) - Change(o), High(t, h, n, 1 - d), t.balance[n], h[n])
  BY <1>1, <1>2, <1>5 DEF Level, LevelAt
<1>7. t.parent[n] \in {Null} \cup 1..N /\ (t.parent[n] # Null => t.child[t.parent[n]][t.which[n]] = n)
  <2> PICK S : S = 1..N
    OBVIOUS
  <2>1. Shape(t, S, NextTo, e) /\ n \in S
    BY <1>1, <1>2
  <2>2. t.parent[n] \in {Null} \cup S /\ (t.parent[n] # Null => t.child[t.parent[n]][t.which[n]] = n)
    BY <2>1, Parents, Zenon
  <2> QED BY <2>2
<1>8. t.which[n] \in Child
  BY <1>1, <1>2 DEF Trees
<1> QED BY <1>2, <1>3, <1>4, <1>6, <1>7, <1>8 DEF AtNode

\* The next turn deals with what is due, or nothing is.
Takes(o, p, w, by) ==
    \/ o.at = p /\ o.side = w /\ Change(o) = by
    \/ (p = Null \/ by = 0) /\ o.at = Null

\* A turn that takes the operation to p, or ends it, leaves a tree that stands.
LEMMA GoesOn ==
    ASSUME NEW N \in Nat, N <= MaxNodes, NEW u, NEW h2, NEW p, NEW w, NEW by,
           Formed(u, 1..N, NextTo, h2, Waits(p, w, by)), NEW o, Doing(o, N), Takes(o, p, w, by), Uneven(u, h2, o)
    PROVE  Standing(u, N, o)
<1>1. CASE o.at = p /\ o.side = w /\ Change(o) = by
  <2>1. Owed(o) = Waits(p, w, by)
    BY <1>1, Zenon DEF Owed
  <2> QED BY <2>1 DEF Standing
<1>2. CASE (p = Null \/ by = 0) /\ o.at = Null
  <2> PICK S, r : S = 1..N /\ r = Owed(o)
    OBVIOUS
  <2>1. Null \notin S
    BY DEF Null
  <2> PICK q : q = Waits(p, w, by)
    OBVIOUS
  <2>2. (q.at \notin S \/ q.by = 0) /\ r.at \notin S
    BY <1>2, <2>1 DEF Waits, Owed
  <2>3. Formed(u, S, NextTo, h2, q)
    OBVIOUS
  <2>4. Level(u, S, h2, r)
    BY <2>2, <2>3, NoneDue DEF Formed
  <2>5. Formed(u, S, NextTo, h2, r)
    BY <2>3, <2>4 DEF Formed
  <2> QED BY <2>5 DEF Standing
<1> QED BY <1>1, <1>2 DEF Takes

\* The end of an insertion or a removal.
LEMMA Ended ==
    ASSUME NEW N \in Nat
    PROVE  /\ Doing(Idle, N) /\ Idle.pc = "idle" /\ Idle.at = Null
           /\ \A again \in 0..(N + 1) : /\ Doing(Removed(again), N) /\ Removed(again).at = Null
                                        /\ Removed(again).pc \in {"idle", "add"}
<1>1. Null \in 0..N /\ 0 \in 0..(N + 1)
  BY DEF Null
<1>2. Doing(Idle, N) /\ Idle.pc = "idle" /\ Idle.at = Null
  BY <1>1 DEF Doing, Idle, Fields, Child
<1>3. ASSUME NEW again \in 0..(N + 1)
      PROVE  Doing(Removed(again), N) /\ Removed(again).at = Null /\ Removed(again).pc \in {"idle", "add"}
  <2>1. PICK o : o = [pc |-> IF again = 0 THEN "idle" ELSE "add", at |-> Null, side |-> 0, again |-> again]
    OBVIOUS
  <2>2. Removed(again) = o
    <3> PICK i, pc, p : /\ i = [pc |-> "idle", at |-> Null, side |-> 0, again |-> 0]
                        /\ pc = IF again = 0 THEN "idle" ELSE "add"
                        /\ p = [i EXCEPT !.pc = pc, !.again = again]
      OBVIOUS
    <3>1. p = [pc |-> pc, at |-> Null, side |-> 0, again |-> again]
      OBVIOUS
    <3>2. Removed(again) = p
      BY Zenon DEF Removed, Idle
    <3> QED BY <2>1, <3>1, <3>2
  <2>3. Doing(o, N) /\ o.at = Null /\ o.pc \in {"idle", "add"}
    BY <1>1, <2>1 DEF Doing, Fields, Child
  <2> QED BY <2>2, <2>3, Zenon
<1> QED BY <1>2, <1>3

\* The next turn.
LEMMA UpFields ==
    ASSUME Fields(op)
    PROVE  Up = [pc |-> op.pc, at |-> tree.parent[op.at], side |-> tree.which[op.at], again |-> op.again]
<1>1. PICK o : o = op
  OBVIOUS
<1>2. [o EXCEPT !.at = tree.parent[op.at], !.side = tree.which[op.at]]
        = [pc |-> o.pc, at |-> tree.parent[op.at], side |-> tree.which[op.at], again |-> o.again]
  <2>1. o = [pc |-> o.pc, at |-> o.at, side |-> o.side, again |-> o.again]
    BY <1>1 DEF Fields
  <2> PICK x1, x2, x3, x4 : x1 = o.pc /\ x2 = o.at /\ x3 = o.side /\ x4 = o.again
    OBVIOUS
  <2> PICK y2, y3, p : /\ y2 = tree.parent[op.at] /\ y3 = tree.which[op.at]
                       /\ p = [o EXCEPT !.at = y2, !.side = y3]
    OBVIOUS
  <2>2. o = [pc |-> x1, at |-> x2, side |-> x3, again |-> x4]
    BY <2>1, Zenon
  <2>3. p = [pc |-> x1, at |-> y2, side |-> y3, again |-> x4]
    BY <2>2
  <2> QED BY <2>3, Zenon
<1> QED BY <1>1, <1>2 DEF Up

\* The loop of an insertion ends above the root.
LEMMA InsertLeavesKeeps == AvlInv /\ InsertLeaves => AvlInv'
<1> SUFFICES ASSUME AvlInv, InsertLeaves
             PROVE  AvlInv'
  OBVIOUS
<1>1. op.pc = "insert" /\ op.at = Null /\ op' = Idle /\ tree' = tree /\ numnodes' = numnodes
  BY DEF InsertLeaves, In
<1>2. numnodes \in Nat /\ numnodes <= MaxNodes /\ Doing(op, numnodes)
  BY <1>1 DEF AvlInv, Standing
<1>3. PICK h : Formed(tree, 1..numnodes, NextTo, h, Owed(op))
  BY <1>1 DEF AvlInv, Standing
<1>4. PICK w, by : w = op.side /\ by = Change(op)
  OBVIOUS
<1>5. Formed(tree, 1..numnodes, NextTo, h, Waits(Null, w, by))
  BY <1>1, <1>3, <1>4, Zenon DEF Owed
<1>6. Takes(Idle, Null, w, by) /\ Uneven(tree, h, Idle) /\ Doing(Idle, numnodes)
  BY <1>2, Ended DEF Takes, Uneven
<1>7. Standing(tree, numnodes, Idle)
  BY <1>2, <1>5, <1>6, GoesOn
<1>8. Standing(tree', numnodes', op') /\ Fields(op')
  BY <1>1, <1>6, <1>7 DEF Doing
<1> QED BY <1>8 DEF AvlInv

\* What every turn finds.
LEMMA TurnBegins ==
    ASSUME AvlInv, op.pc # "destroy", op.at # Null
    PROVE  /\ numnodes \in Nat /\ numnodes <= MaxNodes /\ Doing(op, numnodes) /\ Fields(op)
           /\ \E h : /\ Formed(tree, 1..numnodes, NextTo, h, Owed(op)) /\ Uneven(tree, h, op)
                     /\ AtNode(tree, h, op, numnodes, op.at, op.side)
<1>1. numnodes \in Nat /\ numnodes <= MaxNodes /\ Doing(op, numnodes) /\ Fields(op)
  BY DEF AvlInv, Standing
<1>2. PICK h : Formed(tree, 1..numnodes, NextTo, h, Owed(op)) /\ Uneven(tree, h, op)
  BY DEF AvlInv, Standing
<1> PICK N, t, o, n, d : N = numnodes /\ t = tree /\ o = op /\ n = o.at /\ d = o.side
  OBVIOUS
<1>3. Doing(o, N) /\ o.at # Null /\ Formed(t, 1..N, NextTo, h, Owed(o))
  BY <1>1, <1>2
<1>4. AtNode(t, h, o, N, n, d)
  BY <1>3, AtWork
<1> QED BY <1>1, <1>2, <1>4

\* A turn that changes the balance of the node it has come to.
LEMMA BalanceTurn ==
    ASSUME NEW t, NEW h, NEW o, NEW N, NEW n, NEW d, AtNode(t, h, o, N, n, d),
           Formed(t, 1..N, NextTo, h, Owed(o)), NEW v, NEW hn, NEW u, Sets(t, n, v, u),
           NEW by, Righted(t, h, n, d, v, hn, by)
    PROVE  /\ Reformed(u, 1..N, NextTo, t.parent[n], t.which[n], by)
           /\ u.balance[n] = v /\ u.child = t.child
<1>0. PICK q, b, S : q = Owed(o) /\ b = NextTo /\ S = 1..N
  OBVIOUS
<1>1. Formed(t, S, b, h, q) /\ n \in S /\ q.at = n /\ d \in Child
  BY <1>0 DEF AtNode
<1>2. Reformed(u, S, b, t.parent[n], t.which[n], by)
  BY <1>1, BalanceForms
<1>3. Only(t, n, v, u)
  BY <1>1, BalanceForms
<1> QED BY <1>0, <1>2, <1>3 DEF Only

\* The balance becomes even.
LEMMA InsertEvenKeeps == AvlInv /\ InsertEven => AvlInv'
<1> SUFFICES ASSUME AvlInv, InsertEven
             PROVE  AvlInv'
  OBVIOUS
<1>1. /\ op.pc = "insert" /\ op.at # Null /\ tree.balance[op.at] + Grown(op.side) = 0
      /\ tree' = [tree EXCEPT !.balance[op.at] = 0] /\ op' = Idle /\ numnodes' = numnodes
  BY DEF InsertEven, In, Old, SetBalance
<1>2. numnodes \in Nat /\ numnodes <= MaxNodes /\ Doing(op, numnodes)
  BY <1>1, TurnBegins
<1> PICK N, t, o, u : N = numnodes /\ t = tree /\ o = op /\ u = tree'
  OBVIOUS
<1> PICK n, d : n = o.at /\ d = o.side
  OBVIOUS
<1>3. PICK h : Formed(t, 1..N, NextTo, h, Owed(o)) /\ AtNode(t, h, o, N, n, d)
  BY <1>1, TurnBegins
<1> PICK X, Y : X = High(t, h, n, d) /\ Y = High(t, h, n, 1 - d)
  OBVIOUS
<1>4. d \in Child /\ X \in Nat /\ Y \in Nat /\ Poised(d, X - 1, Y, t.balance[n], h[n])
  <2>1. Change(o) = 1
    BY <1>1 DEF Change
  <2> QED BY <1>3, <2>1 DEF AtNode
<1>5. Poised(d, High(t, h, n, d), High(t, h, n, 1 - d), 0, h[n]) /\ h[n] \in Nat
  BY <1>1, <1>4, Turns
<1>6. Sets(t, n, 0, u)
  BY <1>1, Zenon DEF Sets
<1>7. Righted(t, h, n, d, 0, h[n], 0)
  <2>1. 0 = h[n] - h[n]
    BY <1>5
  <2> QED BY <1>5, <2>1, Zenon DEF Righted
<1> PICK p, w : p = t.parent[n] /\ w = t.which[n]
  OBVIOUS
<1>8. Reformed(u, 1..N, NextTo, p, w, 0)
  BY <1>3, <1>5, <1>6, <1>7, BalanceTurn
<1>9. PICK h2 : Formed(u, 1..N, NextTo, h2, Waits(p, w, 0))
  BY <1>8 DEF Reformed
<1>10. Takes(Idle, p, w, 0) /\ Uneven(u, h2, Idle) /\ Doing(Idle, N) /\ N \in Nat /\ N <= MaxNodes
  BY <1>2, Ended DEF Takes, Uneven
<1>11. Standing(u, N, Idle)
  BY <1>9, <1>10, GoesOn
<1>12. Standing(tree', numnodes', op') /\ Fields(op')
  BY <1>1, <1>10, <1>11 DEF Doing
<1> QED BY <1>12 DEF AvlInv

\* What a turn that changes one balance leaves to the next.
LEMMA BalanceStep ==
    ASSUME NEW t, NEW h, NEW o, NEW N \in Nat, N <= MaxNodes, NEW n, NEW d, AtNode(t, h, o, N, n, d),
           Formed(t, 1..N, NextTo, h, Owed(o)), NEW v, NEW hn, NEW u, Sets(t, n, v, u),
           NEW by, Righted(t, h, n, d, v, hn, by),
           NEW o2, Doing(o2, N), Takes(o2, t.parent[n], t.which[n], by), o2.pc = "insert" => v # 0
    PROVE  Standing(u, N, o2)
<1> PICK p, w : p = t.parent[n] /\ w = t.which[n]
  OBVIOUS
<1>1. Reformed(u, 1..N, NextTo, p, w, by) /\ u.balance[n] = v /\ u.child = t.child
  BY BalanceTurn
<1>2. PICK h2 : Formed(u, 1..N, NextTo, h2, Waits(p, w, by))
  BY <1>1 DEF Reformed
<1>3. Uneven(u, h2, o2)
  BY <1>1 DEF Uneven, Takes, AtNode
<1> QED BY <1>2, <1>3, GoesOn

\* o went up to child w of p.
WentUp(u, o, p, w) == u = [pc |-> o.pc, at |-> p, side |-> w, again |-> o.again]

\* The records of the next turns.
LEMMA NextTurns ==
    ASSUME NEW t, NEW h, NEW o, NEW N \in Nat, NEW n, NEW d, AtNode(t, h, o, N, n, d), Doing(o, N),
           NEW p, NEW w, p = t.parent[n], w = t.which[n], NEW u, WentUp(u, o, p, w)
    PROVE  /\ o.pc = "insert" => Doing(u, N) /\ Takes(u, p, w, 1)
           /\ o.pc = "remove" => Doing(UpOr(u), N) /\ Takes(UpOr(u), p, w, -1) /\ UpOr(u).pc # "insert"
           /\ Doing(Idle, N) /\ Takes(Idle, p, w, 0) /\ Idle.pc # "insert"
           /\ Doing(Removed(o.again), N) /\ Takes(Removed(o.again), p, w, 0) /\ Removed(o.again).pc # "insert"
<1>1. /\ u.pc = o.pc /\ u.at = p /\ u.side = w /\ u.again = o.again /\ Fields(u)
      /\ p \in 0..N /\ w \in Child /\ o.again \in 0..(N + 1)
  BY DEF Fields, AtNode, Doing, Null, WentUp
<1>2. o.pc = "insert" => Doing(u, N) /\ Takes(u, p, w, 1)
  BY <1>1 DEF Doing, Takes, Change
<1>3. Doing(Removed(o.again), N) /\ Removed(o.again).at = Null /\ Removed(o.again).pc \in {"idle", "add"}
  BY <1>1, Ended
<1>4. ASSUME o.pc = "remove"
      PROVE  Doing(UpOr(u), N) /\ Takes(UpOr(u), p, w, -1) /\ UpOr(u).pc # "insert"
  <2>1. CASE p = Null
    <3>1. UpOr(u) = Removed(o.again)
      BY <1>1, <2>1, Zenon DEF UpOr
    <3> QED BY <1>3, <2>1, <3>1 DEF Takes
  <2>2. CASE p # Null
    <3>1. UpOr(u) = u
      BY <1>1, <2>2, Zenon DEF UpOr
    <3>2. Doing(u, N) /\ Takes(u, p, w, -1) /\ u.pc # "insert"
      BY <1>1, <1>4, <2>2 DEF Doing, Takes, Change
    <3> QED BY <3>1, <3>2, Zenon
  <2> QED BY <2>1, <2>2
<1>5. Doing(Idle, N) /\ Takes(Idle, p, w, 0) /\ Idle.pc # "insert"
  BY Ended DEF Takes
<1>6. Takes(Removed(o.again), p, w, 0) /\ Removed(o.again).pc # "insert"
  BY <1>3 DEF Takes
<1> QED BY <1>2, <1>3, <1>4, <1>5, <1>6

\* The change goes up.
LEMMA InsertUpKeeps == AvlInv /\ InsertUp => AvlInv'
<1> SUFFICES ASSUME AvlInv, InsertUp
             PROVE  AvlInv'
  OBVIOUS
<1>1. /\ op.pc = "insert" /\ op.at # Null /\ tree.balance[op.at] = 0
      /\ tree' = [tree EXCEPT !.balance[op.at] = Grown(op.side)] /\ op' = Up /\ numnodes' = numnodes
  BY DEF InsertUp, In, Old, SetBalance
<1>2. numnodes \in Nat /\ numnodes <= MaxNodes /\ Doing(op, numnodes) /\ Fields(op)
  BY <1>1, TurnBegins
<1> PICK N, t, o, u : N = numnodes /\ t = tree /\ o = op /\ u = tree'
  OBVIOUS
<1> PICK n, d : n = o.at /\ d = o.side
  OBVIOUS
<1>3. PICK h : Formed(t, 1..N, NextTo, h, Owed(o)) /\ AtNode(t, h, o, N, n, d)
  BY <1>1, TurnBegins
<1> PICK X, Y, v : X = High(t, h, n, d) /\ Y = High(t, h, n, 1 - d) /\ v = Grown(d)
  OBVIOUS
<1>4. d \in Child /\ X \in Nat /\ Y \in Nat /\ Poised(d, X - 1, Y, t.balance[n], h[n])
  <2>1. Change(o) = 1
    BY <1>1 DEF Change
  <2> QED BY <1>3, <2>1 DEF AtNode
<1>5. Poised(d, High(t, h, n, d), High(t, h, n, 1 - d), v, h[n] + 1) /\ h[n] \in Nat
  BY <1>1, <1>4, Turns
<1>6. Sets(t, n, v, u)
  BY <1>1, Zenon DEF Sets
<1>7. Righted(t, h, n, d, v, h[n] + 1, 1)
  <2>1. 1 = (h[n] + 1) - h[n]
    BY <1>5
  <2> QED BY <1>5, <2>1, Zenon DEF Righted
<1> PICK p, w, o2 : p = t.parent[n] /\ w = t.which[n] /\ WentUp(o2, o, p, w)
  BY DEF WentUp
<1>8. Doing(o2, N) /\ Takes(o2, p, w, 1)
  BY <1>1, <1>2, <1>3, NextTurns
<1>9. v # 0
  BY <1>4, Signs
<1>10. Standing(u, N, o2)
  BY <1>2, <1>3, <1>6, <1>7, <1>8, <1>9, BalanceStep
<1>11. op' = o2
  BY <1>1, <1>2, UpFields DEF WentUp
<1>12. Standing(tree', numnodes', op') /\ Fields(op')
  BY <1>1, <1>8, <1>10, <1>11 DEF Doing
<1> QED BY <1>12 DEF AvlInv

\* What was higher by one is even after a removal, or what was even is not.
LEMMA RemoveStopsKeeps == AvlInv /\ RemoveStops => AvlInv'
<1> SUFFICES ASSUME AvlInv, RemoveStops
             PROVE  AvlInv'
  OBVIOUS
<1>1. /\ op.pc = "remove" /\ op.at # Null /\ tree.balance[op.at] = 0
      /\ tree' = [tree EXCEPT !.balance[op.at] = -Grown(op.side)] /\ op' = Removed(op.again)
      /\ numnodes' = numnodes
  BY DEF RemoveStops, In, Old, SetBalance, AvlInv, Standing, Doing
<1>2. numnodes \in Nat /\ numnodes <= MaxNodes /\ Doing(op, numnodes)
  BY <1>1, TurnBegins
<1> PICK N, t, o, u : N = numnodes /\ t = tree /\ o = op /\ u = tree'
  OBVIOUS
<1> PICK n, d : n = o.at /\ d = o.side
  OBVIOUS
<1>3. PICK h : Formed(t, 1..N, NextTo, h, Owed(o)) /\ AtNode(t, h, o, N, n, d)
  BY <1>1, TurnBegins
<1> PICK X, Y, v : X = High(t, h, n, d) /\ Y = High(t, h, n, 1 - d) /\ v = -Grown(d)
  OBVIOUS
<1>4. d \in Child /\ X \in Nat /\ Y \in Nat /\ Poised(d, X - (-1), Y, t.balance[n], h[n])
  <2>1. Change(o) = -1
    BY <1>1 DEF Change
  <2> QED BY <1>3, <2>1 DEF AtNode
<1>5. Poised(d, High(t, h, n, d), High(t, h, n, 1 - d), v, h[n]) /\ h[n] \in Nat
  BY <1>1, <1>4, Turns
<1>6. Sets(t, n, v, u)
  BY <1>1, Zenon DEF Sets
<1>7. Righted(t, h, n, d, v, h[n], 0)
  <2>1. 0 = h[n] - h[n]
    BY <1>5
  <2> QED BY <1>5, <2>1, Zenon DEF Righted
<1> PICK p, w, o1, o2 : p = t.parent[n] /\ w = t.which[n] /\ WentUp(o1, o, p, w) /\ o2 = Removed(o.again)
  BY DEF WentUp
<1>8. Doing(o2, N) /\ Takes(o2, p, w, 0) /\ o2.pc # "insert"
  BY <1>1, <1>2, <1>3, NextTurns
<1>9. Standing(u, N, o2)
  BY <1>2, <1>3, <1>6, <1>7, <1>8, BalanceStep
<1>10. Standing(tree', numnodes', op') /\ Fields(op')
  BY <1>1, <1>8, <1>9 DEF Doing
<1> QED BY <1>10 DEF AvlInv

\* The side that was higher is not any more.
LEMMA RemoveEvenKeeps == AvlInv /\ RemoveEven => AvlInv'
<1> SUFFICES ASSUME AvlInv, RemoveEven
             PROVE  AvlInv'
  OBVIOUS
<1>1. /\ op.pc = "remove" /\ op.at # Null /\ tree.balance[op.at] = Grown(op.side)
      /\ tree' = [tree EXCEPT !.balance[op.at] = 0] /\ op' = UpOr(Up) /\ numnodes' = numnodes
  BY DEF RemoveEven, In, Old, SetBalance, AvlInv, Standing, Doing
<1>2. numnodes \in Nat /\ numnodes <= MaxNodes /\ Doing(op, numnodes) /\ Fields(op)
  BY <1>1, TurnBegins
<1> PICK N, t, o, u : N = numnodes /\ t = tree /\ o = op /\ u = tree'
  OBVIOUS
<1> PICK n, d : n = o.at /\ d = o.side
  OBVIOUS
<1>3. PICK h : Formed(t, 1..N, NextTo, h, Owed(o)) /\ AtNode(t, h, o, N, n, d)
  BY <1>1, TurnBegins
<1> PICK X, Y : X = High(t, h, n, d) /\ Y = High(t, h, n, 1 - d)
  OBVIOUS
<1>4. d \in Child /\ X \in Nat /\ Y \in Nat /\ Poised(d, X - (-1), Y, t.balance[n], h[n])
  <2>1. Change(o) = -1
    BY <1>1 DEF Change
  <2> QED BY <1>3, <2>1 DEF AtNode
<1>5. Poised(d, High(t, h, n, d), High(t, h, n, 1 - d), 0, h[n] - 1) /\ h[n] \in Nat
  BY <1>1, <1>4, Turns
<1>6. Sets(t, n, 0, u)
  BY <1>1, Zenon DEF Sets
<1>7. Righted(t, h, n, d, 0, h[n] - 1, -1)
  <2>1. -1 = (h[n] - 1) - h[n]
    BY <1>5
  <2> QED BY <1>5, <2>1, Zenon DEF Righted
<1> PICK p, w, o1, o2 : p = t.parent[n] /\ w = t.which[n] /\ WentUp(o1, o, p, w) /\ o2 = UpOr(o1)
  BY DEF WentUp
<1>8. Doing(o2, N) /\ Takes(o2, p, w, -1) /\ o2.pc # "insert"
  BY <1>1, <1>2, <1>3, NextTurns
<1>9. Standing(u, N, o2)
  BY <1>2, <1>3, <1>6, <1>7, <1>8, BalanceStep
<1>10. op' = o2
  BY <1>1, <1>2, UpFields DEF WentUp
<1>11. Standing(tree', numnodes', op') /\ Fields(op')
  BY <1>1, <1>8, <1>9, <1>10 DEF Doing
<1> QED BY <1>11 DEF AvlInv

\* What the rotation r at n has done to the height there.
Shrinks(t, h, n, d, r, by) == by = (High(t, h, n, 1 - d) + (IF r.shorter THEN 2 ELSE 3)) - h[n]

\* What a turn that makes a rotation leaves to the next: d is the side that is too high.
LEMMA RotationStep ==
    ASSUME NEW t, NEW h, NEW o, NEW N \in Nat, N <= MaxNodes, NEW n \in 1..N, Owed(o).at = n, NEW d \in Child,
           Formed(t, 1..N, NextTo, h, Owed(o)), High(t, h, n, d) = High(t, h, n, 1 - d) + 2,
           NEW r, r = Rotation(t, n, 2 * Grown(d)),
           NEW o2, Doing(o2, N), o2.pc # "insert", NEW by, Shrinks(t, h, n, d, r, by),
           Takes(o2, t.parent[n], t.which[n], by)
    PROVE  Standing(r.tree, N, o2)
<1>0. PICK q, b, S : q = Owed(o) /\ b = NextTo /\ S = 1..N
  OBVIOUS
<1>1. Formed(t, S, b, h, q) /\ n \in S /\ q.at = n
  BY <1>0
<1>2. RotatedAt(t, S, b, h, n, d, r)
  BY <1>1, RotationForms
<1> PICK p, w : p = t.parent[n] /\ w = t.which[n]
  OBVIOUS
<1>3. Reformed(r.tree, S, b, p, w, by)
  BY <1>2, Zenon DEF RotatedAt, Shrinks
<1>4. PICK h2 : Formed(r.tree, 1..N, NextTo, h2, Waits(p, w, by))
  BY <1>0, <1>3 DEF Reformed
<1>5. Uneven(r.tree, h2, o2)
  BY DEF Uneven
<1> QED BY <1>4, <1>5, GoesOn

\* The new node was the second too many on one side.
LEMMA InsertRotateKeeps == AvlInv /\ InsertRotate => AvlInv'
<1> SUFFICES ASSUME AvlInv, InsertRotate
             PROVE  AvlInv'
  OBVIOUS
<1>1. /\ op.pc = "insert" /\ op.at # Null /\ tree.balance[op.at] = Grown(op.side)
      /\ tree' = Rotation(tree, op.at, 2 * tree.balance[op.at]).tree /\ op' = Idle /\ numnodes' = numnodes
  BY DEF InsertRotate, In, Old
<1>2. numnodes \in Nat /\ numnodes <= MaxNodes /\ Doing(op, numnodes)
  BY <1>1, TurnBegins
<1> PICK N, t, o, u : N = numnodes /\ t = tree /\ o = op /\ u = tree'
  OBVIOUS
<1> PICK n, d : n = o.at /\ d = o.side
  OBVIOUS
<1>3. PICK h : Formed(t, 1..N, NextTo, h, Owed(o)) /\ Uneven(t, h, o) /\ AtNode(t, h, o, N, n, d)
  BY <1>1, TurnBegins
<1> PICK X, Y : X = High(t, h, n, d) /\ Y = High(t, h, n, 1 - d)
  OBVIOUS
<1>4. d \in Child /\ X \in Nat /\ Y \in Nat /\ Poised(d, X - 1, Y, t.balance[n], h[n])
  <2>1. Change(o) = 1
    BY <1>1 DEF Change
  <2> QED BY <1>3, <2>1 DEF AtNode
<1>5. X = Y + 2 /\ h[n] = Y + 2
  <2>1. TooHigh(X, Y, h[n], 2)
    BY <1>1, <1>4, Turns
  <2> QED BY <2>1 DEF TooHigh
<1> PICK r : r = Rotation(t, n, 2 * Grown(d))
  OBVIOUS
<1>6. n \in 1..N /\ Owed(o).at = n
  BY <1>3 DEF AtNode
<1>7. r.shorter
  <2>0. PICK q, b, S : q = Owed(o) /\ b = NextTo /\ S = 1..N
    OBVIOUS
  <2>1. Formed(t, S, b, h, q) /\ n \in S /\ q.at = n /\ High(t, h, n, d) = High(t, h, n, 1 - d) + 2
    BY <1>3, <1>5, <1>6, <2>0
  <2>2. h[t.child[n][d]] = High(t, h, n, 1 - d) + 2 /\ (t.balance[t.child[n][d]] # 0 => r.shorter)
    BY <1>4, <2>1, RotationForms
  <2>3. t.balance[t.child[n][d]] # 0 \/ h[t.child[n][d]] = 1
    BY <1>1, <1>3 DEF Uneven
  <2> QED BY <1>4, <2>2, <2>3
<1>8. Shrinks(t, h, n, d, r, 0)
  <2>1. 0 = (Y + 2) - h[n]
    BY <1>4, <1>5
  <2> QED BY <1>7, <2>1 DEF Shrinks
<1> PICK p, w, o1 : p = t.parent[n] /\ w = t.which[n] /\ WentUp(o1, o, p, w)
  BY DEF WentUp
<1>9. Doing(Idle, N) /\ Takes(Idle, p, w, 0) /\ Idle.pc # "insert"
  BY <1>2, <1>3, NextTurns
<1>10. Standing(r.tree, N, Idle)
  BY <1>2, <1>3, <1>4, <1>5, <1>6, <1>8, <1>9, RotationStep
<1>11. tree' = r.tree
  BY <1>1
<1>12. Standing(tree', numnodes', op') /\ Fields(op')
  BY <1>1, <1>9, <1>10, <1>11 DEF Doing
<1> QED BY <1>12 DEF AvlInv

\* What was removed was on the side that was lower.
LEMMA RemoveRotateKeeps == AvlInv /\ RemoveRotate => AvlInv'
<1> SUFFICES ASSUME AvlInv, RemoveRotate
             PROVE  AvlInv'
  OBVIOUS
<1> PICK N, t, o, n, d, r : /\ N = numnodes /\ t = tree /\ o = op /\ n = o.at /\ d = o.side
                            /\ r = Rotation(tree, op.at, 2 * tree.balance[op.at])
  OBVIOUS
<1>1. /\ op.pc = "remove" /\ op.at # Null /\ tree.balance[op.at] = -Grown(op.side)
      /\ tree' = r.tree /\ op' = (IF r.shorter THEN UpOr(Up) ELSE Removed(op.again)) /\ numnodes' = numnodes
  BY Zenon DEF RemoveRotate, In, Old, AvlInv, Standing, Doing
<1>2. numnodes \in Nat /\ numnodes <= MaxNodes /\ Doing(op, numnodes) /\ Fields(op)
  BY <1>1, TurnBegins
<1>3. PICK h : Formed(t, 1..N, NextTo, h, Owed(o)) /\ AtNode(t, h, o, N, n, d)
  BY <1>1, TurnBegins
<1> PICK X, Y, f : X = High(t, h, n, d) /\ Y = High(t, h, n, 1 - d) /\ f = 1 - d
  OBVIOUS
<1>4. d \in Child /\ X \in Nat /\ Y \in Nat /\ Poised(d, X - (-1), Y, t.balance[n], h[n])
  <2>1. Change(o) = -1
    BY <1>1 DEF Change
  <2> QED BY <1>3, <2>1 DEF AtNode
<1>5. Y = X + 2 /\ h[n] = X + 3
  <2>0. PICK bal, hn : bal = t.balance[n] /\ hn = h[n]
    OBVIOUS
  <2>1. Poised(d, X - (-1), Y, bal, hn) => (bal = -Grown(d) => TooHigh(Y, X, hn, 3))
    BY <1>4, Turns, Zenon
  <2>2. TooHigh(Y, X, h[n], 3)
    BY <1>1, <1>4, <2>0, <2>1
  <2> QED BY <2>2 DEF TooHigh
<1>6. n \in 1..N /\ Owed(o).at = n
  BY <1>3 DEF AtNode
<1>7. /\ f \in Child /\ High(t, h, n, f) = Y /\ High(t, h, n, 1 - f) = X
      /\ r = Rotation(t, n, 2 * Grown(f))
  <2>1. f \in Child /\ 1 - f = d
    BY <1>4 DEF Child
  <2>2. t.balance[n] = Grown(f)
    BY <1>1, <1>4, Signs
  <2> QED BY <2>1, <2>2
<1> PICK by : Shrinks(t, h, n, f, r, by)
  BY DEF Shrinks
<1>8. by = IF r.shorter THEN -1 ELSE 0
  <2>1. (X + 2) - h[n] = -1 /\ (X + 3) - h[n] = 0
    BY <1>4, <1>5
  <2> QED BY <1>7, <2>1 DEF Shrinks
<1> PICK p, w, o1, o2 : /\ p = t.parent[n] /\ w = t.which[n] /\ WentUp(o1, o, p, w)
                        /\ o2 = IF r.shorter THEN UpOr(o1) ELSE Removed(o.again)
  BY DEF WentUp
<1>9. Doing(o2, N) /\ Takes(o2, p, w, by) /\ o2.pc # "insert"
  <2>1. Doing(UpOr(o1), N) /\ Takes(UpOr(o1), p, w, -1) /\ UpOr(o1).pc # "insert"
    BY <1>1, <1>2, <1>3, NextTurns
  <2>2. Doing(Removed(o.again), N) /\ Takes(Removed(o.again), p, w, 0) /\ Removed(o.again).pc # "insert"
    BY <1>1, <1>2, <1>3, NextTurns
  <2> QED BY <1>8, <2>1, <2>2
<1>10. Standing(r.tree, N, o2)
  BY <1>2, <1>3, <1>5, <1>6, <1>7, <1>9, RotationStep
<1>11. op' = o2
  <2>1. Up = o1
    BY <1>1, <1>2, UpFields DEF WentUp
  <2> QED BY <1>1, <2>1
<1>12. Standing(tree', numnodes', op') /\ Fields(op')
  BY <1>1, <1>9, <1>10, <1>11 DEF Doing
<1> QED BY <1>12 DEF AvlInv

-----------------------------------------------------------------------------
(* Other names for the nodes.                                               *)

\* The name of a node, or of none.
NewName(name, x) == IF x = Null THEN Null ELSE name[x]

\* No two nodes get the same name.
Injective(S, name) == \A x, y \in S : name[x] = name[y] => x = y

\* In u the nodes of S have other names.
Relabelled(t, S, name, u) ==
    /\ u \in Trees /\ u.root = NewName(name, t.root)
    /\ \A n \in S : name[n] \in Nodes
    /\ Injective(S, name)
    /\ \A n \in S, d \in Child : u.child[name[n]][d] = NewName(name, t.child[n][d])
    /\ \A n \in S : /\ u.parent[name[n]] = NewName(name, t.parent[n])
                    /\ u.which[name[n]] = t.which[n] /\ u.balance[name[n]] = t.balance[n]

\* The new names S2 have the order of the old ones, and the neighbours b2.
InOrder(S, b, name, S2, b2) ==
    /\ S2 = {name[n] : n \in S} /\ Near(S2, b2)
    /\ \A n \in S : \A d \in Child : \A x \in S : Before(d, x, n) => Before(d, name[x], name[n])
    /\ \A n \in S, d \in Child : IF b[n][d] \in S THEN b2[name[n]][d] = name[b[n][d]] ELSE b2[name[n]][d] \notin S2

\* All links of the nodes in S are among them.
Closed(t, S) ==
    /\ t.root \in S \cup {Null}
    /\ \A n \in S : t.parent[n] \in S \cup {Null}
    /\ \A n \in S, d \in Child : t.child[n][d] \in S \cup {Null}

\* The links of a tree are.
LEMMA ShapeClosed ==
    ASSUME NEW t, NEW S, NEW b, NEW e, Shape(t, S, b, e)
    PROVE  Closed(t, S)
<1>1. t.root \in S \cup {Null}
  BY DEF Shape, Top
<1>2. \A n \in S : t.parent[n] \in S \cup {Null}
  BY DEF Shape, Upwards
<1>3. \A n \in S, d \in Child : t.child[n][d] \in S \cup {Null}
  BY DEF Shape, Down
<1> QED BY <1>1, <1>2, <1>3 DEF Closed

\* The new names.
Names(name) == {name[n] : n \in DOMAIN name}

\* The fields of u are those of t under the new names.
FieldsNamed(t, name, u) ==
    /\ u.root = NewName(name, t.root)
    /\ \A m \in Names(name) \cap Nodes :
          \E k \in DOMAIN name : /\ name[k] = m
                                 /\ u.child[m] = [d \in Child |-> NewName(name, t.child[k][d])]
                                 /\ u.parent[m] = NewName(name, t.parent[k])
                                 /\ u.which[m] = t.which[k] /\ u.balance[m] = t.balance[k]
    /\ \A m \in Nodes \ Names(name) :
          u.child[m] = Leaf /\ u.parent[m] = Null /\ u.which[m] = 0 /\ u.balance[m] = 0

\* It has these fields and no others.
TreeLike(u) ==
    /\ u = [root |-> u.root, child |-> u.child, parent |-> u.parent, which |-> u.which, balance |-> u.balance]
    /\ u.child = [m \in Nodes |-> u.child[m]] /\ u.parent = [m \in Nodes |-> u.parent[m]]
    /\ u.which = [m \in Nodes |-> u.which[m]] /\ u.balance = [m \in Nodes |-> u.balance[m]]

\* What Renamed gives.
LEMMA RenamedFields ==
    ASSUME NEW t, NEW name
    PROVE  FieldsNamed(t, name, Renamed(t, name)) /\ TreeLike(Renamed(t, name))
<1> DEFINE old(m) == CHOOSE n \in DOMAIN name : name[n] = m
           kept   == {name[n] : n \in DOMAIN name}
<1>1. PICK ch, pa, wh, ba :
        /\ ch = [m \in Nodes |-> IF m \in kept THEN [d \in Child |-> NewName(name, t.child[old(m)][d])] ELSE Leaf]
        /\ pa = [m \in Nodes |-> IF m \in kept THEN NewName(name, t.parent[old(m)]) ELSE Null]
        /\ wh = [m \in Nodes |-> IF m \in kept THEN t.which[old(m)] ELSE 0]
        /\ ba = [m \in Nodes |-> IF m \in kept THEN t.balance[old(m)] ELSE 0]
  OBVIOUS
<1>2. PICK u : u = [root |-> NewName(name, t.root), child |-> ch, parent |-> pa, which |-> wh, balance |-> ba]
  OBVIOUS
<1>3. u = Renamed(t, name)
  BY <1>1, <1>2, Zenon DEF Renamed, NewName
<1>4. \A m \in kept : old(m) \in DOMAIN name /\ name[old(m)] = m
  OBVIOUS
<1>k. kept = Names(name)
  BY DEF Names
<1> HIDE DEF old, kept
<1>5. /\ u.root = NewName(name, t.root) /\ u.child = ch /\ u.parent = pa /\ u.which = wh /\ u.balance = ba
      /\ u = [root |-> u.root, child |-> u.child, parent |-> u.parent, which |-> u.which, balance |-> u.balance]
  BY <1>2
<1>6. \A m \in kept \cap Nodes :
         /\ ch[m] = [d \in Child |-> NewName(name, t.child[old(m)][d])] /\ pa[m] = NewName(name, t.parent[old(m)])
         /\ wh[m] = t.which[old(m)] /\ ba[m] = t.balance[old(m)]
  BY <1>1
<1>7. \A m \in Nodes \ kept : ch[m] = Leaf /\ pa[m] = Null /\ wh[m] = 0 /\ ba[m] = 0
  BY <1>1
<1>8. /\ ch = [m \in Nodes |-> ch[m]] /\ pa = [m \in Nodes |-> pa[m]]
      /\ wh = [m \in Nodes |-> wh[m]] /\ ba = [m \in Nodes |-> ba[m]]
  BY <1>1
<1>9. ASSUME NEW m \in Names(name) \cap Nodes
      PROVE  \E k \in DOMAIN name :
                 /\ name[k] = m
                 /\ u.child[m] = [d \in Child |-> NewName(name, t.child[k][d])]
                 /\ u.parent[m] = NewName(name, t.parent[k])
                 /\ u.which[m] = t.which[k] /\ u.balance[m] = t.balance[k]
  <2> PICK k : k = old(m)
    OBVIOUS
  <2>1. k \in DOMAIN name /\ name[k] = m
    BY <1>4, <1>k
  <2>2. /\ u.child[m] = [d \in Child |-> NewName(name, t.child[k][d])]
        /\ u.parent[m] = NewName(name, t.parent[k])
        /\ u.which[m] = t.which[k] /\ u.balance[m] = t.balance[k]
    BY <1>5, <1>6, <1>k
  <2> QED BY <2>1, <2>2
<1>10. \A m \in Nodes \ Names(name) : u.child[m] = Leaf /\ u.parent[m] = Null /\ u.which[m] = 0 /\ u.balance[m] = 0
  BY <1>5, <1>7, <1>k
<1>11. FieldsNamed(t, name, u)
  BY <1>5, <1>9, <1>10, Zenon DEF FieldsNamed
<1>12. TreeLike(u)
  BY <1>5, <1>8, Zenon DEF TreeLike
<1> QED BY <1>3, <1>11, <1>12

\* What has no name has no links, and is even.
Blanks(u, S2) == \A m \in Nodes \ S2 : /\ u.parent[m] = Null /\ u.balance[m] = 0
                                       /\ \A d \in Child : u.child[m][d] = Null

\* Renamed gives other names.
LEMMA RenamedRelabels ==
    ASSUME NEW t \in Trees, NEW S, S \subseteq Nodes, Closed(t, S), NEW name \in [S -> Nodes], Injective(S, name),
           NEW u, u = Renamed(t, name)
    PROVE  Relabelled(t, S, name, u) /\ Blanks(u, {name[n] : n \in S})
<1>1. FieldsNamed(t, name, u) /\ TreeLike(u)
  BY RenamedFields
<1> PICK S2 : S2 = {name[n] : n \in S}
  OBVIOUS
<1>2. Names(name) = S2 /\ S2 \subseteq Nodes /\ DOMAIN name = S
  BY DEF Names
<1>3. u.root = NewName(name, t.root)
  BY <1>1 DEF FieldsNamed
<1>4. ASSUME NEW m \in S2
      PROVE  \E k \in S : /\ name[k] = m
                          /\ u.child[m] = [d \in Child |-> NewName(name, t.child[k][d])]
                          /\ u.parent[m] = NewName(name, t.parent[k])
                          /\ u.which[m] = t.which[k] /\ u.balance[m] = t.balance[k]
  BY <1>1, <1>2 DEF FieldsNamed
<1>5. \A m \in Nodes \ S2 : u.child[m] = Leaf /\ u.parent[m] = Null /\ u.which[m] = 0 /\ u.balance[m] = 0
  BY <1>1, <1>2 DEF FieldsNamed
<1>6. \A n \in S : /\ u.child[name[n]] = [d \in Child |-> NewName(name, t.child[n][d])]
                   /\ u.parent[name[n]] = NewName(name, t.parent[n])
                   /\ u.which[name[n]] = t.which[n] /\ u.balance[name[n]] = t.balance[n]
  <2> TAKE n \in S
  <2>1. PICK k \in S : /\ name[k] = name[n]
                       /\ u.child[name[n]] = [d \in Child |-> NewName(name, t.child[k][d])]
                       /\ u.parent[name[n]] = NewName(name, t.parent[k])
                       /\ u.which[name[n]] = t.which[k] /\ u.balance[name[n]] = t.balance[k]
    BY <1>4
  <2>2. k = n
    BY <2>1 DEF Injective
  <2> QED BY <2>1, <2>2
<1>7. \A x \in S \cup {Null} : NewName(name, x) \in MaybeNode
  BY DEF NewName, MaybeNode
<1>8. u \in Trees
  <2>1. u.root \in MaybeNode
    BY <1>3, <1>7 DEF Closed
  <2>2. u.child \in [Nodes -> [Child -> MaybeNode]]
    <3>1. \A n \in S, d \in Child : NewName(name, t.child[n][d]) \in MaybeNode
      BY <1>7 DEF Closed
    <3>2. \A n \in S : u.child[name[n]] \in [Child -> MaybeNode]
      <4> TAKE n \in S
      <4>1. [d \in Child |-> NewName(name, t.child[n][d])] \in [Child -> MaybeNode]
        BY <3>1
      <4>2. u.child[name[n]] = [d \in Child |-> NewName(name, t.child[n][d])]
        BY <1>6
      <4> QED BY <4>1, <4>2, Zenon
    <3>3. Leaf \in [Child -> MaybeNode]
      BY DEF Leaf, MaybeNode
    <3>4. \A m \in Nodes : u.child[m] \in [Child -> MaybeNode]
      BY <1>5, <3>2, <3>3
    <3>5. u.child = [m \in Nodes |-> u.child[m]]
      BY <1>1 DEF TreeLike
    <3> QED BY <3>4, <3>5
  <2>3. u.parent \in [Nodes -> MaybeNode]
    <3>1. \A n \in S : u.parent[name[n]] \in MaybeNode
      BY <1>6, <1>7 DEF Closed
    <3>2. \A m \in Nodes : u.parent[m] \in MaybeNode
      BY <1>5, <3>1 DEF MaybeNode
    <3>3. u.parent = [m \in Nodes |-> u.parent[m]]
      BY <1>1 DEF TreeLike
    <3> QED BY <3>2, <3>3
  <2>4. u.which \in [Nodes -> Child]
    <3>1. \A n \in S : u.which[name[n]] \in Child
      BY <1>6 DEF Trees
    <3>2. \A m \in Nodes : u.which[m] \in Child
      BY <1>5, <3>1 DEF Child
    <3>3. u.which = [m \in Nodes |-> u.which[m]]
      BY <1>1 DEF TreeLike
    <3> QED BY <3>2, <3>3
  <2>5. u.balance \in [Nodes -> Int]
    <3>1. \A n \in S : u.balance[name[n]] \in Int
      BY <1>6 DEF Trees
    <3>2. \A m \in Nodes : u.balance[m] \in Int
      BY <1>5, <3>1
    <3>3. u.balance = [m \in Nodes |-> u.balance[m]]
      BY <1>1 DEF TreeLike
    <3> QED BY <3>2, <3>3
  <2>6. u = [root |-> u.root, child |-> u.child, parent |-> u.parent, which |-> u.which, balance |-> u.balance]
    BY <1>1 DEF TreeLike
  <2> QED BY <2>1, <2>2, <2>3, <2>4, <2>5, <2>6 DEF Trees
<1>9. \A n \in S, d \in Child : u.child[name[n]][d] = NewName(name, t.child[n][d])
  BY <1>6
<1>10. Blanks(u, S2)
  BY <1>5 DEF Blanks, Leaf
<1> QED BY <1>3, <1>6, <1>8, <1>9, <1>10 DEF Relabelled

\* Names in order are different, and the order can be read back.
LEMMA OrderKept ==
    ASSUME NEW S, NEW b, NEW name, NEW S2, NEW b2, InOrder(S, b, name, S2, b2), S \subseteq Int, S2 \subseteq Int,
           NEW d \in Child, NEW x \in S, NEW n \in S, ~Before(d, n, x)
    PROVE  ~Before(d, name[n], name[x])
<1>1. 1 - d \in Child /\ name[n] \in Int /\ name[x] \in Int /\ n \in Int /\ x \in Int
  BY Sides DEF InOrder
<1>2. CASE x = n
  BY <1>1, <1>2, Sides
<1>3. CASE x # n
  <2>1. Before(d, x, n)
    BY <1>1, <1>3, Sides
  <2>2. Before(d, name[x], name[n])
    BY <2>1 DEF InOrder
  <2> QED BY <1>1, <2>2 DEF Before, Child
<1> QED BY <1>2, <1>3

\* Under names in order the shape is the same.
LEMMA RelabelShape ==
    ASSUME NEW t, NEW S, NEW b, NEW e, Shape(t, S, b, e), NEW name, NEW u, Relabelled(t, S, name, u),
           NEW S2, NEW b2, InOrder(S, b, name, S2, b2)
    PROVE  \E e2 : Shape(u, S2, b2, e2)
<1> DEFINE old(m) == CHOOSE n \in S : name[n] = m
<1>1. \A n \in S : name[n] \in S2 /\ old(name[n]) = n
  BY DEF InOrder, Relabelled, Injective
<1>2. \A m \in S2 : old(m) \in S /\ name[old(m)] = m
  BY DEF InOrder
<1> HIDE DEF old
<1>3. PICK e2 : e2 = [m \in S2 |-> [d \in Child |-> name[e[old(m)][d]]]]
  OBVIOUS
<1>4. \A n \in S, d \in Child : e2[name[n]][d] = name[e[n][d]]
  BY <1>1, <1>3
<1>5. S2 \subseteq Nodes /\ S \subseteq Nodes /\ Null \notin S /\ Null \notin S2 /\ S \subseteq Int /\ S2 \subseteq Int
  <2>1. S2 \subseteq Nodes
    BY <1>2 DEF Relabelled
  <2> QED BY <2>1, Sides DEF Shape
<1>6. /\ \A n \in S, d \in Child : u.child[name[n]][d] = NewName(name, t.child[n][d])
      /\ \A n \in S : u.parent[name[n]] = NewName(name, t.parent[n]) /\ u.which[name[n]] = t.which[n]
      /\ u.root = NewName(name, t.root)
  BY DEF Relabelled
<1>7. \A n \in S : NewName(name, n) = name[n] /\ name[n] # Null
  BY <1>1, <1>5 DEF NewName
<1>8. Ends(S2, e2)
  <2>1. ASSUME NEW n \in S, NEW d \in Child
        PROVE  e2[name[n]][d] \in S2 /\ ~Before(d, name[n], e2[name[n]][d])
    <3>1. e[n][d] \in S /\ ~Before(d, n, e[n][d])
      BY DEF Shape, Ends
    <3>2. ~Before(d, name[n], name[e[n][d]])
      BY <1>5, <3>1, OrderKept
    <3> QED BY <1>1, <1>4, <3>1, <3>2
  <2> QED BY <1>2, <2>1 DEF Ends
<1>9. Down(u, S2, b2, e2)
  <2>1. ASSUME NEW n \in S, NEW d \in Child, NEW m, m = name[n]
        PROVE  \/ u.child[m][d] = Null /\ e2[m][d] = m
               \/ /\ u.child[m][d] \in S2 /\ u.parent[u.child[m][d]] = m /\ u.which[u.child[m][d]] = d
                  /\ e2[u.child[m][d]][d] = e2[m][d] /\ e2[u.child[m][d]][1 - d] = b2[m][d]
    <3> PICK c : c = t.child[n][d]
      OBVIOUS
    <3>1. CASE c = Null
      <4>1. t.child[n][d] = Null
        BY <3>1
      <4>2. e[n][d] = n
        BY <4>1, NoneBelow
      <4>3. u.child[m][d] = Null
        BY <1>6, <2>1, <4>1 DEF NewName
      <4> QED BY <1>4, <2>1, <4>2, <4>3
    <3>2. CASE c # Null
      <4>1. /\ c \in S /\ t.parent[c] = n /\ t.which[c] = d
            /\ e[c][d] = e[n][d] /\ e[c][1 - d] = b[n][d]
        BY <3>2, Below
      <4>2. 1 - d \in Child /\ e[c][1 - d] \in S
        BY <4>1, Sides DEF Shape, Ends
      <4>3. b2[m][d] = name[b[n][d]]
        BY <2>1, <4>1, <4>2 DEF InOrder
      <4>4. u.child[m][d] = name[c]
        BY <1>6, <1>7, <2>1, <4>1
      <4>5. u.parent[name[c]] = m /\ u.which[name[c]] = d
        BY <1>6, <1>7, <2>1, <4>1
      <4>6. e2[name[c]][d] = e2[m][d] /\ e2[name[c]][1 - d] = b2[m][d]
        BY <1>4, <2>1, <4>1, <4>2, <4>3
      <4> QED BY <1>1, <4>1, <4>4, <4>5, <4>6
    <3> QED BY <3>1, <3>2
  <2>2. \A m \in S2 : \E n \in S : m = name[n]
    BY <1>2
  <2> QED BY <2>1, <2>2 DEF Down
<1>10. Upwards(u, S2)
  <2>1. ASSUME NEW n \in S, NEW m, m = name[n]
        PROVE  \/ u.parent[m] = Null /\ m = u.root
               \/ u.parent[m] \in S2 /\ u.which[m] \in Child /\ u.child[u.parent[m]][u.which[m]] = m
    <3>1. CASE t.parent[n] = Null /\ n = t.root
      BY <1>6, <1>7, <2>1, <3>1 DEF NewName
    <3>2. CASE t.parent[n] \in S /\ t.which[n] \in Child /\ t.child[t.parent[n]][t.which[n]] = n
      BY <1>1, <1>6, <1>7, <2>1, <3>2
    <3> QED BY <3>1, <3>2 DEF Shape, Upwards
  <2>2. \A m \in S2 : \E n \in S : m = name[n]
    BY <1>2
  <2> QED BY <2>1, <2>2 DEF Upwards
<1>11. Top(u, S2, b2, e2)
  <2>1. CASE t.root = Null /\ S = {}
    <3>1. S2 = {}
      BY <1>2, <2>1
    <3>2. u.root = Null
      BY <1>6, <2>1 DEF NewName
    <3> QED BY <3>1, <3>2 DEF Top
  <2>2. CASE t.root \in S /\ t.parent[t.root] = Null /\ \A d \in Child : b[e[t.root][d]][d] \notin S
    <3> PICK r : r = t.root
      OBVIOUS
    <3>1. u.root = name[r] /\ u.root \in S2 /\ u.parent[u.root] = Null
      BY <1>1, <1>6, <1>7, <2>2 DEF NewName
    <3>2. ASSUME NEW d \in Child
          PROVE  b2[e2[u.root][d]][d] \notin S2
      <4>1. e[r][d] \in S /\ b[e[r][d]][d] \notin S
        BY <2>2 DEF Shape, Ends
      <4>2. e2[u.root][d] = name[e[r][d]]
        BY <1>4, <2>2, <3>1
      <4>3. b2[name[e[r][d]]][d] \notin S2
        BY <4>1 DEF InOrder
      <4> QED BY <4>2, <4>3
    <3> QED BY <3>1, <3>2 DEF Top
  <2> QED BY <2>1, <2>2 DEF Shape, Top
<1>12. Near(S2, b2)
  BY DEF InOrder
<1>13. Shape(u, S2, b2, e2)
  BY <1>5, <1>8, <1>9, <1>10, <1>11, <1>12 DEF Shape
<1> QED BY <1>13

\* What is due keeps its place.
DueMoved(name, q, q2) == q2 = Waits(NewName(name, q.at), q.side, q.by)

\* The new heights are the old ones.
HeightsMoved(S, name, h, h2) == \A n \in S : h2[name[n]] = h[n]

\* Under other names the heights are the same.
LEMMA RelabelLevel ==
    ASSUME NEW t, NEW S, NEW b, NEW e, Shape(t, S, b, e), NEW h, NEW q, Level(t, S, h, q), q.at \in S \cup {Null},
           NEW name, NEW u, Relabelled(t, S, name, u), NEW q2, DueMoved(name, q, q2)
    PROVE  \E h2 : Level(u, {name[n] : n \in S}, h2, q2) /\ HeightsMoved(S, name, h, h2)
<1> DEFINE old(m) == CHOOSE n \in S : name[n] = m
<1> PICK S2 : S2 = {name[n] : n \in S}
  OBVIOUS
<1>1. \A n \in S : name[n] \in S2 /\ old(name[n]) = n
  BY DEF Relabelled, Injective
<1>2. \A m \in S2 : \E n \in S : m = name[n]
  OBVIOUS
<1> HIDE DEF old
<1>3. PICK h2 : h2 = [m \in S2 |-> h[old(m)]]
  OBVIOUS
<1>4. \A n \in S : h2[name[n]] = h[n]
  BY <1>1, <1>3
<1>5. Null \notin S /\ \A n \in S : name[n] \in Nodes /\ name[n] # Null
  BY Sides DEF Shape, Relabelled
<1>6. q2.at = NewName(name, q.at) /\ q2.side = q.side /\ q2.by = q.by
  BY DEF DueMoved, Waits
<1>7. ASSUME NEW n \in S, NEW d \in Child
      PROVE  Side(u, h2, q2, name[n], d) = Side(t, h, q, n, d)
  <2>1. High(u, h2, name[n], d) = High(t, h, n, d)
    <3> PICK c : c = t.child[n][d]
      OBVIOUS
    <3>1. u.child[name[n]][d] = NewName(name, c)
      BY DEF Relabelled
    <3>2. c = Null \/ c \in S
      BY Below
    <3>3. CASE c = Null
      BY <3>1, <3>3 DEF High, NewName
    <3>4. CASE c \in S
      <4>1. c # Null /\ NewName(name, c) = name[c] /\ name[c] # Null
        BY <1>5, <3>4 DEF NewName
      <4> QED BY <1>4, <3>1, <3>4, <4>1 DEF High
    <3> QED BY <3>2, <3>3, <3>4
  <2>2. q2.at = name[n] <=> q.at = n
    BY <1>5, <1>6 DEF NewName, Relabelled, Injective
  <2>3. Due(q2, name[n], d) = Due(q, n, d)
    BY <1>6, <2>2 DEF Due
  <2> QED BY <2>1, <2>3 DEF Side
<1>8. ASSUME NEW n \in S, NEW d \in Child
      PROVE  LevelAt(u, h2, q2, name[n], d)
  <2>1. 1 - d \in Child
    BY Sides
  <2>2. Side(u, h2, q2, name[n], d) = Side(t, h, q, n, d) /\ Side(u, h2, q2, name[n], 1 - d) = Side(t, h, q, n, 1 - d)
    BY <1>7, <2>1
  <2>3. u.balance[name[n]] = t.balance[n]
    BY DEF Relabelled
  <2>4. LevelAt(t, h, q, n, d)
    BY DEF Level
  <2> QED BY <1>4, <2>2, <2>3, <2>4 DEF LevelAt
<1>9. Level(u, S2, h2, q2)
  BY <1>2, <1>8 DEF Level
<1> QED BY <1>4, <1>9 DEF HeightsMoved

\* t has the nodes S, the neighbours b and the heights h, but for what is due; others may have old links.
Sound(t, S, b, h, q) == t \in Trees /\ (\E e : Shape(t, S, b, e)) /\ Level(t, S, h, q)

\* A tree in order is in order under other names.
LEMMA RelabelSound ==
    ASSUME NEW t, NEW S, NEW b, NEW h, NEW q, Sound(t, S, b, h, q), q.at \in S \cup {Null},
           NEW name, NEW u, Relabelled(t, S, name, u), NEW S2, NEW b2, InOrder(S, b, name, S2, b2),
           NEW q2, DueMoved(name, q, q2)
    PROVE  \E h2 : Sound(u, S2, b2, h2, q2) /\ HeightsMoved(S, name, h, h2)
<1>1. PICK e : Shape(t, S, b, e) /\ Level(t, S, h, q)
  BY DEF Sound
<1>2. PICK e2 : Shape(u, S2, b2, e2)
  BY <1>1, RelabelShape
<1>3. PICK h2 : Level(u, {name[n] : n \in S}, h2, q2) /\ HeightsMoved(S, name, h, h2)
  BY <1>1, RelabelLevel
<1>4. S2 = {name[n] : n \in S}
  BY DEF InOrder
<1>5. u \in Trees
  BY DEF Relabelled
<1> QED BY <1>2, <1>3, <1>4, <1>5 DEF Sound

\* The neighbours when r is not there.
Without(b, r) == [n \in Nodes |-> [d \in Child |-> IF b[n][d] = r THEN b[r][d] ELSE b[n][d]]]

\* The neighbours of a number.
LEMMA NextToIs ==
    \A n \in Nodes, d \in Child : NextTo[n][d] = IF d = 0 THEN n - 1 ELSE n + 1
BY DEF NextTo

\* The neighbours of a number when r is not there.
LEMMA WithoutIs ==
    ASSUME NEW r \in Nodes
    PROVE  \A n \in Nodes, d \in Child :
               Without(NextTo, r)[n][d] = IF d = 0 THEN (IF n - 1 = r THEN r - 1 ELSE n - 1)
                                                   ELSE (IF n + 1 = r THEN r + 1 ELSE n + 1)
<1>1. \A n \in Nodes, d \in Child :
          Without(NextTo, r)[n][d] = IF NextTo[n][d] = r THEN NextTo[r][d] ELSE NextTo[n][d]
  BY DEF Without
<1> QED BY <1>1, NextToIs

\* The names that leave r free.
LEMMA GapNames ==
    ASSUME NEW N \in Nat, N < MaxNodes, NEW r \in 1..(N + 1),
           NEW name, name = [n \in 1..N |-> IF n < r THEN n ELSE n + 1],
           NEW S2, S2 = 1..(N + 1) \ {r}
    PROVE  /\ name \in [1..N -> Nodes] /\ Injective(1..N, name)
           /\ InOrder(1..N, NextTo, name, S2, Without(NextTo, r))
<1> PICK S, b2 : S = 1..N /\ b2 = Without(NextTo, r)
  OBVIOUS
<1>1. /\ \A n : n \in S <=> n \in Int /\ 1 <= n /\ n <= N
      /\ \A n : n \in S2 <=> n \in Int /\ 1 <= n /\ n <= N + 1 /\ n # r
      /\ r \in Int /\ 1 <= r /\ r <= N + 1 /\ r \in Nodes
      /\ S \subseteq Nodes /\ S2 \subseteq Nodes
  BY NodesAssumption DEF Nodes
<1>2. \A n \in S : name[n] = IF n < r THEN n ELSE n + 1
  OBVIOUS
<1>3. /\ \A n \in Nodes : b2[n][0] = IF n - 1 = r THEN r - 1 ELSE n - 1
      /\ \A n \in Nodes : b2[n][1] = IF n + 1 = r THEN r + 1 ELSE n + 1
      /\ \A n \in Nodes : NextTo[n][0] = n - 1 /\ NextTo[n][1] = n + 1
  BY <1>1, WithoutIs, NextToIs DEF Child
<1>4. \A n \in S : name[n] \in S2
  BY <1>1, <1>2
<1>5. name \in [S -> Nodes]
  BY <1>1, <1>4
<1>6. Injective(S, name)
  BY <1>1, <1>2 DEF Injective
<1>7. S2 = {name[n] : n \in S}
  <2>1. ASSUME NEW m \in S2
        PROVE  \E n \in S : m = name[n]
    <3>1. CASE m < r
      <4>1. m \in S /\ name[m] = m
        BY <1>1, <1>2, <3>1
      <4> QED BY <4>1
    <3>2. CASE ~(m < r)
      <4>1. m - 1 \in S /\ name[m - 1] = m
        BY <1>1, <1>2, <3>2
      <4> QED BY <4>1
    <3> QED BY <3>1, <3>2
  <2>2. \A m : m \in S2 <=> \E n \in S : m = name[n]
    BY <1>4, <2>1
  <2> QED BY <2>2, Zenon
<1>8. Near(S2, b2)
  <2>1. ASSUME NEW n \in S2
        PROVE  /\ b2[n][0] \in Int /\ b2[n][0] < n /\ b2[n][1] \in Int /\ n < b2[n][1]
               /\ b2[n][0] \in S2 => b2[b2[n][0]][1] = n
               /\ b2[n][1] \in S2 => b2[b2[n][1]][0] = n
    <3>1. n \in Nodes /\ n \in Int /\ 1 <= n /\ n <= N + 1 /\ n # r
      BY <1>1
    <3> PICK x, y : x = b2[n][0] /\ y = b2[n][1]
      OBVIOUS
    <3>2. x = (IF n - 1 = r THEN r - 1 ELSE n - 1) /\ y = IF n + 1 = r THEN r + 1 ELSE n + 1
      BY <1>3, <3>1
    <3>3. x \in Int /\ x < n /\ y \in Int /\ n < y
      BY <1>1, <3>1, <3>2
    <3>4. ASSUME x \in S2
          PROVE  b2[x][1] = n
      <4>1. x \in Nodes /\ x # r
        BY <1>1, <3>4
      <4>2. b2[x][1] = IF x + 1 = r THEN r + 1 ELSE x + 1
        BY <1>3, <4>1
      <4> QED BY <1>1, <3>1, <3>2, <3>3, <4>1, <4>2
    <3>5. ASSUME y \in S2
          PROVE  b2[y][0] = n
      <4>1. y \in Nodes /\ y # r
        BY <1>1, <3>5
      <4>2. b2[y][0] = IF y - 1 = r THEN r - 1 ELSE y - 1
        BY <1>3, <4>1
      <4> QED BY <1>1, <3>1, <3>2, <3>3, <4>1, <4>2
    <3> QED BY <3>3, <3>4, <3>5
  <2> QED BY <2>1 DEF Near, Before, Child
<1>9. \A n \in S, d \in Child, x \in S : Before(d, x, n) => Before(d, name[x], name[n])
  BY <1>1, <1>2 DEF Before, Child
<1>10. \A n \in S, d \in Child :
           IF NextTo[n][d] \in S THEN b2[name[n]][d] = name[NextTo[n][d]] ELSE b2[name[n]][d] \notin S2
  <2>1. ASSUME NEW n \in S
        PROVE  IF NextTo[n][0] \in S THEN b2[name[n]][0] = name[NextTo[n][0]] ELSE b2[name[n]][0] \notin S2
    <3>1. NextTo[n][0] = n - 1 /\ name[n] \in Nodes
      BY <1>1, <1>3, <1>4
    <3>2. b2[name[n]][0] = IF name[n] - 1 = r THEN r - 1 ELSE name[n] - 1
      BY <1>3, <3>1
    <3>3. CASE n - 1 \in S
      <4>1. name[n - 1] = IF n - 1 < r THEN n - 1 ELSE n - 1 + 1
        BY <1>2, <3>3
      <4> QED BY <1>1, <1>2, <3>1, <3>2, <3>3, <4>1
    <3>4. CASE n - 1 \notin S
      BY <1>1, <1>2, <3>1, <3>2, <3>4
    <3> QED BY <3>3, <3>4
  <2>2. ASSUME NEW n \in S
        PROVE  IF NextTo[n][1] \in S THEN b2[name[n]][1] = name[NextTo[n][1]] ELSE b2[name[n]][1] \notin S2
    <3>1. NextTo[n][1] = n + 1 /\ name[n] \in Nodes
      BY <1>1, <1>3, <1>4
    <3>2. b2[name[n]][1] = IF name[n] + 1 = r THEN r + 1 ELSE name[n] + 1
      BY <1>3, <3>1
    <3>3. CASE n + 1 \in S
      <4>1. name[n + 1] = IF n + 1 < r THEN n + 1 ELSE n + 1 + 1
        BY <1>2, <3>3
      <4> QED BY <1>1, <1>2, <3>1, <3>2, <3>3, <4>1
    <3>4. CASE n + 1 \notin S
      BY <1>1, <1>2, <3>1, <3>2, <3>4
    <3> QED BY <3>3, <3>4
  <2> QED BY <2>1, <2>2 DEF Child
<1>11. InOrder(S, NextTo, name, S2, b2)
  BY <1>7, <1>8, <1>9, <1>10 DEF InOrder
<1> QED BY <1>5, <1>6, <1>11

\* All numbers are neighbours.
LEMMA NearAll ==
    ASSUME NEW N \in Nat, N <= MaxNodes
    PROVE  Near(1..N, NextTo)
<1>1. \A n \in 1..N : n \in Nodes /\ n \in Int
  BY NodesAssumption DEF Nodes
<1>2. ASSUME NEW n \in 1..N
      PROVE  /\ NextTo[n][0] \in Int /\ NextTo[n][0] < n /\ NextTo[n][1] \in Int /\ n < NextTo[n][1]
             /\ NextTo[n][0] \in 1..N => NextTo[NextTo[n][0]][1] = n
             /\ NextTo[n][1] \in 1..N => NextTo[NextTo[n][1]][0] = n
  <2> PICK x, y : x = NextTo[n][0] /\ y = NextTo[n][1]
    OBVIOUS
  <2>1. x = n - 1 /\ y = n + 1 /\ n \in Int
    BY <1>1, NextToIs DEF Child
  <2>2. x \in 1..N => NextTo[x][1] = n
    BY <1>1, <2>1, NextToIs DEF Child
  <2>3. y \in 1..N => NextTo[y][0] = n
    BY <1>1, <2>1, NextToIs DEF Child
  <2> QED BY <2>1, <2>2, <2>3
<1> QED BY <1>2 DEF Near, Before, Child

\* Number r is next to p on side d.
NextIs(r, p, d) == r = IF d = 1 THEN p + 1 ELSE p - 1

\* The node for which the names have left r free comes between its neighbours.
LEMMA Joined ==
    ASSUME NEW N \in Nat, N < MaxNodes, NEW r \in 1..(N + 1), NEW S2, S2 = 1..(N + 1) \ {r}, NEW d \in Child,
           NEW p, (p = Null /\ S2 = {}) \/ (p \in S2 /\ NextIs(r, p, d))
    PROVE  Between(S2, Without(NextTo, r), r, p, d, NextTo)
<1> PICK b2 : b2 = Without(NextTo, r)
  OBVIOUS
<1>1. /\ \A n : n \in S2 <=> n \in Int /\ 1 <= n /\ n <= N + 1 /\ n # r
      /\ r \in Int /\ 1 <= r /\ r <= N + 1 /\ r \in Nodes
      /\ S2 \subseteq Nodes
  BY NodesAssumption DEF Nodes
<1>2. /\ \A n \in Nodes : b2[n][0] = IF n - 1 = r THEN r - 1 ELSE n - 1
      /\ \A n \in Nodes : b2[n][1] = IF n + 1 = r THEN r + 1 ELSE n + 1
      /\ \A n \in Nodes : NextTo[n][0] = n - 1 /\ NextTo[n][1] = n + 1
  BY <1>1, WithoutIs, NextToIs DEF Child
<1>3. Near(S2 \cup {r}, NextTo)
  <2>1. S2 \cup {r} = 1..(N + 1) /\ N + 1 \in Nat /\ N + 1 <= MaxNodes
    BY NodesAssumption
  <2> QED BY <2>1, NearAll
<1>4. CASE p = Null /\ S2 = {}
  BY <1>3, <1>4 DEF Between
<1>5. CASE p \in S2 /\ NextIs(r, p, d)
  <2>1. p \in Nodes /\ p \in Int /\ p # r /\ p # Null
    BY <1>1, <1>5, Sides
  <2>2. CASE d = 0
    <3>1. r = p - 1
      BY <1>5, <2>2 DEF NextIs
    <3>2. ASSUME NEW n \in S2
          PROVE  /\ b2[n][0] # r /\ b2[n][1] # r
                 /\ NextTo[n][0] = IF n = p THEN r ELSE b2[n][0]
                 /\ NextTo[n][1] = IF b2[n][1] = p THEN r ELSE b2[n][1]
      <4>1. n \in Int /\ n # r /\ b2[n][0] = (IF n - 1 = r THEN r - 1 ELSE n - 1)
            /\ b2[n][1] = (IF n + 1 = r THEN r + 1 ELSE n + 1) /\ NextTo[n][0] = n - 1 /\ NextTo[n][1] = n + 1
        BY <1>1, <1>2
      <4> QED BY <1>1, <2>1, <3>1, <4>1
    <3>3. NextTo[r][0] = b2[p][0] /\ NextTo[r][1] = p
      BY <1>1, <1>2, <2>1, <3>1
    <3> QED BY <1>3, <2>2, <3>2, <3>3 DEF Between, Child
  <2>3. CASE d = 1
    <3>1. r = p + 1
      BY <1>5, <2>3 DEF NextIs
    <3>2. ASSUME NEW n \in S2
          PROVE  /\ b2[n][0] # r /\ b2[n][1] # r
                 /\ NextTo[n][1] = IF n = p THEN r ELSE b2[n][1]
                 /\ NextTo[n][0] = IF b2[n][0] = p THEN r ELSE b2[n][0]
      <4>1. n \in Int /\ n # r /\ b2[n][0] = (IF n - 1 = r THEN r - 1 ELSE n - 1)
            /\ b2[n][1] = (IF n + 1 = r THEN r + 1 ELSE n + 1) /\ NextTo[n][0] = n - 1 /\ NextTo[n][1] = n + 1
        BY <1>1, <1>2
      <4> QED BY <1>1, <2>1, <3>1, <4>1
    <3>3. NextTo[r][1] = b2[p][1] /\ NextTo[r][0] = p
      BY <1>1, <1>2, <2>1, <3>1
    <3> QED BY <1>3, <2>3, <3>2, <3>3 DEF Between, Child
  <2> QED BY <2>2, <2>3 DEF Child
<1> QED BY <1>4, <1>5

\* A new leaf has the height 1, and what is above has grown by that.
LEMMA LeafLevel ==
    ASSUME NEW t, NEW S, NEW b, NEW e, Shape(t, S, b, e), NEW h, NEW q, Level(t, S, h, q), q.at = Null,
           NEW r, NEW p, NEW d, Entering(t, S, r, p, d), t.balance[r] = 0, NEW u, Hung(t, p, d, r, u)
    PROVE  \E h2 : Level(u, S \cup {r}, h2, Waits(p, d, 1)) /\ h2[r] = 1
<1>1. /\ r \in Nodes /\ r \notin S /\ t.child[r][0] = Null /\ t.child[r][1] = Null
      /\ d \in Child /\ (p = Null => S = {}) /\ (p # Null => p \in S /\ t.child[p][d] = Null)
  BY DEF Entering
<1>2. Null \notin S /\ S \subseteq Nodes /\ r # Null /\ p # r
  BY <1>1, Sides DEF Shape
<1>3. PICK h2 : h2 = [x \in Nodes |-> IF x = r THEN 1 ELSE h[x]]
  OBVIOUS
<1>4. h2[r] = 1 /\ \A x \in S : h2[x] = h[x]
  BY <1>1, <1>2, <1>3
<1> PICK z : z = Waits(p, d, 1)
  OBVIOUS
<1>5. z.at = p /\ z.side = d /\ z.by = 1
  BY DEF Waits
<1>6. /\ \A n \in Nodes, f \in Child : u.child[n][f] = IF n = p /\ f = d THEN r ELSE t.child[n][f]
      /\ \A n \in Nodes : u.balance[n] = t.balance[n]
  BY DEF Hung
<1>7. ASSUME NEW n \in S, NEW f \in Child
      PROVE  Side(u, h2, z, n, f) = High(t, h, n, f) /\ High(t, h, n, f) \in Nat
  <2>0. High(t, h, n, f) \in Nat
    BY HighNat
  <2>1. CASE n = p /\ f = d
    <3>1. t.child[p][d] = Null
      BY <1>1, <1>2, <2>1
    <3>2. u.child[n][f] = r
      BY <1>2, <1>6, <2>1
    <3>3. High(t, h, n, f) = 0
      BY <2>1, <3>1 DEF High
    <3>4. High(u, h2, n, f) = 1
      BY <1>2, <1>4, <3>2 DEF High
    <3> QED BY <1>5, <2>0, <2>1, <3>3, <3>4 DEF Side, Due
  <2>2. CASE ~(n = p /\ f = d)
    <3>1. u.child[n][f] = t.child[n][f]
      BY <1>2, <1>6, <2>2
    <3>2. t.child[n][f] = Null \/ t.child[n][f] \in S
      BY Below
    <3>3. High(u, h2, n, f) = High(t, h, n, f)
      BY <1>4, <3>1, <3>2 DEF High
    <3>4. Due(z, n, f) = 0
      BY <1>5, <2>2 DEF Due
    <3> QED BY <2>0, <3>3, <3>4 DEF Side
  <2> QED BY <2>1, <2>2
<1>8. ASSUME NEW n \in S, NEW f \in Child
      PROVE  LevelAt(u, h2, z, n, f)
  <2>1. 1 - f \in Child /\ n # q.at
    BY <1>2, Sides
  <2>2. Poised(f, High(t, h, n, f), High(t, h, n, 1 - f), t.balance[n], h[n])
    BY <2>1, NothingDue
  <2>3. Side(u, h2, z, n, f) = High(t, h, n, f) /\ Side(u, h2, z, n, 1 - f) = High(t, h, n, 1 - f)
    BY <1>7, <2>1
  <2>4. u.balance[n] = t.balance[n] /\ h2[n] = h[n]
    BY <1>2, <1>4, <1>6
  <2> QED BY <2>2, <2>3, <2>4 DEF LevelAt
<1>9. ASSUME NEW f \in Child
      PROVE  LevelAt(u, h2, z, r, f)
  <2>1. \A k \in Child : Side(u, h2, z, r, k) = 0
    <3> TAKE k \in Child
    <3>1. u.child[r][k] = Null
      BY <1>1, <1>2, <1>6 DEF Child
    <3>2. High(u, h2, r, k) = 0 /\ Due(z, r, k) = 0
      BY <1>2, <1>5, <3>1 DEF High, Due
    <3> QED BY <3>2 DEF Side
  <2>2. 1 - f \in Child
    BY Sides
  <2>3. u.balance[r] = 0
    BY <1>1, <1>6
  <2>4. Poised(f, 0, 0, 0, 1)
    BY DEF Poised, Higher, Child
  <2> QED BY <1>4, <2>1, <2>2, <2>3, <2>4 DEF LevelAt
<1>10. Level(u, S \cup {r}, h2, z)
  BY <1>8, <1>9 DEF Level
<1> QED BY <1>4, <1>10

-----------------------------------------------------------------------------
(* Linking a new node.                                                      *)

\* Node r is to come to side d of at, where nothing is.
Place(t, N, r, at, d) ==
    /\ d \in Child
    /\ \/ at = Null /\ N = 0 /\ r = 1
       \/ at \in 1..N /\ t.child[at][d] = Null /\ r = at + d

\* The tree with the new node r.
Linked(t, N, r, at, d, u, p) ==
    \E name : /\ name = [n \in 1..N |-> IF n < r THEN n ELSE n + 1]
              /\ p = NewName(name, at)
              /\ u = Hang(Renamed(t, name), p, d, r)

\* u has N + 1 nodes in order, but for what is higher at side d of p.
Inserted(u, N, p, d) ==
    \E h2 : /\ Formed(u, 1..(N + 1), NextTo, h2, Waits(p, d, 1))
            /\ p \in 0..(N + 1)
            /\ p # Null => h2[u.child[p][d]] = 1

\* The new node is in order.
LEMMA LinkForms ==
    ASSUME NEW t, NEW N \in Nat, N < MaxNodes, NEW h, NEW q, Formed(t, 1..N, NextTo, h, q), q.at = Null,
           NEW r, NEW at, NEW d, Place(t, N, r, at, d), NEW u, NEW p, Linked(t, N, r, at, d, u, p)
    PROVE  Inserted(u, N, p, d)
<1>1. PICK S : S = 1..N
  OBVIOUS
<1>2. t \in Trees /\ Sound(t, S, NextTo, h, q) /\ Closed(t, S)
  BY <1>1, ShapeClosed DEF Formed, Sound
<1>3. PICK name : /\ name = [n \in 1..N |-> IF n < r THEN n ELSE n + 1]
                  /\ p = NewName(name, at) /\ u = Hang(Renamed(t, name), p, d, r)
  BY DEF Linked
<1>4. r \in 1..(N + 1) /\ d \in Child /\ N + 1 \in Nat /\ N + 1 <= MaxNodes
  BY NodesAssumption DEF Place, Child
<1>5. PICK S2, b2 : S2 = 1..(N + 1) \ {r} /\ b2 = Without(NextTo, r)
  OBVIOUS
<1>6. name \in [S -> Nodes] /\ Injective(S, name) /\ InOrder(S, NextTo, name, S2, b2)
  BY <1>1, <1>3, <1>4, <1>5, GapNames
<1>7. PICK t2 : t2 = Renamed(t, name)
  OBVIOUS
<1>8. Relabelled(t, S, name, t2) /\ Blanks(t2, S2)
  <2>1. S \subseteq Nodes
    BY <1>2 DEF Sound, Shape
  <2>2. S2 = {name[n] : n \in S}
    BY <1>6 DEF InOrder
  <2> QED BY <1>2, <1>6, <1>7, <2>1, <2>2, RenamedRelabels
<1>9. PICK q2 : DueMoved(name, q, q2)
  BY DEF DueMoved
<1>10. q2.at = Null
  BY <1>9 DEF DueMoved, Waits, NewName
<1>11. PICK h2 : Sound(t2, S2, b2, h2, q2)
  <2>1. q.at \in S \cup {Null}
    OBVIOUS
  <2> QED BY <1>2, <1>6, <1>8, <1>9, <2>1, RelabelSound
<1>12. PICK e2 : t2 \in Trees /\ Shape(t2, S2, b2, e2) /\ Level(t2, S2, h2, q2)
  BY <1>11 DEF Sound
<1>13. r \in Nodes /\ r \notin S2 /\ S2 \cup {r} = 1..(N + 1) /\ S2 \subseteq Nodes
  <2>1. 1..(N + 1) \subseteq Nodes
    BY <1>4, NodesAssumption DEF Nodes
  <2> QED BY <1>4, <1>5, <2>1
<1>14. /\ (p = Null /\ S2 = {}) \/ (p \in S2 /\ NextIs(r, p, d))
       /\ p = Null => S2 = {}
       /\ p # Null => p \in S2 /\ t2.child[p][d] = Null
       /\ p \in MaybeNode /\ p \in 0..(N + 1)
  <2>1. CASE at = Null /\ N = 0 /\ r = 1
    <3>1. p = Null /\ S2 = {}
      BY <1>3, <1>5, <2>1 DEF NewName
    <3> QED BY <1>4, <3>1 DEF MaybeNode, Null
  <2>2. CASE at \in 1..N /\ t.child[at][d] = Null /\ r = at + d
    <3>1. at # Null
      BY <2>2 DEF Null
    <3>2. p = IF at < r THEN at ELSE at + 1
      BY <1>3, <2>2, <3>1 DEF NewName
    <3>3. p = name[at] /\ at \in S
      BY <1>1, <1>3, <2>2, <3>1 DEF NewName
    <3>4. p \in S2 /\ t2.child[p][d] = Null
      <4>1. p \in S2
        BY <1>6, <3>3 DEF InOrder
      <4> QED BY <1>4, <1>8, <2>2, <3>3, <4>1 DEF Relabelled, NewName
    <3>5. NextIs(r, p, d)
      BY <1>4, <2>2, <3>2 DEF NextIs, Child
    <3>6. p # Null /\ p \in MaybeNode /\ p \in 0..(N + 1)
      BY <1>5, <1>13, <3>4, Sides DEF MaybeNode
    <3> QED BY <3>4, <3>5, <3>6
  <2> QED BY <2>1, <2>2 DEF Place
<1>15. Entering(t2, S2, r, p, d)
  BY <1>4, <1>8, <1>13, <1>14 DEF Entering, Blanks, Child
<1>16. Hung(t2, p, d, r, u)
  <2>1. u = Hang(t2, p, d, r) /\ r \in MaybeNode
    BY <1>3, <1>7, <1>13 DEF MaybeNode
  <2> QED BY <1>4, <1>12, <1>14, <2>1, HangHangs
<1>17. Between(S2, b2, r, p, d, NextTo)
  BY <1>4, <1>5, <1>14, Joined
<1>18. PICK e3 : Reaching(S2, e2, r, p, d, e3)
  <2>1. PICK e3 : e3 = [n \in Nodes |-> [f \in Child |->
                           IF n = r THEN r ELSE IF f = d /\ e2[n][f] = p THEN r ELSE e2[n][f]]]
    OBVIOUS
  <2>2. Reaching(S2, e2, r, p, d, e3)
    BY <1>13, <2>1 DEF Reaching
  <2> QED BY <2>2
<1>19. Shape(u, S2 \cup {r}, NextTo, e3)
  BY <1>12, <1>15, <1>16, <1>17, <1>18, LeafShape
<1>20. PICK h3 : Level(u, S2 \cup {r}, h3, Waits(p, d, 1)) /\ h3[r] = 1
  <2>1. t2.balance[r] = 0
    BY <1>8, <1>13 DEF Blanks
  <2> QED BY <1>10, <1>12, <1>15, <1>16, <2>1, LeafLevel, SMTT(20)
<1>21. Clear(u, 1..(N + 1))
  <2>1. ASSUME NEW x \in Nodes, x \notin 1..(N + 1)
        PROVE  u.parent[x] = Null /\ \A f \in Child : u.child[x][f] = Null
    <3>1. x \notin S2 /\ x # r /\ x # p
      BY <1>13, <1>14, <2>1, Sides
    <3>2. u.parent[x] = t2.parent[x] /\ \A f \in Child : u.child[x][f] = t2.child[x][f]
      BY <1>16, <3>1 DEF Hung
    <3> QED BY <1>8, <3>1, <3>2 DEF Blanks
  <2> QED BY <2>1 DEF Clear
<1>22. u \in Trees
  BY <1>16 DEF Hung
<1>23. Formed(u, 1..(N + 1), NextTo, h3, Waits(p, d, 1))
  BY <1>13, <1>19, <1>20, <1>21, <1>22 DEF Formed
<1>24. p # Null => h3[u.child[p][d]] = 1
  <2>1. p # Null => u.child[p][d] = r
    BY <1>4, <1>13, <1>14, <1>16 DEF Hung
  <2> QED BY <1>20, <2>1
<1> QED BY <1>14, <1>23, <1>24 DEF Inserted

\* avl_insert up to its loop.
LEMMA LinkKeeps ==
    ASSUME AvlInv, op.pc \in {"idle", "add"}, NEW r, NEW at, NEW d,
           Place(tree, numnodes, r, at, d), Link(r, at, d)
    PROVE  AvlInv'
<1>1. numnodes \in Nat /\ Doing(op, numnodes) /\ \E h : Formed(tree, 1..numnodes, NextTo, h, Owed(op))
  BY DEF AvlInv, Standing
<1> PICK N, t, u : N = numnodes /\ t = tree /\ u = tree'
  OBVIOUS
<1> DEFINE nm == [n \in 1..numnodes |-> IF n < r THEN n ELSE n + 1]
           pp == IF at = Null THEN Null ELSE nm[at]
<1>2. /\ numnodes < MaxNodes /\ tree' = Hang(Renamed(tree, nm), pp, d, r)
      /\ numnodes' = numnodes + 1 /\ op' = [pc |-> "insert", at |-> pp, side |-> d, again |-> 0]
  BY Zenon DEF Link
<1>k. nm = [n \in 1..numnodes |-> IF n < r THEN n ELSE n + 1]
  OBVIOUS
<1>m. (at = Null => pp = Null) /\ (at # Null => pp = nm[at])
  OBVIOUS
<1> HIDE DEF nm, pp
<1>n. PICK name, p : name = nm /\ p = pp
  OBVIOUS
<1>3. /\ name = [n \in 1..numnodes |-> IF n < r THEN n ELSE n + 1]
      /\ p = IF at = Null THEN Null ELSE name[at]
      /\ numnodes < MaxNodes /\ tree' = Hang(Renamed(tree, name), p, d, r)
      /\ numnodes' = numnodes + 1 /\ op' = [pc |-> "insert", at |-> p, side |-> d, again |-> 0]
  <2>1. name = [n \in 1..numnodes |-> IF n < r THEN n ELSE n + 1]
    BY <1>k, <1>n
  <2>2. p = IF at = Null THEN Null ELSE name[at]
    BY <1>m, <1>n
  <2>3. numnodes < MaxNodes /\ numnodes' = numnodes + 1
    BY <1>2
  <2>4. tree' = Hang(Renamed(tree, name), p, d, r)
    BY <1>2, <1>n
  <2>5. op' = [pc |-> "insert", at |-> p, side |-> d, again |-> 0]
    BY <1>2, <1>n
  <2> QED BY <2>1, <2>2, <2>3, <2>4, <2>5
<1>4. Linked(t, N, r, at, d, u, p)
  <2>1. p = NewName(name, at)
    BY <1>3, Zenon DEF NewName
  <2>2. u = Hang(Renamed(t, name), p, d, r) /\ name = [n \in 1..N |-> IF n < r THEN n ELSE n + 1]
    BY <1>3
  <2> QED BY <2>1, <2>2, Zenon DEF Linked
<1>5. PICK h, q : Formed(t, 1..N, NextTo, h, q) /\ q.at = Null
  <2>1. Owed(op).at = Null
    BY <1>1 DEF Owed, Waits, Doing
  <2> QED BY <1>1, <2>1
<1>6. PICK h2 : /\ Formed(u, 1..(N + 1), NextTo, h2, Waits(p, d, 1))
                /\ p \in 0..(N + 1)
                /\ p # Null => h2[u.child[p][d]] = 1
  <2>1. N \in Nat /\ N < MaxNodes /\ Place(t, N, r, at, d)
    BY <1>1, <1>3
  <2>2. Inserted(u, N, p, d)
    BY <1>4, <1>5, <2>1, LinkForms
  <2> QED BY <2>2 DEF Inserted
<1> PICK o : o = op'
  OBVIOUS
<1>7. o.pc = "insert" /\ o.at = p /\ o.side = d /\ o.again = 0 /\ Fields(o)
  BY <1>3 DEF Fields
<1>8. Doing(o, N + 1)
  BY <1>1, <1>6, <1>7 DEF Doing, Place
<1>9. Owed(o) = Waits(p, d, 1)
  BY <1>7 DEF Owed, Change
<1>10. Uneven(u, h2, o)
  BY <1>6, <1>7 DEF Uneven
<1>11. N + 1 \in Nat /\ N + 1 <= MaxNodes
  BY <1>1, <1>3, NodesAssumption
<1>12. Standing(u, N + 1, o)
  BY <1>6, <1>8, <1>9, <1>10, <1>11 DEF Standing
<1>13. Standing(tree', numnodes', op') /\ Fields(op')
  BY <1>3, <1>7, <1>12
<1> QED BY <1>13 DEF AvlInv

-----------------------------------------------------------------------------
(* What the walks find.                                                     *)

\* The turn of the recursion of Extreme.
FarTurn(t, d, f) == [m \in Nodes |-> IF t.child[m][d] = Null THEN m ELSE f[t.child[m][d]]]

\* Extreme finds the last node on a side.
LEMMA ExtremeIs ==
    ASSUME NEW t, NEW S, NEW b, NEW e, Shape(t, S, b, e), Bare(t, S), NEW d \in Child, NEW n \in S
    PROVE  Extreme(t, n, d) = e[n][d]
<1>0. Null \notin S /\ S \subseteq Nodes
  BY Sides DEF Shape
<1>1. \E f : f = FarTurn(t, d, f)
  <2>1. PICK w : w = [m \in Nodes |-> IF m \in S THEN e[m][d] ELSE m]
    OBVIOUS
  <2>2. ASSUME NEW m \in Nodes
        PROVE  w[m] = IF t.child[m][d] = Null THEN m ELSE w[t.child[m][d]]
    <3>1. CASE m \notin S
      BY <2>1, <3>1 DEF Bare
    <3>2. CASE m \in S /\ t.child[m][d] = Null
      <4>1. e[m][d] = m
        BY <3>2, NoneBelow
      <4> QED BY <2>1, <3>2, <4>1
    <3>3. CASE m \in S /\ t.child[m][d] # Null
      <4>1. t.child[m][d] \in S /\ e[t.child[m][d]][d] = e[m][d]
        BY <3>3, Below
      <4> QED BY <1>0, <2>1, <3>3, <4>1
    <3> QED BY <3>1, <3>2, <3>3
  <2>3. w = FarTurn(t, d, w)
    BY <2>1, <2>2 DEF FarTurn
  <2> QED BY <2>3
<1> DEFINE far == CHOOSE f : f = FarTurn(t, d, f)
<1>2. far = FarTurn(t, d, far)
  BY <1>1, Zenon
<1>3. n # Null
  BY <1>0
<1>4. Extreme(t, n, d) = far[n]
  BY <1>3, Zenon DEF Extreme, FarTurn
<1> HIDE DEF far
<1>5. \A m \in S : far[m] = IF t.child[m][d] = Null THEN m ELSE far[t.child[m][d]]
  BY <1>0, <1>2 DEF FarTurn
<1>6. \A m \in S : far[m] = e[m][d]
  <2> DEFINE Bad == {m \in S : far[m] # e[m][d]}
  <2> SUFFICES ASSUME Bad # {}
               PROVE  FALSE
    OBVIOUS
  <2>1. Bad \in SUBSET S
    OBVIOUS
  <2>2. PICK m \in Bad : \A k \in Child : t.child[m][k] \notin Bad
    <3> HIDE DEF Bad
    <3> QED BY <2>1, Lowest
  <2>3. CASE t.child[m][d] = Null
    <3>1. e[m][d] = m
      BY <2>3, NoneBelow
    <3> QED BY <1>5, <2>3, <3>1
  <2>4. CASE t.child[m][d] # Null
    <3>1. t.child[m][d] \in S /\ e[t.child[m][d]][d] = e[m][d]
      BY <2>4, Below
    <3> QED BY <1>5, <2>2, <2>4, <3>1
  <2> QED BY <2>3, <2>4
<1> QED BY <1>4, <1>6

\* Find at node n: f is what it says below.
Toward(v, n) == IF v > Key(n) THEN 1 ELSE 0
\* One turn of the search, and the function it defines.
FindAt(t, v, f, n) ==
    IF v = Key(n) THEN [node |-> n, at |-> Null, side |-> 0]
    ELSE IF t.child[n][Toward(v, n)] = Null THEN [node |-> Null, at |-> n, side |-> Toward(v, n)]
    ELSE f[t.child[n][Toward(v, n)]]

SearchTurn(t, v, f) == [n \in Nodes |-> FindAt(t, v, f, n)]

\* Find is a search from the root.
LEMMA FindIs ==
    ASSUME NEW t, NEW v, t.root # Null
    PROVE  Find(t, v) = (CHOOSE f : f = SearchTurn(t, v, f))[t.root]
BY Zenon DEF Find, SearchTurn, FindAt, Toward

\* a is what the search finds below the nodes of S.
Finds(t, S, v, a) == \A n \in S : a[n] = FindAt(t, v, a, n)

\* There is no other answer.
LEMMA SearchIs ==
    ASSUME NEW t, NEW S, NEW b, NEW e, Shape(t, S, b, e), Clear(t, S), NEW v, NEW a, Finds(t, S, v, a), t.root # Null
    PROVE  Find(t, v) = a[t.root]
<1>0. Null \notin S /\ S \subseteq Nodes /\ t.root \in S
  BY Sides DEF Shape, Top
<1>t. \A n : Toward(v, n) \in Child
  BY DEF Toward, Child
<1>1. \E f : f = SearchTurn(t, v, f)
  <2>1. PICK w : w = [m \in Nodes |-> IF m \in S THEN a[m] ELSE FindAt(t, v, a, m)]
    OBVIOUS
  <2>2. ASSUME NEW m \in Nodes
        PROVE  w[m] = FindAt(t, v, w, m)
    <3> PICK c : c = t.child[m][Toward(v, m)]
      OBVIOUS
    <3>1. c = Null \/ (m \in S /\ c \in S)
      <4>1. CASE m \in S
        BY <1>t, <4>1, Below
      <4>2. CASE m \notin S
        BY <1>t, <4>2 DEF Clear
      <4> QED BY <4>1, <4>2
    <3>2. CASE m \in S
      <4>1. a[m] = FindAt(t, v, a, m) /\ w[m] = a[m]
        BY <2>1, <3>2 DEF Finds
      <4>2. c # Null => w[c] = a[c]
        BY <1>0, <2>1, <3>1
      <4>3. FindAt(t, v, a, m) = FindAt(t, v, w, m)
        BY <4>2 DEF FindAt
      <4> QED BY <4>1, <4>3
    <3>3. CASE m \notin S
      <4>1. c = Null /\ w[m] = FindAt(t, v, a, m)
        BY <2>1, <3>1, <3>3
      <4>2. FindAt(t, v, a, m) = FindAt(t, v, w, m)
        BY <4>1 DEF FindAt
      <4> QED BY <4>1, <4>2
    <3> QED BY <3>2, <3>3
  <2>3. w = SearchTurn(t, v, w)
    BY <2>1, <2>2 DEF SearchTurn
  <2> QED BY <2>3
<1> DEFINE search == CHOOSE f : f = SearchTurn(t, v, f)
<1>2. search = SearchTurn(t, v, search)
  BY <1>1, Zenon
<1>3. Find(t, v) = search[t.root]
  BY FindIs
<1> HIDE DEF search
<1>4. \A m \in S : search[m] = FindAt(t, v, search, m)
  BY <1>0, <1>2 DEF SearchTurn
<1>5. \A m \in S : search[m] = a[m]
  <2> DEFINE Bad == {m \in S : search[m] # a[m]}
  <2> SUFFICES ASSUME Bad # {}
               PROVE  FALSE
    OBVIOUS
  <2>1. Bad \in SUBSET S
    OBVIOUS
  <2>2. PICK m \in Bad : \A k \in Child : t.child[m][k] \notin Bad
    <3> HIDE DEF Bad
    <3> QED BY <2>1, Lowest
  <2> PICK c : c = t.child[m][Toward(v, m)]
    OBVIOUS
  <2>3. c # Null => search[c] = a[c]
    <3>1. c # Null => c \in S
      BY <1>t, Below
    <3>2. c \notin Bad
      BY <1>t, <2>2
    <3> QED BY <3>1, <3>2
  <2>4. FindAt(t, v, a, m) = FindAt(t, v, search, m)
    BY <2>3 DEF FindAt
  <2>5. m \in S /\ search[m] # a[m]
    OBVIOUS
  <2> QED BY <1>4, <2>4, <2>5 DEF Finds
<1> QED BY <1>0, <1>3, <1>5

\* Where a key that is missing belongs: k is the node behind it.
MissAt(t, e, n, k) ==
    IF k <= e[n][0] THEN [node |-> Null, at |-> e[n][0], side |-> 0]
    ELSE IF k > e[n][1] THEN [node |-> Null, at |-> e[n][1], side |-> 1]
    ELSE IF t.child[k - 1][1] = Null THEN [node |-> Null, at |-> k - 1, side |-> 1]
    ELSE [node |-> Null, at |-> k, side |-> 0]

\* The search finds that place.
LEMMA MissFinds ==
    ASSUME NEW N \in Nat, NEW t, NEW e, Shape(t, 1..N, NextTo, e), NEW k \in 1..(N + 1),
           NEW a, a = [n \in 1..N |-> MissAt(t, e, n, k)]
    PROVE  Finds(t, 1..N, Key(k) - 1, a)
<1>0. PICK S, v : S = 1..N /\ v = Key(k) - 1
  OBVIOUS
<1>s. Shape(t, S, NextTo, e)
  BY <1>0
<1>1. /\ \A n : n \in S => n \in Int /\ 1 <= n /\ n <= N
      /\ k \in Int /\ 1 <= k /\ k <= N + 1 /\ S \subseteq Nodes /\ Null \notin S
  BY <1>0, Sides DEF Shape
<1>3. \A n \in S : a[n] = MissAt(t, e, n, k)
  BY <1>0
<1>2. ASSUME NEW n \in S
      PROVE  MissAt(t, e, n, k) = FindAt(t, v, a, n)
  <2> PICK l, r : l = e[n][0] /\ r = e[n][1]
    OBVIOUS
  <2>1. l \in S /\ r \in S /\ l <= n /\ n <= r /\ n \in Int /\ l \in Int /\ r \in Int
    BY <1>1, <1>s, Spans DEF Shape, Ends, Child
  <2>2. v # Key(n) /\ Toward(v, n) = IF k > n THEN 1 ELSE 0
    BY <1>0, <1>1, <2>1 DEF Key, Toward
  <2>d. PICK d : d = Toward(v, n)
    OBVIOUS
  <2>c. PICK c : c = t.child[n][d]
    OBVIOUS
  <2>3. d = (IF k > n THEN 1 ELSE 0)
    BY <2>2, <2>d
  <2>e. d \in Child
    BY <2>3 DEF Child
  <2>4. CASE c = Null
    <3>1. FindAt(t, v, a, n) = [node |-> Null, at |-> n, side |-> d]
      BY <2>2, <2>4, <2>d, <2>c DEF FindAt
    <3>2. e[n][d] = n
      <4>1. t.child[n][d] = Null
        BY <2>c, <2>4
      <4> QED BY <1>s, <2>e, <4>1, NoneBelow
    <3>3. CASE k > n
      <4>1. r = n /\ d = 1
        BY <2>3, <3>2, <3>3
      <4> QED BY <1>1, <2>1, <3>1, <3>3, <4>1 DEF MissAt
    <3>4. CASE ~(k > n)
      <4>1. l = n /\ d = 0 /\ k <= l
        BY <1>1, <2>1, <2>3, <3>2, <3>4
      <4> QED BY <3>1, <4>1 DEF MissAt
    <3> QED BY <3>3, <3>4
  <2>5. CASE c # Null
    <3> PICK b : b = NextTo
      OBVIOUS
    <3>0. Shape(t, S, b, e)
      BY <1>s
    <3>1. c \in S /\ e[c][d] = e[n][d] /\ e[c][1 - d] = b[n][d] /\ e[c][0] \in Int /\ e[c][1] \in Int
          /\ e[c][0] <= e[c][1]
      <4>1. c \in S /\ e[c][d] = e[n][d] /\ e[c][1 - d] = b[n][d]
        BY <2>e, <2>c, <2>5, <3>0, Below
      <4>2. e[c][0] \in Int /\ e[c][1] \in Int /\ e[c][0] <= c /\ c <= e[c][1] /\ c \in Int
        BY <1>1, <3>0, <4>1, Spans DEF Shape
      <4> QED BY <4>1, <4>2
    <3>2. FindAt(t, v, a, n) = MissAt(t, e, c, k)
      BY <1>3, <2>2, <2>5, <2>d, <2>c, <3>1 DEF FindAt
    <3>3. CASE k > n
      <4>1. d = 1 /\ e[c][1] = r /\ e[c][0] = n + 1
        BY <1>1, <2>3, <3>1, <3>3, NextToIs DEF Child
      <4>2. CASE k > r
        <5>1. ~(k <= l) /\ ~(k <= n + 1)
          BY <1>1, <2>1, <3>1, <4>1, <4>2
        <5> QED BY <3>2, <4>1, <4>2, <5>1 DEF MissAt
      <4>3. CASE ~(k > r) /\ k > n + 1
        BY <1>1, <2>1, <3>2, <4>1, <4>3 DEF MissAt
      <4>4. CASE ~(k > r) /\ k = n + 1
        <5>1. k - 1 = n /\ t.child[n][1] # Null
          BY <1>1, <2>1, <2>5, <2>c, <4>1, <4>4
        <5> QED BY <1>1, <2>1, <3>2, <4>1, <4>4, <5>1 DEF MissAt
      <4> QED BY <1>1, <2>1, <3>3, <4>2, <4>3, <4>4
    <3>4. CASE ~(k > n)
      <4>1. d = 0 /\ e[c][0] = l /\ e[c][1] = n - 1
        BY <1>1, <2>3, <3>1, <3>4, NextToIs DEF Child
      <4>2. CASE k <= l
        BY <3>2, <4>1, <4>2 DEF MissAt
      <4>3. CASE ~(k <= l) /\ k <= n - 1
        BY <1>1, <2>1, <3>2, <4>1, <4>3 DEF MissAt
      <4>4. CASE ~(k <= l) /\ k = n
        <5>1. t.child[k - 1][1] = Null
          <6>1. e[c][1] \in S /\ t.child[e[c][1]][1] = Null
            BY <3>0, <3>1, Spine DEF Child
          <6> QED BY <4>1, <4>4, <6>1
        <5> QED BY <1>1, <2>1, <3>2, <4>1, <4>4, <5>1 DEF MissAt
      <4> QED BY <1>1, <2>1, <3>4, <4>2, <4>3, <4>4
    <3> QED BY <3>3, <3>4
  <2> QED BY <2>4, <2>5
<1>4. Finds(t, S, v, a)
  BY <1>2, <1>3 DEF Finds
<1> QED BY <1>0, <1>4

\* Below the root are all nodes.
LEMMA RootSpan ==
    ASSUME NEW N \in Nat, NEW t, NEW e, Shape(t, 1..N, NextTo, e)
    PROVE  \/ N = 0 /\ t.root = Null
           \/ N > 0 /\ t.root # Null /\ t.root \in 1..N /\ e[t.root][0] = 1 /\ e[t.root][1] = N
<1>0. PICK S, b, r : S = 1..N /\ b = NextTo /\ r = t.root
  OBVIOUS
<1>1. Shape(t, S, b, e) /\ Null \notin S /\ S \subseteq Nodes
  BY <1>0, Sides DEF Shape
<1>2. CASE r = Null /\ S = {}
  <2>1. ~(1 <= N)
    <3>1. 1 <= N => 1 \in S
      BY <1>0
    <3> QED BY <1>2, <3>1
  <2> QED BY <1>0, <1>2, <2>1
<1>3. CASE r \in S /\ \A d \in Child : b[e[r][d]][d] \notin S
  <2>1. e[r][0] \in S /\ e[r][1] \in S /\ b[e[r][0]][0] \notin S /\ b[e[r][1]][1] \notin S
    BY <1>1, <1>3 DEF Shape, Ends, Child
  <2>2. b[e[r][0]][0] = e[r][0] - 1 /\ b[e[r][1]][1] = e[r][1] + 1
    <3>1. \A x \in S : b[x][0] = x - 1 /\ b[x][1] = x + 1
      BY <1>0, <1>1, NextToIs DEF Child
    <3> QED BY <2>1, <3>1
  <2>3. e[r][0] = 1 /\ e[r][1] = N /\ N > 0
    BY <1>0, <2>1, <2>2
  <2> QED BY <1>0, <1>1, <1>3, <2>3
<1> QED BY <1>0, <1>1, <1>2, <1>3 DEF Shape, Top

\* The place at which Find does not find key 2k - 1 is the place of a new node k.
LEMMA FindPlace ==
    ASSUME NEW N \in Nat, NEW t, NEW h, NEW q, Formed(t, 1..N, NextTo, h, q), NEW k \in 1..(N + 1),
           NEW where, where = Find(t, Key(k) - 1)
    PROVE  Place(t, N, k, where.at, where.side) /\ where.node = Null
<1>1. PICK e : Shape(t, 1..N, NextTo, e) /\ Clear(t, 1..N)
  BY DEF Formed
<1>2. CASE N = 0 /\ t.root = Null
  <2>1. where = [node |-> Null, at |-> Null, side |-> 0]
    BY <1>2, Zenon DEF Find
  <2>2. k = 1
    BY <1>2
  <2> QED BY <1>2, <2>1, <2>2 DEF Place, Child
<1>3. CASE N > 0 /\ t.root # Null /\ t.root \in 1..N /\ e[t.root][0] = 1 /\ e[t.root][1] = N
  <2> PICK S, b, v, r : S = 1..N /\ b = NextTo /\ v = Key(k) - 1 /\ r = t.root
    OBVIOUS
  <2>0. Shape(t, S, b, e) /\ Clear(t, S) /\ k \in Int /\ 1 <= k /\ k <= N + 1 /\ r \in S /\ r # Null
    BY <1>1, <1>3
  <2>1. PICK a : a = [n \in 1..N |-> MissAt(t, e, n, k)]
    OBVIOUS
  <2>2. Finds(t, S, v, a)
    BY <1>1, <2>1, MissFinds
  <2>3. Find(t, v) = a[t.root]
    BY <2>0, <2>2, SearchIs
  <2>4. where = MissAt(t, e, r, k) /\ e[r][0] = 1 /\ e[r][1] = N
    BY <1>3, <2>1, <2>3
  <2>5. CASE k = 1
    <3>1. where = [node |-> Null, at |-> 1, side |-> 0]
      BY <2>4, <2>5 DEF MissAt
    <3>2. t.child[1][0] = Null
      <4>1. t.child[e[r][0]][0] = Null
        BY <2>0, Spine DEF Child
      <4> QED BY <2>4, <4>1
    <3> QED BY <1>3, <2>5, <3>1, <3>2 DEF Place, Child
  <2>6. CASE k = N + 1
    <3>1. where = [node |-> Null, at |-> N, side |-> 1]
      BY <1>3, <2>4, <2>6 DEF MissAt
    <3>2. t.child[N][1] = Null
      <4>1. t.child[e[r][1]][1] = Null
        BY <2>0, Spine DEF Child
      <4> QED BY <2>4, <4>1
    <3> QED BY <1>3, <2>6, <3>1, <3>2 DEF Place, Child
  <2>7. CASE k # 1 /\ k # N + 1
    <3>1. k - 1 \in 1..N /\ k \in 1..N
      BY <2>0, <2>7
    <3>2. where = IF t.child[k - 1][1] = Null THEN [node |-> Null, at |-> k - 1, side |-> 1]
                                              ELSE [node |-> Null, at |-> k, side |-> 0]
      <4>1. ~(k <= 1) /\ ~(k > N)
        BY <2>0, <2>7
      <4> QED BY <2>4, <4>1 DEF MissAt
    <3>3. CASE t.child[k - 1][1] = Null
      <4>1. where.at = k - 1 /\ where.side = 1 /\ where.node = Null
        BY <3>2, <3>3
      <4>2. k = k - 1 + 1
        BY <2>0
      <4> QED BY <3>1, <3>3, <4>1, <4>2 DEF Place, Child
    <3>4. CASE t.child[k - 1][1] # Null
      <4>1. where.at = k /\ where.side = 0 /\ where.node = Null
        BY <3>2, <3>4
      <4>2. t.child[k][0] = Null
        <5>0. PICK m, c : m = k - 1 /\ c = t.child[m][1]
          OBVIOUS
        <5>1. m \in S /\ c # Null /\ 1 \in Child /\ 0 \in Child /\ 1 - 1 = 0
          BY <3>1, <3>4, <5>0 DEF Child
        <5>2. c \in S /\ e[c][0] = b[m][1]
          <6>1. c \in S /\ e[c][1 - 1] = b[m][1]
            BY <2>0, <5>0, <5>1, Below
          <6> QED BY <5>1, <6>1
        <5>3. b[m][1] = k
          BY <2>0, <5>0, <5>1, NextToIs DEF Shape
        <5>4. t.child[e[c][0]][0] = Null
          BY <2>0, <5>1, <5>2, Spine
        <5> QED BY <5>2, <5>3, <5>4
      <4>3. k = k + 0
        BY <2>0
      <4> QED BY <3>1, <4>1, <4>2, <4>3 DEF Place, Child
    <3> QED BY <3>3, <3>4
  <2> QED BY <2>5, <2>6, <2>7
<1> QED BY <1>1, <1>2, <1>3, RootSpan

\* avl_add, and avl_find with avl_insert.
LEMMA InsertKeeps ==
    ASSUME AvlInv, op.pc \in {"idle", "add"}, NEW r \in 1..(numnodes + 1), LinkFound(r)
    PROVE  AvlInv'
<1>1. PICK where : where = Find(tree, Key(r) - 1)
  OBVIOUS
<1>2. Link(r, where.at, where.side)
  BY <1>1, Zenon DEF LinkFound
<1>3. numnodes \in Nat /\ \E h : Formed(tree, 1..numnodes, NextTo, h, Owed(op))
  BY DEF AvlInv, Standing
<1>4. Place(tree, numnodes, r, where.at, where.side)
  BY <1>1, <1>3, FindPlace
<1> QED BY <1>2, <1>4, LinkKeeps

\* avl_insert_here.
LEMMA InsertHereKeeps ==
    ASSUME AvlInv, NEW n \in 1..numnodes, NEW d \in Child, InsertHere(n, d)
    PROVE  AvlInv'
<1>1. PICK c, r : c = tree.child[n][d] /\ r = IF d = 0 THEN n ELSE n + 1
  OBVIOUS
<1>2. /\ op.pc = "idle"
      /\ c = Null => Link(r, n, d)
      /\ c # Null => Link(r, Extreme(tree, c, 1 - d), 1 - d)
  BY <1>1, Zenon DEF InsertHere, In
<1>3. numnodes \in Nat /\ \E h : Formed(tree, 1..numnodes, NextTo, h, Owed(op))
  BY <1>2 DEF AvlInv, Standing
<1> PICK N, t : N = numnodes /\ t = tree
  OBVIOUS
<1>4. PICK e : Shape(t, 1..N, NextTo, e) /\ Clear(t, 1..N)
  BY <1>3 DEF Formed
<1>5. CASE c = Null
  <2>1. Place(t, N, r, n, d)
    BY <1>1, <1>5 DEF Place, Child
  <2> QED BY <1>2, <1>5, <2>1, LinkKeeps
<1>6. CASE c # Null
  <2>0. PICK S, b, f, m : S = 1..N /\ b = NextTo /\ f = 1 - d /\ m = e[c][f]
    OBVIOUS
  <2>1. Shape(t, S, b, e) /\ Clear(t, S) /\ n \in S /\ f \in Child /\ c = t.child[n][d]
    BY <1>1, <1>4, <2>0, Sides
  <2>2. c \in S /\ m = b[n][d]
    <3>1. c \in S /\ e[c][1 - d] = b[n][d]
      BY <1>6, <2>1, Below
    <3> QED BY <2>0, <3>1
  <2>3. m = IF d = 0 THEN n - 1 ELSE n + 1
    BY <2>0, <2>1, <2>2, NextToIs DEF Shape
  <2>4. m \in S /\ t.child[m][1 - d] = Null
    <3>1. e[c][f] \in S /\ t.child[e[c][f]][f] = Null
      BY <2>1, <2>2, Spine
    <3> QED BY <2>0, <3>1
  <2>5. Extreme(t, c, 1 - d) = m
    <3>1. Extreme(t, c, f) = e[c][f]
      BY <2>1, <2>2, ClearIsBare, ExtremeIs
    <3> QED BY <2>0, <3>1
  <2>6. r = m + (1 - d)
    BY <1>1, <2>3 DEF Child
  <2>7. Place(t, N, r, m, 1 - d)
    BY <2>0, <2>1, <2>4, <2>6, Sides DEF Place
  <2> QED BY <1>2, <1>6, <2>5, <2>7, LinkKeeps
<1> QED BY <1>5, <1>6

-----------------------------------------------------------------------------
(* Unlinking a node that has one child at most.                             *)

\* Node u has nothing on side k, c on the other, and is child w of p.
Leaves(t, u, k, c, p, w) ==
    /\ k \in Child /\ t.child[u][k] = Null
    /\ c = t.child[u][1 - k] /\ p = t.parent[u] /\ w = t.which[u]

\* No node is between neighbours.
Tight(S, b) == \A n \in S, x \in S, d \in Child : Before(d, x, n) => ~Before(d, b[n][d], x)

\* The neighbours and the reach without u.
WithoutIn(S, b, u, b1) == \A n \in S, d \in Child : b1[n][d] = IF b[n][d] = u THEN b[u][d] ELSE b[n][d]
\* e1 is e without u.
Shorter(S, b, e, u, e1) == \A n \in S, d \in Child : e1[n][d] = IF e[n][d] = u THEN b[u][1 - d] ELSE e[n][d]

\* What is known around u.
Gone(t, S, b, e, u, k, c, p, w) ==
    /\ e[u][k] = u
    /\ c = Null => e[u][1 - k] = u
    /\ c # Null => /\ c \in S /\ c # u /\ t.parent[c] = u /\ t.which[c] = 1 - k
                   /\ e[c][1 - k] = e[u][1 - k] /\ e[c][k] = b[u][1 - k] /\ e[u][1 - k] # u
    /\ \/ p = Null /\ u = t.root
       \/ /\ p # Null /\ p \in S /\ p # u /\ p # c /\ w \in Child /\ t.child[p][w] = u
          /\ e[p][w] = e[u][w] /\ b[p][w] = e[u][1 - w]

\* It is so.
LEMMA GoneIs ==
    ASSUME NEW t, NEW S, NEW b, NEW e, Shape(t, S, b, e), NEW u \in S,
           NEW k, NEW c, NEW p, NEW w, Leaves(t, u, k, c, p, w)
    PROVE  Gone(t, S, b, e, u, k, c, p, w)
<1>0. Null \notin S /\ S \subseteq Nodes /\ S \subseteq Int
  BY Sides DEF Shape
<1>1. PICK d : d = 1 - k
  OBVIOUS
<1>2. /\ k \in Child /\ t.child[u][k] = Null /\ c = t.child[u][d] /\ p = t.parent[u] /\ w = t.which[u]
      /\ d \in Child /\ 1 - d = k
  BY <1>1, Sides DEF Leaves
<1>3. e[u][k] = u
  BY <1>2, NoneBelow
<1>4. ASSUME c = Null
      PROVE  e[u][d] = u
  <2>1. t.child[u][d] = Null
    BY <1>2, <1>4
  <2> QED BY <1>2, <2>1, NoneBelow
<1>5. ASSUME c # Null
      PROVE  /\ c \in S /\ c # u /\ t.parent[c] = u /\ t.which[c] = d
             /\ e[c][d] = e[u][d] /\ e[c][k] = b[u][d] /\ e[u][d] # u
  <2>1. /\ c \in S /\ c \in Int /\ u \in Int /\ Before(d, c, u) /\ c # u /\ t.parent[c] = u /\ t.which[c] = d
        /\ e[c][d] = e[u][d] /\ e[c][1 - d] = b[u][d]
    BY <1>2, <1>5, Below
  <2>2. e[c][d] \in S /\ ~Before(d, c, e[c][d])
    BY <1>2, <2>1 DEF Shape, Ends
  <2>3. e[u][d] # u
    BY <2>1, <2>2
  <2> QED BY <1>2, <2>1, <2>3
<1>6. \/ p = Null /\ u = t.root
      \/ /\ p # Null /\ p \in S /\ p # u /\ p # c /\ w \in Child /\ t.child[p][w] = u
         /\ e[p][w] = e[u][w] /\ b[p][w] = e[u][1 - w]
  <2>1. CASE p = Null /\ u = t.root
    BY <2>1
  <2>2. CASE p # Null /\ p \in S /\ w \in Child /\ t.child[p][w] = u
    <3>1. /\ p # u /\ e[u][w] = e[p][w] /\ e[u][1 - w] = b[p][w]
          /\ e[u][1] - e[u][0] < e[p][1] - e[p][0]
          /\ e[u][1] - e[u][0] \in Nat /\ e[p][1] - e[p][0] \in Nat
      <4>1. u # Null
        BY <1>0
      <4> QED BY <2>2, <4>1, Below
    <3>2. p # c
      <4>1. CASE c = Null
        BY <2>2, <4>1
      <4>2. CASE c # Null
        <5>1. e[c][1] - e[c][0] < e[u][1] - e[u][0] /\ e[c][1] - e[c][0] \in Nat
          BY <1>2, <4>2, Below
        <5> QED BY <3>1, <5>1
      <4> QED BY <4>1, <4>2
    <3> QED BY <2>2, <3>1, <3>2
  <2> QED BY <1>2, <2>1, <2>2, Parents
<1> QED BY <1>1, <1>2, <1>3, <1>4, <1>5, <1>6 DEF Gone

\* Unlinking a node keeps the order of the others.
LEMMA GoneShape ==
    ASSUME NEW t, NEW S, NEW b, NEW e, Shape(t, S, b, e), Tight(S, b), NEW u \in S,
           NEW k, NEW c, NEW p, NEW w, Leaves(t, u, k, c, p, w), NEW t1, Hung(t, p, w, c, t1),
           NEW b1, WithoutIn(S, b, u, b1), NEW e1, Shorter(S, b, e, u, e1)
    PROVE  Shape(t1, S \ {u}, b1, e1)
<1>0. Null \notin S /\ S \subseteq Nodes /\ S \subseteq Int /\ Null \notin Nodes
  BY Sides DEF Shape
<1>1. PICK d, R : d = 1 - k /\ R = S \ {u}
  OBVIOUS
<1>2. /\ k \in Child /\ t.child[u][k] = Null /\ c = t.child[u][d] /\ p = t.parent[u] /\ w = t.which[u]
      /\ d \in Child /\ 1 - d = k /\ d # k
  BY <1>1, Sides DEF Leaves
<1>3. /\ e[u][k] = u
      /\ c = Null => e[u][d] = u
      /\ c # Null => /\ c \in S /\ c # u /\ t.parent[c] = u /\ t.which[c] = d
                     /\ e[c][d] = e[u][d] /\ e[c][k] = b[u][d] /\ e[u][d] # u
      /\ \/ p = Null /\ u = t.root
         \/ /\ p # Null /\ p \in S /\ p # u /\ p # c /\ w \in Child /\ t.child[p][w] = u
            /\ e[p][w] = e[u][w] /\ b[p][w] = e[u][1 - w]
  BY <1>1, GoneIs DEF Gone
<1>4. /\ t1.root = IF p = Null THEN c ELSE t.root
      /\ \A n \in S, f \in Child : t1.child[n][f] = IF n = p /\ f = w THEN c ELSE t.child[n][f]
      /\ \A n \in S : /\ t1.parent[n] = IF n = c THEN p ELSE t.parent[n]
                      /\ t1.which[n] = IF n = c THEN w ELSE t.which[n]
  BY <1>0 DEF Hung
<1>5. \A n \in S, f \in Child : /\ b1[n][f] = IF b[n][f] = u THEN b[u][f] ELSE b[n][f]
                                /\ e1[n][f] = IF e[n][f] = u THEN b[u][1 - f] ELSE e[n][f]
  BY DEF WithoutIn, Shorter
<1>6. \A n \in S, f \in Child : /\ b[n][f] \in Int /\ Before(f, b[n][f], n)
                                /\ b[n][f] \in S => b[b[n][f]][1 - f] = n
  BY DEF Shape, Near
<1>7. \A n \in S, f \in Child : e[n][f] \in S /\ ~Before(f, n, e[n][f])
  BY DEF Shape, Ends
<1>8. \A n \in S, f \in Child : n # p \/ f # w => t.child[n][f] # u
  <2> SUFFICES ASSUME NEW n \in S, NEW f \in Child, t.child[n][f] = u
               PROVE  n = p /\ f = w
    OBVIOUS
  <2>1. t.parent[u] = n /\ t.which[u] = f
    BY <1>0, Below
  <2> QED BY <1>2, <2>1
<1>9. Near(R, b1)
  <2>1. ASSUME NEW n \in R, NEW f \in Child
        PROVE  /\ b1[n][f] \in Int /\ Before(f, b1[n][f], n)
               /\ b1[n][f] \in R => b1[b1[n][f]][1 - f] = n
    <3>0. n \in S /\ n # u /\ 1 - f \in Child /\ n \in Int /\ u \in Int
      BY <1>0, <1>1, Sides
    <3> PICK g, y : g = 1 - f /\ y = b[u][f]
      OBVIOUS
    <3>1. CASE b[n][f] = u
      <4>1. b1[n][f] = y /\ b[u][g] = n
        BY <1>5, <1>6, <3>0, <3>1
      <4>2. y \in Int /\ Before(f, y, u) /\ Before(f, u, n)
        BY <1>6, <3>0, <3>1
      <4>3. Before(f, y, n)
        BY <3>0, <4>2 DEF Before, Child
      <4>4. y \in R => b1[y][g] = n
        <5>1. y \in R => y \in S /\ b[y][g] = u
          BY <1>1, <1>6
        <5> QED BY <1>5, <3>0, <4>1, <5>1
      <4> QED BY <4>1, <4>2, <4>3, <4>4
    <3>2. CASE b[n][f] # u
      <4>1. b1[n][f] = b[n][f]
        BY <1>5, <3>0, <3>2
      <4>2. b[n][f] \in R => b1[b[n][f]][g] = n
        <5>1. b[n][f] \in R => b[n][f] \in S /\ b[b[n][f]][g] = n
          BY <1>1, <1>6, <3>0
        <5> QED BY <1>5, <3>0, <5>1
      <4> QED BY <1>6, <3>0, <4>1, <4>2
    <3> QED BY <3>1, <3>2
  <2> QED BY <2>1 DEF Near
<1>10. Ends(R, e1)
  <2>1. ASSUME NEW n \in R, NEW f \in Child
        PROVE  e1[n][f] \in R /\ ~Before(f, n, e1[n][f])
    <3>0. n \in S /\ n # u /\ 1 - f \in Child /\ n \in Int /\ u \in Int /\ f \in Child
      BY <1>0, <1>1, Sides
    <3>1. CASE e[n][f] = u
      <4> PICK g, y : g = 1 - f /\ y = b[u][g]
        OBVIOUS
      <4>1. e1[n][f] = y
        BY <1>5, <3>0, <3>1
      <4>2. p \in S /\ w = f /\ e[p][f] = u
        <5>1. t.parent[e[n][f]] \in S /\ t.which[e[n][f]] = f /\ e[t.parent[e[n][f]]][f] = e[n][f]
          BY <3>0, <3>1, Spine
        <5> QED BY <1>2, <3>1, <5>1
      <4>3. y \in S
        <5>1. p # Null /\ b[p][f] = e[u][g] /\ e[u][f] = u
          BY <1>0, <1>3, <4>2
        <5>2. CASE f = k
          <6>1. CASE c = Null
            <7>1. e[u][g] = u
              BY <1>1, <1>3, <5>2, <6>1
            <7>2. b[u][g] = p
              BY <1>6, <3>0, <4>2, <5>1, <7>1
            <7> QED BY <4>2, <7>2
          <6>2. CASE c # Null
            <7>1. y = e[c][k] /\ c \in S
              BY <1>1, <1>3, <5>2, <6>2
            <7> QED BY <1>2, <1>7, <7>1
          <6> QED BY <6>1, <6>2
        <5>3. CASE f = d
          <6>1. c = Null /\ g = k
            BY <1>2, <1>3, <5>1, <5>3
          <6>2. e[u][g] = u
            BY <1>3, <6>1
          <6>3. b[u][g] = p
            BY <1>6, <3>0, <4>2, <5>1, <6>2
          <6> QED BY <4>2, <6>3
        <5> QED BY <1>1, <1>2, <3>0, <5>2, <5>3, Sides
      <4>4. y # u /\ y \in Int
        BY <1>6, <3>0, Sides
      <4>5. ~Before(f, n, y)
        <5>1. ~Before(f, n, u)
          BY <1>7, <3>0, <3>1
        <5>2. Before(g, n, u)
          BY <3>0, <5>1 DEF Before, Child
        <5>3. ~Before(g, y, n)
          BY <3>0, <5>2 DEF Tight
        <5> QED BY <3>0, <4>4, <5>3 DEF Before, Child
      <4> QED BY <1>1, <4>1, <4>3, <4>4, <4>5
    <3>2. CASE e[n][f] # u
      BY <1>1, <1>5, <1>7, <3>0, <3>2
    <3> QED BY <3>1, <3>2
  <2> QED BY <2>1 DEF Ends
<1>11. Down(t1, R, b1, e1)
  <2>1. ASSUME NEW n \in R, NEW f \in Child
        PROVE  \/ t1.child[n][f] = Null /\ e1[n][f] = n
               \/ /\ t1.child[n][f] \in R /\ t1.parent[t1.child[n][f]] = n /\ t1.which[t1.child[n][f]] = f
                  /\ e1[t1.child[n][f]][f] = e1[n][f] /\ e1[t1.child[n][f]][1 - f] = b1[n][f]
    <3>0. n \in S /\ n # u /\ 1 - f \in Child /\ f \in Child
      BY <1>1, Sides
    <3>1. CASE n = p /\ f = w
      <4>1. /\ p # Null /\ p \in S /\ p # c /\ e[p][f] = e[u][f] /\ b[p][f] = e[u][1 - f]
            /\ t1.child[n][f] = c
        BY <1>0, <1>3, <1>4, <3>0, <3>1
      <4> PICK g : g = 1 - f
        OBVIOUS
      <4>2. g \in Child /\ ((f = k /\ g = d) \/ (f = d /\ g = k))
        BY <1>1, <1>2, <3>0 DEF Child
      <4>3. CASE c = Null
        <5>1. e[u][f] = u /\ e[u][g] = u
          BY <1>3, <4>2, <4>3
        <5>2. e1[p][f] = b[u][g]
          BY <1>5, <3>0, <4>1, <5>1
        <5>3. b[u][g] = p
          BY <1>6, <3>0, <4>1, <5>1
        <5> QED BY <3>1, <4>1, <4>3, <5>2, <5>3
      <4>4. CASE c # Null
        <5>1. c \in R /\ t1.parent[c] = n /\ t1.which[c] = f
          BY <1>1, <1>3, <1>4, <3>1, <4>4
        <5>2. c \in S /\ e[c][d] = e[u][d] /\ e[c][k] = b[u][d] /\ e[u][d] # u /\ e[u][k] = u
          BY <1>3, <4>4
        <5>3. b[u][d] # u
          BY <1>2, <1>6, Sides DEF Before, Child
        <5>4. CASE f = d /\ g = k
          <6>1. e1[c][f] = e1[p][f]
            BY <1>5, <3>0, <4>1, <5>2, <5>4
          <6>2. e1[c][g] = b[u][d]
            BY <1>5, <4>2, <5>2, <5>3, <5>4
          <6>3. b1[p][f] = b[u][d]
            BY <1>5, <3>0, <4>1, <5>2, <5>4
          <6> QED BY <3>1, <4>1, <5>1, <6>1, <6>2, <6>3
        <5>5. CASE f = k /\ g = d
          <6>1. e1[c][f] = b[u][d]
            BY <1>5, <4>2, <5>2, <5>3, <5>5
          <6>2. e1[p][f] = b[u][d]
            BY <1>5, <3>0, <4>1, <5>2, <5>5
          <6>3. e1[c][g] = b1[p][f]
            BY <1>5, <3>0, <4>1, <4>2, <5>2, <5>5
          <6> QED BY <3>1, <4>1, <5>1, <6>1, <6>2, <6>3
        <5> QED BY <4>2, <5>4, <5>5
      <4> QED BY <4>3, <4>4
    <3>2. CASE ~(n = p /\ f = w)
      <4>1. PICK x : x = t.child[n][f]
        OBVIOUS
      <4>2. t1.child[n][f] = x /\ x # u
        BY <1>4, <1>8, <3>0, <3>2, <4>1
      <4>3. CASE x = Null
        <5>0. t.child[n][f] = Null
          BY <4>1, <4>3
        <5>1. e[n][f] = n
          BY <3>0, <5>0, NoneBelow
        <5> QED BY <1>5, <3>0, <4>2, <4>3, <5>1
      <4>4. CASE x # Null
        <5>1. /\ x \in S /\ t.parent[x] = n /\ t.which[x] = f
              /\ e[x][f] = e[n][f] /\ e[x][1 - f] = b[n][f]
          BY <3>0, <4>1, <4>4, Below
        <5>2. x # c
          BY <1>3, <3>0, <4>4, <5>1
        <5>3. t1.parent[x] = n /\ t1.which[x] = f
          BY <1>4, <5>1, <5>2
        <5>4. e1[x][f] = e1[n][f]
          BY <1>5, <3>0, <5>1
        <5>5. e1[x][1 - f] = b1[n][f]
          <6> PICK g : g = 1 - f
            OBVIOUS
          <6>1. 1 - g = f /\ g \in Child
            BY <3>0, Sides
          <6>2. e1[x][g] = IF e[x][g] = u THEN b[u][f] ELSE e[x][g]
            BY <1>5, <5>1, <6>1
          <6>3. b1[n][f] = IF b[n][f] = u THEN b[u][f] ELSE b[n][f]
            BY <1>5, <3>0
          <6> QED BY <5>1, <6>2, <6>3
        <5>6. x \in R
          BY <1>1, <4>2, <5>1
        <5> QED BY <4>2, <5>3, <5>4, <5>5, <5>6
      <4> QED BY <4>3, <4>4
    <3> QED BY <3>1, <3>2
  <2> QED BY <2>1 DEF Down
<1>12. Upwards(t1, R)
  <2>1. ASSUME NEW n \in R
        PROVE  \/ t1.parent[n] = Null /\ n = t1.root
               \/ t1.parent[n] \in R /\ t1.which[n] \in Child /\ t1.child[t1.parent[n]][t1.which[n]] = n
    <3>0. n \in S /\ n # u
      BY <1>1
    <3>1. CASE n = c
      <4>1. t1.parent[n] = p /\ t1.which[n] = w
        BY <1>4, <3>0, <3>1
      <4>2. c # Null
        BY <1>0, <3>0, <3>1
      <4> QED BY <1>1, <1>3, <1>4, <3>1, <4>1
    <3>2. CASE n # c
      <4>1. t1.parent[n] = t.parent[n] /\ t1.which[n] = t.which[n]
        BY <1>4, <3>0, <3>2
      <4>2. CASE t.parent[n] = Null /\ n = t.root
        BY <1>3, <1>4, <3>0, <4>1, <4>2
      <4>3. CASE /\ t.parent[n] # Null /\ t.parent[n] \in S /\ t.which[n] \in Child
                 /\ t.child[t.parent[n]][t.which[n]] = n
        <5>1. t.parent[n] # u
          <6>1. t.child[u][k] # n /\ t.child[u][d] # n
            BY <1>0, <1>2, <3>0, <3>2
          <6>2. t.which[n] = k \/ t.which[n] = d
            BY <1>1, <1>2, <4>3, Sides
          <6> QED BY <4>3, <6>1, <6>2
        <5>2. ~(t.parent[n] = p /\ t.which[n] = w)
          BY <1>3, <3>0, <4>3
        <5> QED BY <1>1, <1>4, <4>1, <4>3, <5>1, <5>2
      <4> QED BY <3>0, <4>2, <4>3, Parents
    <3> QED BY <3>1, <3>2
  <2> QED BY <2>1 DEF Upwards
<1>13. Top(t1, R, b1, e1)
  <2>0. t.root \in S /\ t.parent[t.root] = Null /\ \A f \in Child : b[e[t.root][f]][f] \notin S
    BY DEF Shape, Top
  <2>1. CASE p = Null /\ u = t.root
    <3>0. t1.root = c /\ \A f \in Child : b[e[u][f]][f] \notin S
      BY <1>4, <2>0, <2>1
    <3>1. CASE c = Null
      <4>1. R = {}
        <5> SUFFICES ASSUME R # {}
                     PROVE  FALSE
          OBVIOUS
        <5>1. R \in SUBSET S
          BY <1>1
        <5>2. PICK n \in R : t.parent[n] \notin R
          BY <5>1, Highest
        <5>3. n \in S /\ n # u
          BY <1>1
        <5>4. t.parent[n] = u /\ t.which[n] \in Child /\ t.child[u][t.which[n]] = n
          BY <1>1, <2>1, <5>2, <5>3, Parents
        <5>5. t.which[n] = k \/ t.which[n] = d
          BY <1>1, <1>2, <5>4, Sides
        <5> QED BY <1>0, <1>2, <3>1, <5>3, <5>4, <5>5
      <4> QED BY <3>0, <3>1, <4>1 DEF Top
    <3>2. CASE c # Null
      <4>1. c \in S /\ c # u /\ e[c][d] = e[u][d] /\ e[c][k] = b[u][d] /\ e[u][d] # u /\ e[u][k] = u
        BY <1>3, <3>2
      <4>2. t1.parent[c] = Null /\ c \in R
        BY <1>1, <1>4, <2>1, <4>1
      <4>3. b1[e1[c][d]][d] \notin R
        <5>1. e1[c][d] = e[u][d] /\ e[u][d] \in S
          BY <1>2, <1>5, <1>7, <4>1
        <5>2. b[e[u][d]][d] \notin S
          BY <1>2, <3>0
        <5>3. b1[e[u][d]][d] = b[e[u][d]][d]
          BY <1>2, <1>5, <5>1, <5>2
        <5> QED BY <1>1, <5>1, <5>2, <5>3
      <4>4. b1[e1[c][k]][k] \notin R
        <5> PICK y : y = b[u][d]
          OBVIOUS
        <5>1. y \in S /\ y # u /\ b[y][k] = u
          <6>1. y \in S
            BY <1>2, <1>7, <4>1
          <6>2. y \in Int /\ Before(d, y, u)
            BY <1>2, <1>6
          <6> QED BY <1>2, <1>6, <6>1, <6>2, Sides
        <5>2. e1[c][k] = y
          BY <1>2, <1>5, <4>1, <5>1
        <5>3. b1[y][k] = b[u][k] /\ b[u][k] \notin S
          BY <1>2, <1>5, <3>0, <4>1, <5>1
        <5> QED BY <1>1, <5>2, <5>3
      <4>5. \A f \in Child : f = d \/ f = k
        BY <1>1, <1>2, Sides
      <4> QED BY <3>0, <4>2, <4>3, <4>4, <4>5 DEF Top
    <3> QED BY <3>1, <3>2
  <2>2. CASE p # Null
    <3> PICK r : r = t.root
      OBVIOUS
    <3>1. t1.root = r /\ r \in S /\ r # u /\ r # c /\ t1.parent[r] = Null
      <4>1. r # u
        BY <1>2, <2>0, <2>2
      <4>2. r # c
        <5>1. c # Null => t.parent[c] = u
          BY <1>3
        <5> QED BY <1>0, <2>0, <5>1
      <4> QED BY <1>4, <2>0, <2>2, <4>1, <4>2
    <3>2. ASSUME NEW f \in Child
          PROVE  b1[e1[r][f]][f] \notin R
      <4> PICK x, g : x = e[r][f] /\ g = 1 - f
        OBVIOUS
      <4>0. g \in Child /\ 1 - g = f /\ x \in S /\ b[x][f] \notin S
        BY <1>7, <2>0, <3>1, Sides
      <4>1. CASE x = u
        <5> PICK y : y = b[u][g]
          OBVIOUS
        <5>1. e1[r][f] = y /\ y \in R
          <6>1. e1[r][f] = y
            BY <1>5, <3>1, <4>1
          <6>2. e1[r][f] \in R
            BY <1>1, <1>10, <3>1 DEF Ends
          <6> QED BY <6>1, <6>2
        <5>2. y \in S /\ b[y][f] = u
          BY <1>1, <1>6, <4>0, <5>1
        <5>3. b1[y][f] = b[u][f] /\ b[u][f] \notin S
          BY <1>5, <4>0, <4>1, <5>2
        <5> QED BY <1>1, <5>1, <5>3
      <4>2. CASE x # u
        <5>1. e1[r][f] = x
          BY <1>5, <3>1, <4>2
        <5>2. b1[x][f] = b[x][f]
          BY <1>5, <4>0
        <5> QED BY <1>1, <4>0, <5>1, <5>2
      <4> QED BY <4>1, <4>2
    <3> QED BY <1>1, <3>1, <3>2 DEF Top
  <2> QED BY <1>3, <2>1, <2>2
<1>14. R \subseteq Nodes
  BY <1>0, <1>1
<1> QED BY <1>1, <1>9, <1>10, <1>11, <1>12, <1>13, <1>14 DEF Shape

\* What is above is shorter by one there.
LEMMA GoneLevel ==
    ASSUME NEW t, NEW S, NEW b, NEW e, Shape(t, S, b, e), NEW h, NEW q, Level(t, S, h, q), q.at = Null,
           NEW u \in S, NEW k, NEW c, NEW p, NEW w, Leaves(t, u, k, c, p, w), NEW t1, Hung(t, p, w, c, t1),
           NEW R, R = S \ {u}
    PROVE  Level(t1, R, h, Waits(p, w, -1))
<1>0. Null \notin S /\ S \subseteq Nodes
  BY Sides DEF Shape
<1>1. PICK d : d = 1 - k
  OBVIOUS
<1>2. /\ k \in Child /\ t.child[u][k] = Null /\ c = t.child[u][d] /\ p = t.parent[u] /\ w = t.which[u]
      /\ d \in Child
  BY <1>1, Sides DEF Leaves
<1>3. \/ p = Null
      \/ p # Null /\ p \in S /\ w \in Child /\ t.child[p][w] = u
  BY GoneIs DEF Gone
<1>4. PICK x : x = High(t, h, u, d)
  OBVIOUS
<1>5. x \in Nat /\ h[u] \in Nat /\ h[u] = x + 1
  <2>1. Poised(k, High(t, h, u, k), High(t, h, u, 1 - k), t.balance[u], h[u])
    BY <1>0, <1>2, NothingDue
  <2>2. High(t, h, u, k) = 0
    BY <1>2 DEF High
  <2>3. Poised(k, 0, x, t.balance[u], h[u])
    BY <1>1, <1>4, <2>1, <2>2
  <2> QED BY <2>3 DEF Poised, Higher
<1> PICK z : z = Waits(p, w, -1)
  OBVIOUS
<1>6. z.at = p /\ z.side = w /\ z.by = -1
  BY DEF Waits
<1>7. /\ \A n \in S, f \in Child : t1.child[n][f] = IF n = p /\ f = w THEN c ELSE t.child[n][f]
      /\ \A n \in S : t1.balance[n] = t.balance[n]
  BY <1>0 DEF Hung
<1>8. ASSUME NEW n \in R, NEW f \in Child
      PROVE  Side(t1, h, z, n, f) = High(t, h, n, f)
  <2>0. n \in S
    OBVIOUS
  <2>1. CASE n = p /\ f = w
    <3>1. t.child[n][f] = u /\ u # Null
      BY <1>0, <1>3, <2>0, <2>1
    <3>2. High(t, h, n, f) = h[u]
      BY <3>1 DEF High
    <3>3. t1.child[n][f] = c
      BY <1>7, <2>0, <2>1
    <3>4. High(t1, h, n, f) = x
      BY <1>2, <1>4, <3>3 DEF High
    <3>5. Due(z, n, f) = -1
      BY <1>6, <2>1 DEF Due
    <3>6. x - (-1) = h[u]
      BY <1>5
    <3> QED BY <3>2, <3>4, <3>5, <3>6 DEF Side
  <2>2. CASE ~(n = p /\ f = w)
    <3>1. High(t1, h, n, f) = High(t, h, n, f)
      BY <1>7, <2>0, <2>2 DEF High
    <3>2. Due(z, n, f) = 0
      BY <1>6, <2>2 DEF Due
    <3>3. High(t, h, n, f) \in Nat
      BY <2>0, HighNat
    <3> QED BY <3>1, <3>2, <3>3 DEF Side
  <2> QED BY <2>1, <2>2
<1>9. ASSUME NEW n \in R, NEW f \in Child
      PROVE  LevelAt(t1, h, z, n, f)
  <2>1. 1 - f \in Child /\ n # q.at /\ n \in S
    BY <1>0, Sides
  <2>2. Poised(f, High(t, h, n, f), High(t, h, n, 1 - f), t.balance[n], h[n])
    BY <2>1, NothingDue
  <2>3. Side(t1, h, z, n, f) = High(t, h, n, f) /\ Side(t1, h, z, n, 1 - f) = High(t, h, n, 1 - f)
    BY <1>8, <2>1
  <2>4. t1.balance[n] = t.balance[n]
    BY <1>7, <2>1
  <2> QED BY <2>2, <2>3, <2>4 DEF LevelAt
<1> QED BY <1>9 DEF Level

\* Unlinking keeps the other nodes in order, but for what is above.
LEMMA GoneSound ==
    ASSUME NEW t, NEW S, NEW b, NEW h, NEW q, Sound(t, S, b, h, q), q.at = Null, Tight(S, b), NEW u \in S,
           NEW k, NEW c, NEW p, NEW w, Leaves(t, u, k, c, p, w), NEW t1, Hung(t, p, w, c, t1),
           NEW R, R = S \ {u}
    PROVE  Sound(t1, R, Without(b, u), h, Waits(p, w, -1))
<1>1. PICK e : Shape(t, S, b, e) /\ Level(t, S, h, q)
  BY DEF Sound
<1>2. S \subseteq Nodes
  BY <1>1 DEF Shape
<1>3. PICK b1 : b1 = Without(b, u)
  OBVIOUS
<1>4. WithoutIn(S, b, u, b1)
  BY <1>2, <1>3 DEF Without, WithoutIn
<1>5. PICK e1 : Shorter(S, b, e, u, e1)
  <2>1. PICK e1 : e1 = [n \in S |-> [d \in Child |-> IF e[n][d] = u THEN b[u][1 - d] ELSE e[n][d]]]
    OBVIOUS
  <2>2. Shorter(S, b, e, u, e1)
    BY <2>1 DEF Shorter
  <2> QED BY <2>2
<1>6. Shape(t1, R, b1, e1)
  BY <1>1, <1>4, <1>5, GoneShape
<1>7. Level(t1, R, h, Waits(p, w, -1))
  BY <1>1, GoneLevel
<1>8. t1 \in Trees
  BY DEF Hung
<1> QED BY <1>3, <1>6, <1>7, <1>8 DEF Sound

\* There is nothing between numbers that are next to each other.
LEMMA TightAll ==
    ASSUME NEW N \in Nat, N <= MaxNodes
    PROVE  Tight(1..N, NextTo)
<1>1. \A n \in 1..N : n \in Nodes
  BY NodesAssumption DEF Nodes
<1> QED BY <1>1, NextToIs DEF Tight, Before, Child

\* The names that close the gap at u.
LEMMA CloseNames ==
    ASSUME NEW N \in Nat, N <= MaxNodes, NEW u \in 1..N, NEW S, S = 1..N \ {u},
           NEW name, name = [n \in S |-> IF n < u THEN n ELSE n - 1]
    PROVE  /\ name \in [S -> Nodes] /\ Injective(S, name)
           /\ InOrder(S, Without(NextTo, u), name, 1..(N - 1), NextTo)
<1> PICK S2, b : S2 = 1..(N - 1) /\ b = Without(NextTo, u)
  OBVIOUS
<1>1. /\ \A n : n \in S <=> n \in Int /\ 1 <= n /\ n <= N /\ n # u
      /\ \A n : n \in S2 <=> n \in Int /\ 1 <= n /\ n <= N - 1
      /\ u \in Int /\ 1 <= u /\ u <= N /\ u \in Nodes
      /\ S \subseteq Nodes /\ S2 \subseteq Nodes
  BY NodesAssumption DEF Nodes
<1>2. \A n \in S : name[n] = IF n < u THEN n ELSE n - 1
  OBVIOUS
<1>3. /\ \A n \in Nodes : b[n][0] = IF n - 1 = u THEN u - 1 ELSE n - 1
      /\ \A n \in Nodes : b[n][1] = IF n + 1 = u THEN u + 1 ELSE n + 1
      /\ \A n \in Nodes : NextTo[n][0] = n - 1 /\ NextTo[n][1] = n + 1
  BY <1>1, WithoutIs, NextToIs DEF Child
<1>4. \A n \in S : name[n] \in S2
  BY <1>1, <1>2
<1>5. name \in [S -> Nodes]
  BY <1>1, <1>4
<1>6. Injective(S, name)
  BY <1>1, <1>2 DEF Injective
<1>7. S2 = {name[n] : n \in S}
  <2>1. ASSUME NEW m \in S2
        PROVE  \E n \in S : m = name[n]
    <3>1. CASE m < u
      <4>1. m \in S /\ name[m] = m
        BY <1>1, <1>2, <3>1
      <4> QED BY <4>1
    <3>2. CASE ~(m < u)
      <4>1. m + 1 \in S /\ name[m + 1] = m
        BY <1>1, <1>2, <3>2
      <4> QED BY <4>1
    <3> QED BY <3>1, <3>2
  <2>2. \A m : m \in S2 <=> \E n \in S : m = name[n]
    BY <1>4, <2>1
  <2> QED BY <2>2, Zenon
<1>8. Near(S2, NextTo)
  <2>1. N - 1 \in Nat /\ N - 1 <= MaxNodes
    BY NodesAssumption
  <2> QED BY <2>1, NearAll
<1>9. \A n \in S, d \in Child, x \in S : Before(d, x, n) => Before(d, name[x], name[n])
  BY <1>1, <1>2 DEF Before, Child
<1>10. \A n \in S, d \in Child :
           IF b[n][d] \in S THEN NextTo[name[n]][d] = name[b[n][d]] ELSE NextTo[name[n]][d] \notin S2
  <2>1. ASSUME NEW n \in S
        PROVE  IF b[n][0] \in S THEN NextTo[name[n]][0] = name[b[n][0]] ELSE NextTo[name[n]][0] \notin S2
    <3> PICK x : x = b[n][0]
      OBVIOUS
    <3>1. NextTo[name[n]][0] = name[n] - 1 /\ x = IF n - 1 = u THEN u - 1 ELSE n - 1
      BY <1>1, <1>3, <1>4
    <3>2. CASE x \in S
      <4>1. name[x] = IF x < u THEN x ELSE x - 1
        BY <1>2, <3>2
      <4> QED BY <1>1, <1>2, <3>1, <3>2, <4>1
    <3>3. CASE x \notin S
      BY <1>1, <1>2, <3>1, <3>3
    <3> QED BY <3>2, <3>3
  <2>2. ASSUME NEW n \in S
        PROVE  IF b[n][1] \in S THEN NextTo[name[n]][1] = name[b[n][1]] ELSE NextTo[name[n]][1] \notin S2
    <3> PICK x : x = b[n][1]
      OBVIOUS
    <3>1. NextTo[name[n]][1] = name[n] + 1 /\ x = IF n + 1 = u THEN u + 1 ELSE n + 1
      BY <1>1, <1>3, <1>4
    <3>2. CASE x \in S
      <4>1. name[x] = IF x < u THEN x ELSE x - 1
        BY <1>2, <3>2
      <4> QED BY <1>1, <1>2, <3>1, <3>2, <4>1
    <3>3. CASE x \notin S
      BY <1>1, <1>2, <3>1, <3>3
    <3> QED BY <3>2, <3>3
  <2>3. ASSUME NEW n \in S, NEW d \in Child
        PROVE  IF b[n][d] \in S THEN NextTo[name[n]][d] = name[b[n][d]] ELSE NextTo[name[n]][d] \notin S2
    <3>1. d = 0 \/ d = 1
      BY DEF Child
    <3> QED BY <2>1, <2>2, <3>1, Zenon
  <2> QED BY <2>3
<1>11. InOrder(S, b, name, S2, NextTo)
  BY <1>7, <1>8, <1>9, <1>10 DEF InOrder
<1> QED BY <1>5, <1>6, <1>11

\* The names when d takes the place of its neighbour m.
LEMMA SwapNames ==
    ASSUME NEW N \in Nat, N <= MaxNodes, NEW d \in 1..N, NEW m \in 1..N, m = d + 1 \/ m = d - 1,
           NEW S, S = 1..N \ {m}, NEW name, name = [n \in S |-> IF n = d THEN m ELSE n]
    PROVE  InOrder(S, Without(NextTo, m), name, 1..N \ {d}, Without(NextTo, d))
<1> PICK S2, b, b2 : S2 = 1..N \ {d} /\ b = Without(NextTo, m) /\ b2 = Without(NextTo, d)
  OBVIOUS
<1>1. /\ \A n : n \in S <=> n \in Int /\ 1 <= n /\ n <= N /\ n # m
      /\ \A n : n \in S2 <=> n \in Int /\ 1 <= n /\ n <= N /\ n # d
      /\ d \in Int /\ 1 <= d /\ d <= N /\ d \in Nodes /\ m \in Int /\ 1 <= m /\ m <= N /\ m \in Nodes
      /\ S \subseteq Nodes /\ S2 \subseteq Nodes
  BY NodesAssumption DEF Nodes
<1>2. \A n \in S : name[n] = IF n = d THEN m ELSE n
  OBVIOUS
<1>3. /\ \A n \in Nodes : b[n][0] = IF n - 1 = m THEN m - 1 ELSE n - 1
      /\ \A n \in Nodes : b[n][1] = IF n + 1 = m THEN m + 1 ELSE n + 1
      /\ \A n \in Nodes : b2[n][0] = IF n - 1 = d THEN d - 1 ELSE n - 1
      /\ \A n \in Nodes : b2[n][1] = IF n + 1 = d THEN d + 1 ELSE n + 1
  BY <1>1, WithoutIs DEF Child
<1>4. \A n \in S : name[n] \in S2
  BY <1>1, <1>2
<1>7. S2 = {name[n] : n \in S}
  <2>1. ASSUME NEW k \in S2
        PROVE  \E n \in S : k = name[n]
    <3>1. CASE k = m
      <4>1. d \in S /\ name[d] = k
        BY <1>1, <1>2, <3>1
      <4> QED BY <4>1
    <3>2. CASE k # m
      <4>1. k \in S /\ name[k] = k
        BY <1>1, <1>2, <3>2
      <4> QED BY <4>1
    <3> QED BY <3>1, <3>2
  <2>2. \A k : k \in S2 <=> \E n \in S : k = name[n]
    BY <1>4, <2>1
  <2> QED BY <2>2, Zenon
<1>8. Near(S2, b2)
  <2>1. ASSUME NEW n \in S2
        PROVE  /\ b2[n][0] \in Int /\ b2[n][0] < n /\ b2[n][1] \in Int /\ n < b2[n][1]
               /\ b2[n][0] \in S2 => b2[b2[n][0]][1] = n
               /\ b2[n][1] \in S2 => b2[b2[n][1]][0] = n
    <3>1. n \in Nodes /\ n \in Int /\ 1 <= n /\ n <= N /\ n # d
      BY <1>1
    <3> PICK x, y : x = b2[n][0] /\ y = b2[n][1]
      OBVIOUS
    <3>2. x = (IF n - 1 = d THEN d - 1 ELSE n - 1) /\ y = IF n + 1 = d THEN d + 1 ELSE n + 1
      BY <1>3, <3>1
    <3>3. x \in Int /\ x < n /\ y \in Int /\ n < y
      BY <1>1, <3>1, <3>2
    <3>4. ASSUME x \in S2
          PROVE  b2[x][1] = n
      <4>1. x \in Nodes /\ x # d
        BY <1>1, <3>4
      <4>2. b2[x][1] = IF x + 1 = d THEN d + 1 ELSE x + 1
        BY <1>3, <4>1
      <4> QED BY <1>1, <3>1, <3>2, <3>3, <4>1, <4>2
    <3>5. ASSUME y \in S2
          PROVE  b2[y][0] = n
      <4>1. y \in Nodes /\ y # d
        BY <1>1, <3>5
      <4>2. b2[y][0] = IF y - 1 = d THEN d - 1 ELSE y - 1
        BY <1>3, <4>1
      <4> QED BY <1>1, <3>1, <3>2, <3>3, <4>1, <4>2
    <3> QED BY <3>3, <3>4, <3>5
  <2> QED BY <2>1 DEF Near, Before, Child
<1>9. \A n \in S, f \in Child, x \in S : Before(f, x, n) => Before(f, name[x], name[n])
  BY <1>1, <1>2 DEF Before, Child
<1>10. \A n \in S, f \in Child :
           IF b[n][f] \in S THEN b2[name[n]][f] = name[b[n][f]] ELSE b2[name[n]][f] \notin S2
  <2>1. ASSUME NEW n \in S
        PROVE  IF b[n][0] \in S THEN b2[name[n]][0] = name[b[n][0]] ELSE b2[name[n]][0] \notin S2
    <3> PICK x, y : x = b[n][0] /\ y = name[n]
      OBVIOUS
    <3>1. /\ y = (IF n = d THEN m ELSE n) /\ x = (IF n - 1 = m THEN m - 1 ELSE n - 1)
          /\ b2[y][0] = IF y - 1 = d THEN d - 1 ELSE y - 1
      BY <1>1, <1>2, <1>3, <1>4
    <3>2. CASE x \in S
      <4>1. name[x] = IF x = d THEN m ELSE x
        BY <1>2, <3>2
      <4> QED BY <1>1, <3>1, <3>2, <4>1
    <3>3. CASE x \notin S
      BY <1>1, <3>1, <3>3
    <3> QED BY <3>2, <3>3
  <2>2. ASSUME NEW n \in S
        PROVE  IF b[n][1] \in S THEN b2[name[n]][1] = name[b[n][1]] ELSE b2[name[n]][1] \notin S2
    <3> PICK x, y : x = b[n][1] /\ y = name[n]
      OBVIOUS
    <3>1. /\ y = (IF n = d THEN m ELSE n) /\ x = (IF n + 1 = m THEN m + 1 ELSE n + 1)
          /\ b2[y][1] = IF y + 1 = d THEN d + 1 ELSE y + 1
      BY <1>1, <1>2, <1>3, <1>4
    <3>2. CASE x \in S
      <4>1. name[x] = IF x = d THEN m ELSE x
        BY <1>2, <3>2
      <4> QED BY <1>1, <3>1, <3>2, <4>1
    <3>3. CASE x \notin S
      BY <1>1, <3>1, <3>3
    <3> QED BY <3>2, <3>3
  <2>3. ASSUME NEW n \in S, NEW f \in Child
        PROVE  IF b[n][f] \in S THEN b2[name[n]][f] = name[b[n][f]] ELSE b2[name[n]][f] \notin S2
    <3>1. CASE f = 0
      BY <2>1, <3>1, Zenon
    <3>2. CASE f = 1
      BY <2>2, <3>2, Zenon
    <3> QED BY <3>1, <3>2 DEF Child
  <2> QED BY <2>3
<1> QED BY <1>7, <1>8, <1>9, <1>10 DEF InOrder

-----------------------------------------------------------------------------
(* A node changes places with its neighbour.                                *)

\* Parents and children know each other.
TwoWay(t, S) ==
    /\ t \in Trees /\ S \subseteq Nodes /\ Null \notin S
    /\ t.root = Null \/ (t.root \in S /\ t.parent[t.root] = Null)
    /\ \A n \in S, f \in Child :
          t.child[n][f] # Null => /\ t.child[n][f] \in S /\ t.child[n][f] # n
                                  /\ t.parent[t.child[n][f]] = n /\ t.which[t.child[n][f]] = f
    /\ \A n \in S : \/ t.parent[n] = Null /\ n = t.root
                    \/ /\ t.parent[n] # Null /\ t.parent[n] \in S /\ t.parent[n] # n /\ t.which[n] \in Child
                       /\ t.child[t.parent[n]][t.which[n]] = n /\ n # t.root

\* They do in a tree.
LEMMA ShapeTwoWay ==
    ASSUME NEW t \in Trees, NEW S, NEW b, NEW e, Shape(t, S, b, e)
    PROVE  TwoWay(t, S)
<1>1. S \subseteq Nodes /\ Null \notin S /\ (t.root = Null \/ (t.root \in S /\ t.parent[t.root] = Null))
  BY Sides DEF Shape, Top
<1>2. ASSUME NEW n \in S, NEW f \in Child, t.child[n][f] # Null
      PROVE  /\ t.child[n][f] \in S /\ t.child[n][f] # n
             /\ t.parent[t.child[n][f]] = n /\ t.which[t.child[n][f]] = f
  BY <1>2, Below
<1>3. ASSUME NEW n \in S
      PROVE  \/ t.parent[n] = Null /\ n = t.root
             \/ /\ t.parent[n] # Null /\ t.parent[n] \in S /\ t.parent[n] # n /\ t.which[n] \in Child
                /\ t.child[t.parent[n]][t.which[n]] = n /\ n # t.root
  <2>1. CASE t.parent[n] = Null /\ n = t.root
    BY <2>1
  <2>2. CASE /\ t.parent[n] # Null /\ t.parent[n] \in S /\ t.which[n] \in Child
             /\ t.child[t.parent[n]][t.which[n]] = n
    <3>1. n # Null
      BY <1>1
    <3>2. t.parent[n] # n
      BY <2>2, <3>1, <1>2
    <3>3. n # t.root
      BY <1>1, <2>2, <3>1
    <3> QED BY <2>2, <3>2, <3>3
  <2> QED BY <2>1, <2>2, Parents
<1> QED BY <1>1, <1>2, <1>3 DEF TwoWay

\* m is below d, with nothing on one side and not d on the other.
Kin(t, S, d, m, s) ==
    /\ d \in S /\ m \in S /\ d # m /\ s \in Child
    /\ t.child[m][1 - s] = Null /\ t.child[m][s] # d
    /\ t.parent[m] # Null

\* The neighbour of d on a side where it has a child is this.
LEMMA NeighbourKin ==
    ASSUME NEW t \in Trees, NEW S, NEW b, NEW e, Shape(t, S, b, e), Clear(t, S), NEW d \in S, NEW s \in Child,
           t.child[d][s] # Null, NEW m, m = Extreme(t, t.child[d][s], 1 - s)
    PROVE  Kin(t, S, d, m, s) /\ m = b[d][s] /\ Before(s, m, d)
<1> PICK c, z : c = t.child[d][s] /\ z = 1 - s
  OBVIOUS
<1>1. /\ c \in S /\ e[c][1 - s] = b[d][s] /\ t.parent[c] = d
      /\ z \in Child /\ 1 - z = s
  BY Below, Sides
<1>2. m = e[c][z]
  BY <1>1, ClearIsBare, ExtremeIs
<1>3. m \in S /\ t.child[m][z] = Null
  BY <1>1, <1>2, Spine
<1>4. S \subseteq Nodes /\ d \in Int /\ m \in Int /\ Null \notin S
  BY <1>3, Sides DEF Shape
<1>5. m = b[d][s] /\ Before(s, m, d)
  BY <1>1, <1>2 DEF Shape, Near
<1>6. d # m
  BY <1>4, <1>5, Sides
<1>7. t.child[m][s] # d
  <2>1. ASSUME t.child[m][s] = d
        PROVE  FALSE
    <3>1. d # Null
      BY <1>4
    <3>2. Before(s, d, m)
      BY <1>3, <2>1, <3>1, Below
    <3> QED BY <1>4, <1>5, <3>2 DEF Before
  <2> QED BY <2>1
<1>8. t.parent[m] # Null
  <2>1. ASSUME t.parent[m] = Null
        PROVE  FALSE
    <3>1. m = t.root
      BY <1>3, <2>1, Parents
    <3>2. b[e[m][s]][s] \notin S /\ b[e[m][z]][z] \notin S
      BY <1>3, <1>4, <3>1, <1>1 DEF Shape, Top
    <3>3. t.child[m][z] = Null
      BY <1>3
    <3>4. e[m][z] = m
      BY <1>1, <1>3, <3>3, NoneBelow
    <3>5. b[m][z] = d
      BY <1>3, <1>5 DEF Shape, Near
    <3> QED BY <3>2, <3>4, <3>5
  <2> QED BY <2>1
<1> QED BY <1>3, <1>5, <1>6, <1>7, <1>8 DEF Kin

\* u is t with the contents of d and m exchanged; a child m of d has become d.
SwappedTo(t, d, m, u) ==
    /\ u \in Trees /\ u.root = t.root
    /\ \A x \in Nodes, f \in Child :
          u.child[x][f] = IF x = d THEN t.child[m][f]
                          ELSE IF x = m THEN (IF t.child[d][f] = m THEN d ELSE t.child[d][f]) ELSE t.child[x][f]
    /\ \A x \in Nodes : u.parent[x] = IF x = d THEN t.parent[m] ELSE t.parent[x]
    /\ \A x \in Nodes : u.which[x] = IF x = d THEN t.which[m] ELSE t.which[x]
    /\ \A x \in Nodes : u.balance[x] = IF x = d THEN t.balance[m] ELSE IF x = m THEN t.balance[d] ELSE t.balance[x]

\* Swapped does that.
LEMMA SwappedIs ==
    ASSUME NEW t \in Trees, NEW d \in Nodes, NEW m \in Nodes, d # m
    PROVE  SwappedTo(t, d, m, Swapped(t, d, m))
<1> DEFINE ch == [t.child EXCEPT ![m] = [e \in Child |-> IF t.child[d][e] = m THEN d ELSE t.child[d][e]],
                                 ![d] = t.child[m]]
           pa == [t.parent EXCEPT ![d] = t.parent[m]]
           wh == [t.which EXCEPT ![d] = t.which[m]]
           ba == [t.balance EXCEPT ![m] = t.balance[d], ![d] = t.balance[m]]
           u  == Swapped(t, d, m)
<1>1. u = [root |-> t.root, child |-> ch, parent |-> pa, which |-> wh, balance |-> ba]
  BY Zenon DEF Swapped
<1>2. /\ t.root \in MaybeNode /\ t.child \in [Nodes -> [Child -> MaybeNode]] /\ t.parent \in [Nodes -> MaybeNode]
      /\ t.which \in [Nodes -> Child] /\ t.balance \in [Nodes -> Int]
  BY DEF Trees
<1>3. d \in MaybeNode
  BY DEF MaybeNode
<1>4. /\ ch \in [Nodes -> [Child -> MaybeNode]]
      /\ \A x \in Nodes, f \in Child :
            ch[x][f] = IF x = d THEN t.child[m][f]
                       ELSE IF x = m THEN (IF t.child[d][f] = m THEN d ELSE t.child[d][f]) ELSE t.child[x][f]
  <2>1. [e \in Child |-> IF t.child[d][e] = m THEN d ELSE t.child[d][e]] \in [Child -> MaybeNode]
    BY <1>2, <1>3
  <2>2. t.child[m] \in [Child -> MaybeNode]
    BY <1>2
  <2>3. ch \in [Nodes -> [Child -> MaybeNode]]
    BY <1>2, <2>1, <2>2
  <2>4. \A x \in Nodes : ch[x] = IF x = d THEN t.child[m]
                                 ELSE IF x = m THEN [e \in Child |-> IF t.child[d][e] = m THEN d ELSE t.child[d][e]]
                                 ELSE t.child[x]
    BY <1>2
  <2> HIDE DEF ch
  <2> QED BY <2>3, <2>4
<1>5. /\ pa \in [Nodes -> MaybeNode] /\ wh \in [Nodes -> Child] /\ ba \in [Nodes -> Int]
      /\ \A x \in Nodes : pa[x] = IF x = d THEN t.parent[m] ELSE t.parent[x]
      /\ \A x \in Nodes : wh[x] = IF x = d THEN t.which[m] ELSE t.which[x]
      /\ \A x \in Nodes : ba[x] = IF x = d THEN t.balance[m] ELSE IF x = m THEN t.balance[d] ELSE t.balance[x]
  BY <1>2
<1> HIDE DEF ch, pa, wh, ba, u
<1>6. u \in Trees
  BY <1>1, <1>2, <1>4, <1>5 DEF Trees
<1>7. u.root = t.root /\ u.child = ch /\ u.parent = pa /\ u.which = wh /\ u.balance = ba
  BY <1>1
<1>8. SwappedTo(t, d, m, u)
  BY <1>4, <1>5, <1>6, <1>7 DEF SwappedTo
<1> QED BY <1>8 DEF u

\* The five links of an exchange.
Relinked(t, d, m, X) ==
    \E t0, t1, t2, t3, t4, k :
        /\ SwappedTo(t, d, m, t0)
        /\ Hung(t0, t.parent[d], t.which[d], m, t1)
        /\ Hung(t1, m, 0, t1.child[m][0], t2)
        /\ Hung(t2, m, 1, t2.child[m][1], t3)
        /\ Hung(t3, t3.parent[d], t3.which[d], d, t4)
        /\ k = (IF t4.child[d][1] # Null THEN 1 ELSE 0)
        /\ Hung(t4, d, k, t4.child[d][k], X)

\* Exchanged when m is known.
ExchangedWith(t, d, m) ==
    LET moved == Hang(Swapped(t, d, m), t.parent[d], t.which[d], m)
        under == Entered(Adopted(Adopted(moved, m, 0), m, 1), d)
    IN  Adopted(under, d, IF under.child[d][1] # Null THEN 1 ELSE 0)

\* Exchanged makes them.
LEMMA ExchangedLinks ==
    ASSUME NEW t \in Trees, NEW d \in Nodes, NEW m \in Nodes, d # m,
           NEW s, s = (IF t.balance[d] > 0 THEN 1 ELSE 0), m = Extreme(t, t.child[d][s], 1 - s)
    PROVE  Relinked(t, d, m, Exchanged(t, d))
<1> DEFINE t0 == Swapped(t, d, m)
           t1 == Hang(t0, t.parent[d], t.which[d], m)
           t2 == Hang(t1, m, 0, t1.child[m][0])
           t3 == Hang(t2, m, 1, t2.child[m][1])
           t4 == Hang(t3, t3.parent[d], t3.which[d], d)
           k  == IF t4.child[d][1] # Null THEN 1 ELSE 0
           t5 == Hang(t4, d, k, t4.child[d][k])
<1>1. Exchanged(t, d) = t5
  <2>1. Exchanged(t, d) =
            ExchangedWith(t, d, Extreme(t, t.child[d][IF t.balance[d] > 0 THEN 1 ELSE 0],
                                        1 - (IF t.balance[d] > 0 THEN 1 ELSE 0)))
    BY Zenon DEF Exchanged, ExchangedWith
  <2>2. Exchanged(t, d) = ExchangedWith(t, d, m)
    BY <2>1, Zenon
  <2>3. ExchangedWith(t, d, m) = t5
    <3>1. Adopted(t1, m, 0) = t2 /\ Adopted(t2, m, 1) = t3 /\ Entered(t3, d) = t4 /\ Adopted(t4, d, k) = t5
      <4>1. Adopted(t1, m, 0) = t2
        <5> HIDE DEF t1
        <5> QED BY DEF Adopted
      <4>2. Adopted(t2, m, 1) = t3
        <5> HIDE DEF t2
        <5> QED BY DEF Adopted
      <4>3. Entered(t3, d) = t4
        <5> HIDE DEF t3
        <5> QED BY DEF Entered
      <4>4. Adopted(t4, d, k) = t5
        <5> HIDE DEF t4, k
        <5> QED BY DEF Adopted
      <4> HIDE DEF t1, t2, t3, t4, t5, k
      <4> QED BY <4>1, <4>2, <4>3, <4>4
    <3>2. ExchangedWith(t, d, m) = Adopted(Entered(Adopted(Adopted(t1, m, 0), m, 1), d), d,
                                    IF Entered(Adopted(Adopted(t1, m, 0), m, 1), d).child[d][1] # Null THEN 1 ELSE 0)
      BY Zenon DEF ExchangedWith
    <3>3. k = (IF t4.child[d][1] # Null THEN 1 ELSE 0)
      OBVIOUS
    <3> HIDE DEF t1, t2, t3, t4, t5, k
    <3>4. Entered(Adopted(Adopted(t1, m, 0), m, 1), d) = t4
      BY <3>1
    <3>5. ExchangedWith(t, d, m) = Adopted(t4, d, IF t4.child[d][1] # Null THEN 1 ELSE 0)
      BY <3>2, <3>4
    <3> QED BY <3>1, <3>3, <3>5
  <2> HIDE DEF t5
  <2> QED BY <2>2, <2>3, Zenon
<1>2. /\ 0 \in Child /\ 1 \in Child /\ d \in MaybeNode /\ m \in MaybeNode
      /\ \A v \in Trees, x \in Nodes : /\ v.parent[x] \in MaybeNode /\ v.which[x] \in Child
                                       /\ \A f \in Child : v.child[x][f] \in MaybeNode
  BY DEF Child, MaybeNode, Trees
<1>3. SwappedTo(t, d, m, t0) /\ t0 \in Trees
  <2>1. SwappedTo(t, d, m, Swapped(t, d, m))
    BY SwappedIs
  <2> QED BY <2>1 DEF SwappedTo
<1>4. Hung(t0, t.parent[d], t.which[d], m, t1) /\ t1 \in Trees
  <2> HIDE DEF t0
  <2>1. Hung(t0, t.parent[d], t.which[d], m, Hang(t0, t.parent[d], t.which[d], m))
    BY <1>2, <1>3, HangHangs
  <2> QED BY <2>1 DEF Hung
<1>5. Hung(t1, m, 0, t1.child[m][0], t2) /\ t2 \in Trees
  <2> HIDE DEF t1
  <2>1. Hung(t1, m, 0, t1.child[m][0], Hang(t1, m, 0, t1.child[m][0]))
    BY <1>2, <1>4, HangHangs
  <2> QED BY <2>1 DEF Hung
<1>6. Hung(t2, m, 1, t2.child[m][1], t3) /\ t3 \in Trees
  <2> HIDE DEF t2
  <2>1. Hung(t2, m, 1, t2.child[m][1], Hang(t2, m, 1, t2.child[m][1]))
    BY <1>2, <1>5, HangHangs
  <2> QED BY <2>1 DEF Hung
<1>7. Hung(t3, t3.parent[d], t3.which[d], d, t4) /\ t4 \in Trees
  <2> HIDE DEF t3
  <2>1. Hung(t3, t3.parent[d], t3.which[d], d, Hang(t3, t3.parent[d], t3.which[d], d))
    BY <1>2, <1>6, HangHangs
  <2> QED BY <2>1 DEF Hung
<1>8. Hung(t4, d, k, t4.child[d][k], t5)
  <2> HIDE DEF t4
  <2>1. k \in Child
    BY <1>2
  <2> HIDE DEF k
  <2> QED BY <1>2, <1>7, <2>1, HangHangs
<1>9. k = (IF t4.child[d][1] # Null THEN 1 ELSE 0)
  OBVIOUS
<1> HIDE DEF t0, t1, t2, t3, t4, k, t5
<1>10. Relinked(t, d, m, t5)
  BY <1>3, <1>4, <1>5, <1>6, <1>7, <1>8, <1>9, Zenon DEF Relinked
<1> QED BY <1>1, <1>10

\* d and m, and what is around them.
Swapping(t, S, d, m, k, pd, wd, pm, wm, a0, a1, g) ==
    /\ d \in Nodes /\ m \in Nodes /\ d # m /\ d # Null /\ m # Null /\ k \in Child
    /\ pd = t.parent[d] /\ wd = t.which[d] /\ pm = t.parent[m] /\ wm = t.which[m]
    /\ pd # m /\ pd # d /\ pm # m /\ pm # Null /\ wm \in Child /\ wd \in Child
    /\ pm \in Nodes /\ t.child[pm][wm] = m
    /\ a0 = (IF t.child[d][0] = m THEN d ELSE t.child[d][0]) /\ a1 = (IF t.child[d][1] = m THEN d ELSE t.child[d][1])
    /\ a0 # m /\ a1 # m
    /\ IF pm = d THEN (wm = 0 /\ a0 = d /\ a1 # d) \/ (wm = 1 /\ a1 = d /\ a0 # d)
                 ELSE a0 # d /\ a1 # d /\ t.child[d][0] # m /\ t.child[d][1] # m
    /\ g = t.child[m][k] /\ k = (IF t.child[m][1] # Null THEN 1 ELSE 0)
    /\ g # d /\ g # m

\* It is so.
LEMMA KinAround ==
    ASSUME NEW t, NEW S, TwoWay(t, S), NEW d, NEW m, NEW s, Kin(t, S, d, m, s),
           NEW k, k = (IF t.child[m][1] # Null THEN 1 ELSE 0), NEW pd, pd = t.parent[d], NEW wd, wd = t.which[d],
           NEW pm, pm = t.parent[m], NEW wm, wm = t.which[m],
           NEW a0, a0 = (IF t.child[d][0] = m THEN d ELSE t.child[d][0]),
           NEW a1, a1 = (IF t.child[d][1] = m THEN d ELSE t.child[d][1]),
           NEW g, g = t.child[m][k]
    PROVE  /\ Swapping(t, S, d, m, k, pd, wd, pm, wm, a0, a1, g)
           /\ t.child[m][0] = Null \/ t.child[m][1] = Null
           /\ t.child[m][0] # d /\ t.child[m][1] # d /\ t.child[m][0] # m /\ t.child[m][1] # m
<1>0. /\ d \in S /\ m \in S /\ d \in Nodes /\ m \in Nodes /\ d # m /\ d # Null /\ m # Null
      /\ pm # Null
  BY DEF Kin, TwoWay
<1>1. k \in Child /\ 0 \in Child /\ 1 \in Child /\ \A x \in Child : x = 0 \/ x = 1
  BY DEF Child
<1>2. /\ t.child[m][0] = Null \/ t.child[m][1] = Null
      /\ t.child[m][0] # d /\ t.child[m][1] # d
  BY <1>0 DEF Kin, Child
<1>3. \A n \in S : t.child[n][0] # n /\ t.child[n][1] # n
  BY <1>1 DEF TwoWay
<1>4. pm \in S /\ pm # m /\ wm \in Child /\ t.child[pm][wm] = m
  BY <1>0 DEF TwoWay
<1>5. wd \in Child
  BY <1>0 DEF TwoWay, Trees
<1>6. pd = Null \/ (pd \in S /\ pd # d /\ wd \in Child /\ t.child[pd][wd] = d)
  BY <1>0 DEF TwoWay
<1>7. pd # m /\ pd # d
  BY <1>0, <1>1, <1>2, <1>6
<1>8. \A f \in Child : t.child[d][f] = m => pm = d /\ wm = f
  BY <1>0 DEF TwoWay
<1>9. a0 # m /\ a1 # m
  BY <1>0
<1>10. IF pm = d THEN (wm = 0 /\ a0 = d /\ a1 # d) \/ (wm = 1 /\ a1 = d /\ a0 # d)
                 ELSE a0 # d /\ a1 # d /\ t.child[d][0] # m /\ t.child[d][1] # m
  <2>1. CASE pm = d /\ wm = 0
    <3>1. t.child[d][0] = m /\ t.child[d][1] # m
      BY <1>1, <1>4, <1>8, <2>1
    <3> QED BY <1>0, <1>3, <2>1, <3>1
  <2>2. CASE pm = d /\ wm = 1
    <3>1. t.child[d][1] = m /\ t.child[d][0] # m
      BY <1>1, <1>4, <1>8, <2>2
    <3> QED BY <1>0, <1>3, <2>2, <3>1
  <2>3. CASE pm # d
    BY <1>0, <1>1, <1>3, <1>8, <2>3
  <2> QED BY <1>1, <1>4, <2>1, <2>2, <2>3
<1>11. g # d /\ g # m /\ t.child[m][0] # m /\ t.child[m][1] # m
  BY <1>0, <1>1, <1>2, <1>3
<1>12. pm \in Nodes
  BY <1>4 DEF TwoWay
<1>13. Swapping(t, S, d, m, k, pd, wd, pm, wm, a0, a1, g)
  BY <1>0, <1>1, <1>4, <1>5, <1>7, <1>9, <1>10, <1>11, <1>12, Zenon DEF Swapping
<1> QED BY <1>2, <1>11, <1>13

\* u is t after the exchange.
Exchange(t, d, m, k, pd, wd, pm, wm, a0, a1, g, u) ==
    /\ u \in Trees
    /\ u.root = IF pd = Null THEN m ELSE t.root
    /\ \A x \in Nodes, f \in Child :
          u.child[x][f] = IF x = (IF pm = d THEN m ELSE pm) /\ f = wm THEN d
                          ELSE IF x = pd /\ f = wd THEN m
                          ELSE IF x = d THEN t.child[m][f]
                          ELSE IF x = m THEN (IF t.child[d][f] = m THEN d ELSE t.child[d][f])
                          ELSE t.child[x][f]
    /\ \A x \in Nodes : u.parent[x] = IF x = g THEN d ELSE IF x = a0 \/ x = a1 THEN m
                                      ELSE IF x = m THEN pd ELSE IF x = d THEN pm ELSE t.parent[x]
    /\ \A x \in Nodes : u.which[x] = IF x = g THEN k ELSE IF x = a1 THEN 1 ELSE IF x = a0 THEN 0
                                     ELSE IF x = m THEN wd ELSE IF x = d THEN wm ELSE t.which[x]
    /\ \A x \in Nodes : u.balance[x] = IF x = d THEN t.balance[m] ELSE IF x = m THEN t.balance[d] ELSE t.balance[x]

\* What the five links do.
LEMMA RelinkedIs ==
    ASSUME NEW t, NEW S, NEW d, NEW m, NEW k, NEW pd, NEW wd, NEW pm, NEW wm, NEW a0, NEW a1, NEW g,
           Swapping(t, S, d, m, k, pd, wd, pm, wm, a0, a1, g), NEW X, Relinked(t, d, m, X)
    PROVE  Exchange(t, d, m, k, pd, wd, pm, wm, a0, a1, g, X)
<1>0. PICK p4 : p4 = IF pm = d THEN m ELSE pm
  OBVIOUS
<1>1. PICK t0, t1, t2, t3, t4, j :
        /\ SwappedTo(t, d, m, t0)
        /\ Hung(t0, t.parent[d], t.which[d], m, t1)
        /\ Hung(t1, m, 0, t1.child[m][0], t2)
        /\ Hung(t2, m, 1, t2.child[m][1], t3)
        /\ Hung(t3, t3.parent[d], t3.which[d], d, t4)
        /\ j = (IF t4.child[d][1] # Null THEN 1 ELSE 0)
        /\ Hung(t4, d, j, t4.child[d][j], X)
  BY Zenon DEF Relinked
<1>2. /\ d \in Nodes /\ m \in Nodes /\ d # m /\ d # Null /\ m # Null /\ k \in Child
      /\ pd = t.parent[d] /\ wd = t.which[d] /\ pm = t.parent[m] /\ wm = t.which[m]
      /\ pd # m /\ pd # d /\ pm # m /\ pm # Null /\ wm \in Child /\ wd \in Child
      /\ a0 = (IF t.child[d][0] = m THEN d ELSE t.child[d][0]) /\ a1 = (IF t.child[d][1] = m THEN d ELSE t.child[d][1])
      /\ a0 # m /\ a1 # m
      /\ IF pm = d THEN (wm = 0 /\ a0 = d /\ a1 # d) \/ (wm = 1 /\ a1 = d /\ a0 # d)
                   ELSE a0 # d /\ a1 # d /\ t.child[d][0] # m /\ t.child[d][1] # m
      /\ g = t.child[m][k] /\ k = (IF t.child[m][1] # Null THEN 1 ELSE 0)
      /\ g # d /\ g # m
  BY Zenon DEF Swapping
<1>3. 0 \in Child /\ 1 \in Child /\ (\A x \in Child : x = 0 \/ x = 1) /\ p4 # d
  BY <1>0, <1>2 DEF Child
<1>4. /\ t0.root = t.root
      /\ \A x \in Nodes, f \in Child :
            t0.child[x][f] = IF x = d THEN t.child[m][f]
                             ELSE IF x = m THEN (IF t.child[d][f] = m THEN d ELSE t.child[d][f]) ELSE t.child[x][f]
      /\ \A x \in Nodes : t0.parent[x] = IF x = d THEN pm ELSE t.parent[x]
      /\ \A x \in Nodes : t0.which[x] = IF x = d THEN wm ELSE t.which[x]
      /\ \A x \in Nodes : t0.balance[x] = IF x = d THEN t.balance[m] ELSE IF x = m THEN t.balance[d] ELSE t.balance[x]
  BY <1>1, <1>2 DEF SwappedTo
<1>5. /\ t1.root = IF pd = Null THEN m ELSE t.root
      /\ \A x \in Nodes, f \in Child : t1.child[x][f] = IF x = pd /\ f = wd THEN m ELSE t0.child[x][f]
      /\ \A x \in Nodes : t1.parent[x] = IF x = m THEN pd ELSE IF x = d THEN pm ELSE t.parent[x]
      /\ \A x \in Nodes : t1.which[x] = IF x = m THEN wd ELSE IF x = d THEN wm ELSE t.which[x]
      /\ \A x \in Nodes : t1.balance[x] = t0.balance[x]
      /\ t1.child[m][0] = a0 /\ t1.child[m][1] = a1
      /\ \A f \in Child : t1.child[d][f] = t.child[m][f]
  <2>1. Hung(t0, pd, wd, m, t1)
    BY <1>1, <1>2
  <2>2. /\ t1.root = IF pd = Null THEN m ELSE t0.root
        /\ \A x \in Nodes, f \in Child : t1.child[x][f] = IF x = pd /\ f = wd THEN m ELSE t0.child[x][f]
        /\ \A x \in Nodes : t1.parent[x] = IF x = m THEN pd ELSE t0.parent[x]
        /\ \A x \in Nodes : t1.which[x] = IF x = m THEN wd ELSE t0.which[x]
        /\ \A x \in Nodes : t1.balance[x] = t0.balance[x]
    BY <2>1, Zenon DEF Hung
  <2>3. t1.child[m][0] = a0 /\ t1.child[m][1] = a1
    BY <1>2, <1>3, <1>4, <2>2
  <2>4. \A f \in Child : t1.child[d][f] = t.child[m][f]
    BY <1>2, <1>3, <1>4, <2>2
  <2> QED BY <1>4, <2>2, <2>3, <2>4
<1>6. /\ t2.root = t1.root
      /\ \A x \in Nodes, f \in Child : t2.child[x][f] = t1.child[x][f]
      /\ \A x \in Nodes : t2.parent[x] = IF x = a0 THEN m ELSE t1.parent[x]
      /\ \A x \in Nodes : t2.which[x] = IF x = a0 THEN 0 ELSE t1.which[x]
      /\ \A x \in Nodes : t2.balance[x] = t1.balance[x]
  <2>1. Hung(t1, m, 0, a0, t2)
    BY <1>1, <1>5
  <2> QED BY <1>2, <1>5, <2>1 DEF Hung
<1>7. /\ t3.root = t1.root
      /\ \A x \in Nodes, f \in Child : t3.child[x][f] = t1.child[x][f]
      /\ \A x \in Nodes : t3.parent[x] = IF x = a1 \/ x = a0 THEN m ELSE t1.parent[x]
      /\ \A x \in Nodes : t3.which[x] = IF x = a1 THEN 1 ELSE IF x = a0 THEN 0 ELSE t1.which[x]
      /\ \A x \in Nodes : t3.balance[x] = t1.balance[x]
  <2>1. t2.child[m][1] = a1
    BY <1>2, <1>3, <1>5, <1>6, Zenon
  <2>2. Hung(t2, m, 1, a1, t3)
    BY <1>1, <2>1
  <2>3. /\ t3.root = IF m = Null THEN a1 ELSE t2.root
        /\ \A x \in Nodes, f \in Child : t3.child[x][f] = IF x = m /\ f = 1 THEN a1 ELSE t2.child[x][f]
        /\ \A x \in Nodes : t3.parent[x] = IF x = a1 THEN m ELSE t2.parent[x]
        /\ \A x \in Nodes : t3.which[x] = IF x = a1 THEN 1 ELSE t2.which[x]
        /\ \A x \in Nodes : t3.balance[x] = t2.balance[x]
    BY <2>2, Zenon DEF Hung
  <2> QED BY <1>2, <1>6, <2>1, <2>3
<1>8. t3.parent[d] = p4 /\ t3.which[d] = wm /\ p4 # Null
  BY <1>0, <1>2, <1>3, <1>5, <1>7
<1>9. /\ t4.root = t1.root
      /\ \A x \in Nodes, f \in Child : t4.child[x][f] = IF x = p4 /\ f = wm THEN d ELSE t1.child[x][f]
      /\ \A x \in Nodes : t4.parent[x] = t3.parent[x]
      /\ \A x \in Nodes : t4.which[x] = t3.which[x]
      /\ \A x \in Nodes : t4.balance[x] = t1.balance[x]
  <2>1. Hung(t3, p4, wm, d, t4)
    BY <1>1, <1>8
  <2> QED BY <1>2, <1>7, <1>8, <2>1 DEF Hung
<1>10. j = k /\ t4.child[d][j] = g
  <2>1. \A f \in Child : t4.child[d][f] = t.child[m][f]
    BY <1>2, <1>3, <1>5, <1>9
  <2> QED BY <1>1, <1>2, <1>3, <2>1
<1>11. /\ X \in Trees
       /\ X.root = t1.root
       /\ \A x \in Nodes, f \in Child : X.child[x][f] = t4.child[x][f]
       /\ \A x \in Nodes : X.parent[x] = IF x = g THEN d ELSE t4.parent[x]
       /\ \A x \in Nodes : X.which[x] = IF x = g THEN k ELSE t4.which[x]
       /\ \A x \in Nodes : X.balance[x] = t4.balance[x]
  <2>1. Hung(t4, d, k, g, X)
    BY <1>1, <1>10
  <2>2. t4.child[d][k] = g
    BY <1>10
  <2>3. /\ X \in Trees
        /\ X.root = IF d = Null THEN g ELSE t4.root
        /\ \A x \in Nodes, f \in Child : X.child[x][f] = IF x = d /\ f = k THEN g ELSE t4.child[x][f]
        /\ \A x \in Nodes : X.parent[x] = IF x = g THEN d ELSE t4.parent[x]
        /\ \A x \in Nodes : X.which[x] = IF x = g THEN k ELSE t4.which[x]
        /\ \A x \in Nodes : X.balance[x] = t4.balance[x]
    BY <2>1, Zenon DEF Hung
  <2>4. X.root = t1.root
    BY <1>2, <1>9, <2>3
  <2>5. \A x \in Nodes, f \in Child : X.child[x][f] = t4.child[x][f]
    BY <2>2, <2>3
  <2> QED BY <2>3, <2>4, <2>5
<1>12. \A x \in Nodes, f \in Child :
           X.child[x][f] = IF x = p4 /\ f = wm THEN d
                           ELSE IF x = pd /\ f = wd THEN m
                           ELSE IF x = d THEN t.child[m][f]
                           ELSE IF x = m THEN (IF t.child[d][f] = m THEN d ELSE t.child[d][f])
                           ELSE t.child[x][f]
  BY <1>4, <1>5, <1>9, <1>11
<1>13. \A x \in Nodes : X.parent[x] = IF x = g THEN d ELSE IF x = a0 \/ x = a1 THEN m
                                      ELSE IF x = m THEN pd ELSE IF x = d THEN pm ELSE t.parent[x]
  BY <1>5, <1>7, <1>9, <1>11
<1>14. \A x \in Nodes : X.which[x] = IF x = g THEN k ELSE IF x = a1 THEN 1 ELSE IF x = a0 THEN 0
                                     ELSE IF x = m THEN wd ELSE IF x = d THEN wm ELSE t.which[x]
  BY <1>5, <1>7, <1>9, <1>11
<1>15. \A x \in Nodes : X.balance[x] = IF x = d THEN t.balance[m] ELSE IF x = m THEN t.balance[d] ELSE t.balance[x]
  BY <1>4, <1>5, <1>9, <1>11
<1>16. X.root = IF pd = Null THEN m ELSE t.root
  BY <1>5, <1>11
<1> QED BY <1>0, <1>11, <1>12, <1>13, <1>14, <1>15, <1>16 DEF Exchange

\* The names of d and m are exchanged.
Swap(S, d, m) == [n \in S |-> IF n = d THEN m ELSE IF n = m THEN d ELSE n]

\* An exchange gives d the name m, and m the name d.
LEMMA ExchangeRelabels ==
    ASSUME NEW t, NEW S, TwoWay(t, S), NEW d, NEW m, NEW s, Kin(t, S, d, m, s), NEW X, Relinked(t, d, m, X)
    PROVE  Relabelled(t, S, Swap(S, d, m), X)
<1>0. PICK k : k = IF t.child[m][1] # Null THEN 1 ELSE 0
  OBVIOUS
<1>1. PICK pd, wd, pm, wm, a0, a1, g :
        /\ pd = t.parent[d] /\ wd = t.which[d] /\ pm = t.parent[m] /\ wm = t.which[m]
        /\ a0 = (IF t.child[d][0] = m THEN d ELSE t.child[d][0])
        /\ a1 = (IF t.child[d][1] = m THEN d ELSE t.child[d][1])
        /\ g = t.child[m][k]
  OBVIOUS
<1>2. /\ Swapping(t, S, d, m, k, pd, wd, pm, wm, a0, a1, g)
      /\ t.child[m][0] = Null \/ t.child[m][1] = Null
      /\ t.child[m][0] # d /\ t.child[m][1] # d /\ t.child[m][0] # m /\ t.child[m][1] # m
  BY <1>0, <1>1, KinAround
<1>3. Exchange(t, d, m, k, pd, wd, pm, wm, a0, a1, g, X)
  BY <1>2, RelinkedIs
<1>4. /\ d \in Nodes /\ m \in Nodes /\ d # m /\ d # Null /\ m # Null /\ k \in Child
      /\ pd # m /\ pd # d /\ pm # m /\ pm # Null /\ wm \in Child /\ wd \in Child
      /\ a0 # m /\ a1 # m
      /\ IF pm = d THEN (wm = 0 /\ a0 = d /\ a1 # d) \/ (wm = 1 /\ a1 = d /\ a0 # d)
                   ELSE a0 # d /\ a1 # d /\ t.child[d][0] # m /\ t.child[d][1] # m
      /\ g # d /\ g # m
  BY <1>2, Zenon DEF Swapping
<1>5. /\ X \in Trees
      /\ X.root = IF pd = Null THEN m ELSE t.root
      /\ \A x \in Nodes, f \in Child :
            X.child[x][f] = IF x = (IF pm = d THEN m ELSE pm) /\ f = wm THEN d
                            ELSE IF x = pd /\ f = wd THEN m
                            ELSE IF x = d THEN t.child[m][f]
                            ELSE IF x = m THEN (IF t.child[d][f] = m THEN d ELSE t.child[d][f])
                            ELSE t.child[x][f]
      /\ \A x \in Nodes : X.parent[x] = IF x = g THEN d ELSE IF x = a0 \/ x = a1 THEN m
                                        ELSE IF x = m THEN pd ELSE IF x = d THEN pm ELSE t.parent[x]
      /\ \A x \in Nodes : X.which[x] = IF x = g THEN k ELSE IF x = a1 THEN 1 ELSE IF x = a0 THEN 0
                                       ELSE IF x = m THEN wd ELSE IF x = d THEN wm ELSE t.which[x]
      /\ \A x \in Nodes : X.balance[x] = IF x = d THEN t.balance[m] ELSE IF x = m THEN t.balance[d] ELSE t.balance[x]
  BY <1>3, Zenon DEF Exchange
<1>6. 0 \in Child /\ 1 \in Child /\ (\A x \in Child : x = 0 \/ x = 1)
  BY DEF Child
<1>7. d \in S /\ m \in S /\ S \subseteq Nodes /\ Null \notin S
  BY DEF Kin, TwoWay
<1>8. /\ t.root = Null \/ (t.root \in S /\ t.parent[t.root] = Null)
      /\ \A n \in S, f \in Child :
          t.child[n][f] # Null => /\ t.child[n][f] \in S /\ t.child[n][f] # n
                                  /\ t.parent[t.child[n][f]] = n /\ t.which[t.child[n][f]] = f
      /\ \A n \in S : \/ t.parent[n] = Null /\ n = t.root
                      \/ /\ t.parent[n] # Null /\ t.parent[n] \in S /\ t.parent[n] # n /\ t.which[n] \in Child
                         /\ t.child[t.parent[n]][t.which[n]] = n /\ n # t.root
  BY Zenon DEF TwoWay
<1>9. PICK name : name = Swap(S, d, m)
  OBVIOUS
<1>10. /\ \A n \in S : name[n] = IF n = d THEN m ELSE IF n = m THEN d ELSE n
       /\ \A x \in S \cup {Null} : NewName(name, x) = IF x = d THEN m ELSE IF x = m THEN d ELSE x
  <2>1. \A n \in S : name[n] = IF n = d THEN m ELSE IF n = m THEN d ELSE n
    BY <1>9 DEF Swap
  <2> QED BY <1>4, <2>1 DEF NewName
<1>11. name[d] = m /\ name[m] = d
  BY <1>4, <1>7, <1>10
<1>12. X.root = NewName(name, t.root)
  <2>1. pd = Null <=> t.root = d
    BY <1>1, <1>4, <1>7, <1>8
  <2>2. t.root # m
    BY <1>1, <1>4, <1>7, <1>8
  <2> QED BY <1>5, <1>8, <1>10, <2>1, <2>2
<1>13. \A n \in S : name[n] \in Nodes
  BY <1>4, <1>7, <1>10
<1>14. Injective(S, name)
  BY <1>10 DEF Injective
<1>15. ASSUME NEW n \in S, NEW f \in Child
       PROVE  X.child[name[n]][f] = NewName(name, t.child[n][f])
  <2>1. t.child[n][f] \in S \cup {Null} /\ t.child[n][f] # n
    BY <1>7, <1>8
  <2>2. CASE n = d
    <3>1. t.child[d][f] = m => pm = d /\ wm = f
      BY <1>1, <1>4, <1>7, <1>8
    <3>2. t.child[pm][wm] = m
      BY <1>1, <1>4, <1>7, <1>8
    <3>3. X.child[m][f] = IF t.child[d][f] = m THEN d ELSE t.child[d][f]
      BY <1>4, <1>5, <3>1, <3>2
    <3> QED BY <1>10, <1>11, <2>1, <2>2, <3>3
  <2>3. CASE n = m
    <3>1. t.child[m][f] # d /\ t.child[m][f] # m
      BY <1>2, <1>6
    <3>2. X.child[d][f] = t.child[m][f]
      BY <1>4, <1>5
    <3> QED BY <1>10, <1>11, <2>1, <2>3, <3>1, <3>2
  <2>4. CASE n # d /\ n # m
    <3>1. t.child[n][f] = m <=> n = pm /\ f = wm
      BY <1>1, <1>4, <1>7, <1>8
    <3>2. t.child[n][f] = d <=> n = pd /\ f = wd
      BY <1>1, <1>4, <1>7, <1>8
    <3>3. name[n] = n /\ n \in Nodes
      BY <1>7, <1>10, <2>4
    <3>4. X.child[n][f] = IF n = pm /\ f = wm THEN d ELSE IF n = pd /\ f = wd THEN m ELSE t.child[n][f]
      BY <1>5, <2>4, <3>3
    <3> QED BY <1>4, <1>10, <2>1, <3>1, <3>2, <3>3, <3>4
  <2> QED BY <2>2, <2>3, <2>4
<1>16. ASSUME NEW n \in S
       PROVE  X.parent[name[n]] = NewName(name, t.parent[n]) /\ X.which[name[n]] = t.which[n]
  <2>1. t.parent[n] \in S \cup {Null} /\ t.parent[n] # n
    BY <1>7, <1>8
  <2>2. CASE n = d
    <3>1. X.parent[m] = pd /\ X.which[m] = wd
      BY <1>4, <1>5
    <3> QED BY <1>1, <1>4, <1>10, <1>11, <2>1, <2>2, <3>1
  <2>3. CASE n = m
    <3>1. X.parent[d] = (IF pm = d THEN m ELSE pm) /\ X.which[d] = wm
      BY <1>4, <1>5
    <3> QED BY <1>1, <1>4, <1>10, <1>11, <2>1, <2>3, <3>1
  <2>4. CASE n # d /\ n # m
    <3>1. n = g <=> t.parent[n] = m
      <4>1. ASSUME n = g
            PROVE  t.parent[n] = m
        BY <1>1, <1>4, <1>7, <1>8, <4>1
      <4>2. ASSUME t.parent[n] = m
            PROVE  n = g
        <5>1. t.child[m][t.which[n]] = n /\ t.which[n] \in Child /\ n # Null
          BY <1>4, <1>7, <1>8, <4>2
        <5> QED BY <1>0, <1>1, <1>2, <1>6, <5>1
      <4> QED BY <4>1, <4>2
    <3>2. n = g => t.which[n] = k
      BY <1>1, <1>4, <1>7, <1>8
    <3>3. /\ n = a0 => t.parent[n] = d /\ t.which[n] = 0
          /\ n = a1 => t.parent[n] = d /\ t.which[n] = 1
      BY <1>1, <1>6, <1>7, <1>8, <2>4
    <3>4. t.parent[n] = d => n = a0 \/ n = a1
      <4>1. ASSUME t.parent[n] = d
            PROVE  n = a0 \/ n = a1
        <5>1. t.child[d][t.which[n]] = n /\ t.which[n] \in Child
          BY <1>4, <1>7, <1>8, <4>1
        <5> QED BY <1>1, <1>6, <2>4, <5>1
      <4> QED BY <4>1
    <3>5. name[n] = n /\ n \in Nodes
      BY <1>7, <1>10, <2>4
    <3>6. /\ X.parent[n] = IF n = g THEN d ELSE IF n = a0 \/ n = a1 THEN m ELSE t.parent[n]
          /\ X.which[n] = IF n = g THEN k ELSE IF n = a1 THEN 1 ELSE IF n = a0 THEN 0 ELSE t.which[n]
      BY <1>5, <2>4, <3>5
    <3>7. X.parent[n] = NewName(name, t.parent[n])
      BY <1>4, <1>10, <2>1, <3>1, <3>3, <3>4, <3>6
    <3>8. X.which[n] = t.which[n]
      BY <3>2, <3>3, <3>6
    <3> QED BY <3>5, <3>7, <3>8
  <2> QED BY <2>2, <2>3, <2>4
<1>17. \A n \in S : X.balance[name[n]] = t.balance[n]
  BY <1>4, <1>5, <1>7, <1>10
<1>18. Relabelled(t, S, name, X)
  BY <1>5, <1>12, <1>13, <1>14, <1>15, <1>16, <1>17 DEF Relabelled
<1> QED BY <1>9, <1>18

\* Unlinking a node is the same under other names.
LEMMA GoneRelabels ==
    ASSUME NEW t, NEW S, TwoWay(t, S), NEW u \in S, NEW k, NEW c, NEW p, NEW w, Leaves(t, u, k, c, p, w), p # Null,
           NEW t1, Hung(t, p, w, c, t1), NEW swap, NEW X, Relabelled(t, S, swap, X), NEW d, d = swap[u],
           NEW X1, Hung(X, X.parent[d], X.which[d], NewName(swap, c), X1),
           NEW R, R = S \ {u}, NEW name, name = [n \in R |-> swap[n]]
    PROVE  Relabelled(t1, R, name, X1)
<1>1. /\ S \subseteq Nodes /\ Null \notin S
      /\ t.root = Null \/ (t.root \in S /\ t.parent[t.root] = Null)
      /\ \A n \in S, f \in Child :
          t.child[n][f] # Null => /\ t.child[n][f] \in S /\ t.child[n][f] # n
                                  /\ t.parent[t.child[n][f]] = n /\ t.which[t.child[n][f]] = f
      /\ \A n \in S : \/ t.parent[n] = Null /\ n = t.root
                      \/ /\ t.parent[n] # Null /\ t.parent[n] \in S /\ t.parent[n] # n /\ t.which[n] \in Child
                         /\ t.child[t.parent[n]][t.which[n]] = n /\ n # t.root
  BY Zenon DEF TwoWay
<1>2. /\ k \in Child /\ 1 - k \in Child /\ (\A f \in Child : f = k \/ f = 1 - k) /\ t.child[u][k] = Null
      /\ c = t.child[u][1 - k] /\ p = t.parent[u] /\ w = t.which[u]
  BY Sides DEF Leaves
<1>3. p \in R /\ p # u /\ w \in Child /\ t.child[p][w] = u /\ u # t.root
  BY <1>1, <1>2
<1>4. c = Null \/ (c \in R /\ c # u)
  BY <1>1, <1>2
<1>5. /\ X.root = NewName(swap, t.root)
      /\ \A n \in S : swap[n] \in Nodes
      /\ \A x, y \in S : swap[x] = swap[y] => x = y
      /\ \A n \in S, f \in Child : X.child[swap[n]][f] = NewName(swap, t.child[n][f])
      /\ \A n \in S : /\ X.parent[swap[n]] = NewName(swap, t.parent[n])
                      /\ X.which[swap[n]] = t.which[n] /\ X.balance[swap[n]] = t.balance[n]
  BY Zenon DEF Relabelled, Injective
<1>6. \A n \in R : name[n] = swap[n] /\ n \in S /\ n # u
  OBVIOUS
<1>7. \A n \in R \cup {Null} : NewName(name, n) = NewName(swap, n)
  BY <1>6 DEF NewName
<1>8. X.parent[d] = swap[p] /\ X.which[d] = w /\ p # Null /\ NewName(swap, p) = swap[p]
  BY <1>1, <1>2, <1>3, <1>5 DEF NewName
<1>9. /\ t1.root = t.root
      /\ \A n \in Nodes, f \in Child : t1.child[n][f] = IF n = p /\ f = w THEN c ELSE t.child[n][f]
      /\ \A n \in Nodes : t1.parent[n] = IF n = c THEN p ELSE t.parent[n]
      /\ \A n \in Nodes : t1.which[n] = IF n = c THEN w ELSE t.which[n]
      /\ \A n \in Nodes : t1.balance[n] = t.balance[n]
  BY Zenon DEF Hung
<1>10. swap[p] \in Nodes /\ swap[p] # Null
  BY <1>3, <1>5, <1>6, Sides
<1>11. /\ X1 \in Trees
       /\ X1.root = X.root
       /\ \A n \in Nodes, f \in Child :
              X1.child[n][f] = IF n = swap[p] /\ f = w THEN NewName(swap, c) ELSE X.child[n][f]
       /\ \A n \in Nodes : X1.parent[n] = IF n = NewName(swap, c) THEN swap[p] ELSE X.parent[n]
       /\ \A n \in Nodes : X1.which[n] = IF n = NewName(swap, c) THEN w ELSE X.which[n]
       /\ \A n \in Nodes : X1.balance[n] = X.balance[n]
  <2>1. Hung(X, swap[p], w, NewName(swap, c), X1)
    BY <1>8
  <2> QED BY <1>10, <2>1, Zenon DEF Hung
<1>12. X1.root = NewName(name, t1.root)
  <2>1. t.root \in R \cup {Null}
    BY <1>1, <1>3
  <2>2. NewName(name, t.root) = NewName(swap, t.root)
    BY <1>7, <2>1
  <2> QED BY <1>5, <1>9, <1>11, <2>2
<1>13. \A n \in R : name[n] \in Nodes
  BY <1>5, <1>6
<1>14. Injective(R, name)
  BY <1>5, <1>6 DEF Injective
<1>15. ASSUME NEW n \in R, NEW f \in Child
       PROVE  X1.child[name[n]][f] = NewName(name, t1.child[n][f])
  <2>1. n \in S /\ n \in Nodes /\ name[n] = swap[n] /\ swap[n] \in Nodes
    BY <1>1, <1>5, <1>6
  <2>2. CASE n = p /\ f = w
    <3>1. t1.child[n][f] = c /\ X1.child[swap[n]][f] = NewName(swap, c)
      BY <1>9, <1>11, <2>1, <2>2
    <3> QED BY <1>4, <1>7, <2>1, <3>1
  <2>3. CASE ~(n = p /\ f = w)
    <3>1. t1.child[n][f] = t.child[n][f]
      BY <1>9, <2>1, <2>3
    <3>2. swap[n] = swap[p] => n = p
      BY <1>3, <1>5, <1>6, <2>1
    <3>3. X1.child[swap[n]][f] = NewName(swap, t.child[n][f])
      BY <1>5, <1>11, <2>1, <2>3, <3>2
    <3>4. t.child[n][f] \in R \cup {Null}
      BY <1>1, <1>2, <2>1, <2>3
    <3> QED BY <1>7, <2>1, <3>1, <3>3, <3>4
  <2> QED BY <2>2, <2>3
<1>16. ASSUME NEW n \in R
       PROVE  /\ X1.parent[name[n]] = NewName(name, t1.parent[n])
              /\ X1.which[name[n]] = t1.which[n] /\ X1.balance[name[n]] = t1.balance[n]
  <2>1. n \in S /\ n \in Nodes /\ name[n] = swap[n] /\ swap[n] \in Nodes /\ n # u /\ n # Null /\ swap[n] # Null
    BY <1>1, <1>5, <1>6, Sides
  <2>2. swap[n] = NewName(swap, c) <=> n = c
    BY <1>4, <1>5, <1>6, <2>1 DEF NewName
  <2>3. CASE n = c
    <3>1. t1.parent[n] = p /\ t1.which[n] = w /\ X1.parent[swap[n]] = swap[p] /\ X1.which[swap[n]] = w
      BY <1>9, <1>11, <2>1, <2>2, <2>3
    <3>2. NewName(name, p) = swap[p]
      BY <1>3, <1>7, <1>8
    <3> QED BY <1>5, <1>9, <1>11, <2>1, <3>1, <3>2
  <2>4. CASE n # c
    <3>1. t1.parent[n] = t.parent[n] /\ t1.which[n] = t.which[n]
      BY <1>9, <2>1, <2>4
    <3>2. X1.parent[swap[n]] = NewName(swap, t.parent[n]) /\ X1.which[swap[n]] = t.which[n]
      BY <1>5, <1>11, <2>1, <2>2, <2>4
    <3>3. t.parent[n] \in R \cup {Null}
      BY <1>1, <1>2, <2>1, <2>4
    <3>4. NewName(name, t.parent[n]) = NewName(swap, t.parent[n])
      BY <1>7, <3>3
    <3>5. X1.balance[swap[n]] = t.balance[n] /\ t1.balance[n] = t.balance[n]
      BY <1>5, <1>9, <1>11, <2>1
    <3> QED BY <2>1, <3>1, <3>2, <3>4, <3>5
  <2> QED BY <2>3, <2>4
<1> QED BY <1>11, <1>12, <1>13, <1>14, <1>15, <1>16 DEF Relabelled

-----------------------------------------------------------------------------
(* Removing a node.                                                         *)

\* The child that takes the place of d, and d unlinked.
Only1(x, d)  == IF x.child[d][0] # Null THEN x.child[d][0] ELSE x.child[d][1]
Taken(x, d)  == Hang(x, x.parent[d], x.which[d], Only1(x, d))

\* Without d the tree x is in order, but for what is above.
Lacks(x, N, d) ==
    /\ x.parent[d] \in 0..N /\ x.parent[d] # d /\ x.which[d] \in Child
    /\ \E h2 : Sound(Taken(x, d), 1..N \ {d}, Without(NextTo, d), h2, Waits(x.parent[d], x.which[d], -1))

\* A node with one child at most is unlinked as it is.
LEMMA TakenPlain ==
    ASSUME NEW t, NEW N \in Nat, N <= MaxNodes, NEW h, NEW q, Formed(t, 1..N, NextTo, h, q), q.at = Null,
           NEW d \in 1..N, Null \in {t.child[d][0], t.child[d][1]}
    PROVE  Lacks(t, N, d)
<1>1. PICK S : S = 1..N
  OBVIOUS
<1>2. PICK b : b = NextTo
  OBVIOUS
<1>3. PICK e : Shape(t, S, b, e)
  BY <1>1, <1>2 DEF Formed
<1>4. t \in Trees /\ Level(t, S, h, q) /\ Sound(t, S, b, h, q) /\ Tight(S, b)
  BY <1>1, <1>2, TightAll DEF Formed, Sound
<1>5. d \in S /\ d \in Nodes /\ 0 \in Child /\ 1 \in Child /\ S \subseteq Nodes
  BY <1>1, <1>3 DEF Shape, Child
<1>6. PICK k, c, p, w : /\ k = (IF t.child[d][0] = Null THEN 0 ELSE 1)
                        /\ c = Only1(t, d) /\ p = t.parent[d] /\ w = t.which[d]
  OBVIOUS
<1>7. Leaves(t, d, k, c, p, w)
  <2>1. CASE t.child[d][0] = Null
    <3>1. k = 0 /\ c = t.child[d][1]
      BY <1>6, <2>1 DEF Only1
    <3> QED BY <1>5, <1>6, <2>1, <3>1 DEF Leaves
  <2>2. CASE t.child[d][0] # Null
    <3>1. k = 1 /\ c = t.child[d][0] /\ t.child[d][1] = Null
      BY <1>6, <2>2 DEF Only1
    <3> QED BY <1>5, <1>6, <2>2, <3>1 DEF Leaves
  <2> QED BY <2>1, <2>2
<1>8. p \in MaybeNode /\ w \in Child /\ c \in MaybeNode
  BY <1>4, <1>5, <1>6 DEF Trees, Only1
<1>9. Hung(t, p, w, c, Hang(t, p, w, c)) /\ Taken(t, d) = Hang(t, p, w, c)
  BY <1>4, <1>6, <1>8, HangHangs DEF Taken
<1>10. PICK t1 : t1 = Taken(t, d)
  OBVIOUS
<1>11. Hung(t, p, w, c, t1)
  BY <1>9, <1>10
<1>12. Sound(t1, S \ {d}, Without(b, d), h, Waits(p, w, -1))
  BY <1>4, <1>5, <1>7, <1>11, GoneSound
<1>13. p \in S \cup {Null} /\ p # d
  BY <1>3, <1>4, <1>5, <1>6, ShapeTwoWay DEF TwoWay
<1>14. p \in 0..N
  BY <1>1, <1>13 DEF Null
<1> QED BY <1>1, <1>2, <1>6, <1>8, <1>10, <1>12, <1>13, <1>14 DEF Lacks

\* A node with two children changes places first.
LEMMA TakenExchanged ==
    ASSUME NEW t, NEW N \in Nat, N <= MaxNodes, NEW h, NEW q, Formed(t, 1..N, NextTo, h, q), q.at = Null,
           NEW d \in 1..N, Null \notin {t.child[d][0], t.child[d][1]}
    PROVE  Lacks(Exchanged(t, d), N, d)
<1>1. PICK S : S = 1..N
  OBVIOUS
<1>2. PICK b : b = NextTo
  OBVIOUS
<1>3. PICK e : Shape(t, S, b, e)
  BY <1>1, <1>2 DEF Formed
<1>4. t \in Trees /\ Level(t, S, h, q) /\ Sound(t, S, b, h, q) /\ Tight(S, b) /\ Clear(t, S)
  BY <1>1, <1>2, TightAll DEF Formed, Sound
<1>5. d \in S /\ d \in Nodes /\ 0 \in Child /\ 1 \in Child /\ S \subseteq Nodes
  BY <1>1, <1>3 DEF Shape, Child
<1>6. TwoWay(t, S)
  BY <1>3, <1>4, ShapeTwoWay
<1>7. PICK s : s = IF t.balance[d] > 0 THEN 1 ELSE 0
  OBVIOUS
<1>8. PICK m : m = Extreme(t, t.child[d][s], 1 - s)
  OBVIOUS
<1>9. s \in Child /\ t.child[d][s] # Null
  BY <1>5, <1>7
<1>10. Kin(t, S, d, m, s) /\ m = b[d][s]
  BY <1>3, <1>4, <1>5, <1>8, <1>9, NeighbourKin
<1>11. /\ m \in S /\ m \in Nodes /\ d # m /\ t.parent[m] # Null
       /\ m = d + 1 \/ m = d - 1
  <2>1. m = IF s = 0 THEN d - 1 ELSE d + 1
    BY <1>2, <1>5, <1>9, <1>10, NextToIs
  <2> QED BY <1>5, <1>10, <2>1 DEF Kin
<1>12. PICK X : X = Exchanged(t, d)
  OBVIOUS
<1>13. Relinked(t, d, m, X)
  BY <1>4, <1>5, <1>7, <1>8, <1>11, <1>12, ExchangedLinks
<1>14. PICK swap : swap = Swap(S, d, m)
  OBVIOUS
<1>15. Relabelled(t, S, swap, X)
  BY <1>6, <1>10, <1>13, <1>14, ExchangeRelabels
<1>16. PICK k, c, p, w : k = 1 - s /\ c = t.child[m][s] /\ p = t.parent[m] /\ w = t.which[m]
  OBVIOUS
<1>17. Leaves(t, m, k, c, p, w) /\ p # Null
  BY <1>9, <1>10, <1>11, <1>16, Sides DEF Leaves, Kin
<1>18. p \in MaybeNode /\ w \in Child /\ c \in MaybeNode
  BY <1>4, <1>9, <1>11, <1>16 DEF Trees
<1>19. PICK t1 : t1 = Hang(t, p, w, c)
  OBVIOUS
<1>20. Hung(t, p, w, c, t1)
  BY <1>4, <1>18, <1>19, HangHangs
<1>21. PICK R : R = S \ {m}
  OBVIOUS
<1>22. Sound(t1, R, Without(b, m), h, Waits(p, w, -1))
  BY <1>4, <1>11, <1>17, <1>20, <1>21, GoneSound
<1>23. swap[m] = d /\ swap[d] = m
  BY <1>5, <1>11, <1>14 DEF Swap
<1>24. /\ c \in S \cup {Null} /\ p \in S /\ p # m /\ p # Null
       /\ t.child[m][1 - s] = Null
  BY <1>6, <1>9, <1>10, <1>11, <1>16 DEF TwoWay, Kin
<1>25. Only1(X, d) = NewName(swap, c)
  <2>1. /\ X.child[d][0] = NewName(swap, t.child[m][0]) /\ X.child[d][1] = NewName(swap, t.child[m][1])
        /\ \A x \in S : swap[x] # Null
    BY <1>5, <1>11, <1>15, <1>23, Sides DEF Relabelled
  <2>2. t.child[m][0] \in S \cup {Null} /\ t.child[m][1] \in S \cup {Null}
    BY <1>5, <1>6, <1>11 DEF TwoWay
  <2>3. CASE s = 0
    <3>1. c = t.child[m][0] /\ t.child[m][1] = Null
      BY <1>16, <1>24, <2>3
    <3> QED BY <2>1, <2>2, <3>1 DEF Only1, NewName
  <2>4. CASE s = 1
    <3>1. c = t.child[m][1] /\ t.child[m][0] = Null
      BY <1>16, <1>24, <2>4
    <3> QED BY <2>1, <2>2, <3>1 DEF Only1, NewName
  <2> QED BY <1>9, <2>3, <2>4 DEF Child
<1>26. X.parent[d] = NewName(swap, p) /\ X.which[d] = w /\ X \in Trees
  BY <1>11, <1>15, <1>16, <1>23 DEF Relabelled
<1>27. PICK X1 : X1 = Taken(X, d)
  OBVIOUS
<1>28. Hung(X, X.parent[d], X.which[d], NewName(swap, c), X1)
  <2>1. X.parent[d] \in MaybeNode /\ X.which[d] \in Child /\ Only1(X, d) \in MaybeNode
    BY <1>5, <1>26 DEF Trees, Only1
  <2>2. Hung(X, X.parent[d], X.which[d], Only1(X, d), Hang(X, X.parent[d], X.which[d], Only1(X, d)))
    BY <1>26, <2>1, HangHangs
  <2>3. X1 = Hang(X, X.parent[d], X.which[d], Only1(X, d))
    BY <1>27 DEF Taken
  <2> QED BY <1>25, <2>2, <2>3
<1>29. PICK name : name = [n \in R |-> IF n = d THEN m ELSE n]
  OBVIOUS
<1>30. name = [n \in R |-> swap[n]]
  <2>1. \A n \in R : swap[n] = IF n = d THEN m ELSE n
    BY <1>14, <1>21 DEF Swap
  <2> QED BY <1>29, <2>1
<1>31. Relabelled(t1, R, name, X1)
  BY <1>6, <1>11, <1>15, <1>17, <1>20, <1>21, <1>23, <1>28, <1>30, GoneRelabels
<1>32. PICK S2 : S2 = S \ {d}
  OBVIOUS
<1>33. InOrder(R, Without(b, m), name, S2, Without(b, d))
  BY <1>1, <1>2, <1>11, <1>21, <1>29, <1>32, SwapNames
<1>34. p \in R /\ NewName(name, p) = NewName(swap, p)
  <2>1. p \in R
    BY <1>21, <1>24
  <2>2. name[p] = swap[p]
    BY <1>30, <2>1
  <2> QED BY <2>1, <2>2 DEF NewName
<1>35. PICK q1, q2 : q1 = Waits(p, w, -1) /\ q2 = Waits(X.parent[d], X.which[d], -1)
  OBVIOUS
<1>36. DueMoved(name, q1, q2) /\ q1.at = p
  BY <1>26, <1>34, <1>35 DEF DueMoved, Waits
<1>37. \E h2 : Sound(X1, S2, Without(b, d), h2, q2)
  BY <1>22, <1>31, <1>33, <1>34, <1>35, <1>36, RelabelSound
<1>38. X.parent[d] \in 0..N /\ X.parent[d] # d /\ X.which[d] \in Child
  <2>1. name[p] = IF p = d THEN m ELSE p
    BY <1>29, <1>34
  <2>2. X.parent[d] = IF p = d THEN m ELSE p
    BY <1>24, <1>26, <1>34, <2>1 DEF NewName
  <2> QED BY <1>1, <1>11, <1>18, <1>24, <1>26, <2>2
<1> QED BY <1>1, <1>2, <1>12, <1>27, <1>32, <1>35, <1>37, <1>38 DEF Lacks

\* The tree x without d, and the place p under the new names at which it is now shorter.
Unlinked(x, N, d, u, p, w) ==
    \E name : /\ name = [n \in 1..N \ {d} |-> IF n < d THEN n ELSE n - 1]
              /\ w = x.which[d] /\ p = NewName(name, x.parent[d])
              /\ u = Renamed(Taken(x, d), name)

\* u has M nodes in order, but for what is shorter at side w of p.
Shortened(u, M, p, w) ==
    /\ p \in 0..M /\ w \in Child
    /\ \E h2 : Formed(u, 1..M, NextTo, h2, Waits(p, w, -1))

\* The others are in order.
LEMMA UnlinkForms ==
    ASSUME NEW x, NEW N \in Nat, N <= MaxNodes, NEW d \in 1..N, Lacks(x, N, d),
           NEW u, NEW p, NEW w, Unlinked(x, N, d, u, p, w)
    PROVE  Shortened(u, N - 1, p, w)
<1>1. PICK S, S2, b : S = 1..N \ {d} /\ S2 = 1..(N - 1) /\ b = Without(NextTo, d)
  OBVIOUS
<1>2. PICK t1, q, p0 : t1 = Taken(x, d) /\ p0 = x.parent[d] /\ q = Waits(p0, x.which[d], -1)
  OBVIOUS
<1>3. PICK h : Sound(t1, S, b, h, q)
  BY <1>1, <1>2 DEF Lacks
<1>4. p0 \in S \cup {Null} /\ q.at = p0 /\ x.which[d] \in Child
  BY <1>1, <1>2 DEF Lacks, Waits, Null
<1>5. PICK name : /\ name = [n \in 1..N \ {d} |-> IF n < d THEN n ELSE n - 1]
                  /\ w = x.which[d] /\ p = NewName(name, p0) /\ u = Renamed(t1, name)
  BY <1>2 DEF Unlinked
<1>6. name \in [S -> Nodes] /\ Injective(S, name) /\ InOrder(S, b, name, S2, NextTo)
  <2>1. name = [n \in S |-> IF n < d THEN n ELSE n - 1] /\ S = 1..N \ {d}
    BY <1>1, <1>5
  <2>2. /\ name \in [S -> Nodes] /\ Injective(S, name)
        /\ InOrder(S, Without(NextTo, d), name, 1..(N - 1), NextTo)
    BY <2>1, CloseNames
  <2> QED BY <1>1, <2>2
<1>7. t1 \in Trees /\ S \subseteq Nodes /\ Closed(t1, S)
  <2>1. PICK e : Shape(t1, S, b, e)
    BY <1>3 DEF Sound
  <2> QED BY <1>3, <2>1, ShapeClosed DEF Sound, Shape
<1>8. S2 = {name[n] : n \in S}
  BY <1>6 DEF InOrder
<1>9. Relabelled(t1, S, name, u) /\ Blanks(u, S2)
  <2>1. u = Renamed(t1, name)
    BY <1>5
  <2>2. name \in [S -> Nodes] /\ Injective(S, name)
    BY <1>6
  <2>3. Relabelled(t1, S, name, u) /\ Blanks(u, {name[n] : n \in S})
    BY <1>7, <2>1, <2>2, RenamedRelabels
  <2> QED BY <1>8, <2>3
<1>10. PICK q2 : q2 = Waits(p, w, -1)
  OBVIOUS
<1>11. DueMoved(name, q, q2)
  BY <1>2, <1>5, <1>10 DEF DueMoved, Waits
<1>12. PICK h2 : Sound(u, S2, NextTo, h2, q2)
  BY <1>3, <1>4, <1>6, <1>9, <1>11, RelabelSound
<1>13. Clear(u, S2)
  BY <1>9 DEF Blanks, Clear
<1>14. Formed(u, S2, NextTo, h2, q2)
  BY <1>12, <1>13 DEF Sound, Formed
<1>15. p \in 0..(N - 1)
  <2>1. CASE p0 = Null
    BY <1>5, <2>1 DEF NewName, Null
  <2>2. CASE p0 # Null
    <3>1. p = name[p0] /\ p0 \in S
      BY <1>4, <1>5, <2>2 DEF NewName
    <3>2. p \in S2
      BY <1>8, <3>1
    <3> QED BY <1>1, <3>2
  <2> QED BY <2>1, <2>2
<1> QED BY <1>1, <1>4, <1>5, <1>10, <1>14, <1>15 DEF Shortened

\* avl_remove up to its loop.
LEMMA UnlinkKeeps ==
    ASSUME AvlInv, op.pc = "idle", NEW d \in 1..numnodes, NEW again \in 0..numnodes, Unlink(d, again)
    PROVE  AvlInv'
<1>1. /\ numnodes \in Nat /\ numnodes <= MaxNodes /\ Doing(op, numnodes)
      /\ \E h : Formed(tree, 1..numnodes, NextTo, h, Owed(op))
  BY DEF AvlInv, Standing
<1>2. PICK N, t, u : N = numnodes /\ t = tree /\ u = tree'
  OBVIOUS
<1> DEFINE x0 == IF Null \in {tree.child[d][0], tree.child[d][1]} THEN tree ELSE Exchanged(tree, d)
           c0 == IF x0.child[d][0] # Null THEN x0.child[d][0] ELSE x0.child[d][1]
           p0 == x0.parent[d]
           nm == [n \in 1..numnodes \ {d} |-> IF n < d THEN n ELSE n - 1]
<1>3. /\ tree' = Renamed(Hang(x0, p0, x0.which[d], c0), nm)
      /\ numnodes' = numnodes - 1
      /\ op' = IF p0 = Null THEN Removed(again)
               ELSE [pc |-> "remove", at |-> nm[p0], side |-> x0.which[d], again |-> again]
  BY Zenon DEF Unlink
<1>4. x0 = IF Null \in {tree.child[d][0], tree.child[d][1]} THEN tree ELSE Exchanged(tree, d)
  OBVIOUS
<1>5. /\ Hang(x0, p0, x0.which[d], c0) = Taken(x0, d) /\ p0 = x0.parent[d]
      /\ nm = [n \in 1..numnodes \ {d} |-> IF n < d THEN n ELSE n - 1]
  <2> HIDE DEF x0
  <2> QED BY DEF Taken, Only1
<1> HIDE DEF x0, c0, p0, nm
<1>6. PICK x, name, p, w : x = x0 /\ name = nm /\ p = NewName(name, x.parent[d]) /\ w = x.which[d]
  OBVIOUS
<1>7. /\ u = Renamed(Taken(x, d), name)
      /\ name = [n \in 1..N \ {d} |-> IF n < d THEN n ELSE n - 1]
  BY <1>2, <1>3, <1>5, <1>6
<1>8. Unlinked(x, N, d, u, p, w)
  BY <1>6, <1>7, Zenon DEF Unlinked
<1>9. PICK h, q : Formed(t, 1..N, NextTo, h, q) /\ q.at = Null
  <2>1. Owed(op).at = Null
    BY <1>1 DEF Owed, Waits, Doing
  <2> QED BY <1>1, <1>2, <2>1
<1>10. N \in Nat /\ N <= MaxNodes /\ d \in 1..N /\ again \in 0..N
  BY <1>1, <1>2
<1>11. Lacks(x, N, d)
  <2>1. CASE Null \in {t.child[d][0], t.child[d][1]}
    <3>1. x = t
      BY <1>2, <1>4, <1>6, <2>1
    <3>2. Lacks(t, N, d)
      BY <1>9, <1>10, <2>1, TakenPlain
    <3> QED BY <3>1, <3>2
  <2>2. CASE Null \notin {t.child[d][0], t.child[d][1]}
    <3>1. x = Exchanged(t, d)
      BY <1>2, <1>4, <1>6, <2>2
    <3>2. Lacks(Exchanged(t, d), N, d)
      BY <1>9, <1>10, <2>2, TakenExchanged
    <3> QED BY <3>1, <3>2
  <2> QED BY <2>1, <2>2
<1>12. PICK M : M = N - 1
  OBVIOUS
<1>13. Shortened(u, M, p, w)
  BY <1>8, <1>10, <1>11, <1>12, UnlinkForms
<1>14. PICK h2 : p \in 0..M /\ w \in Child /\ Formed(u, 1..M, NextTo, h2, Waits(p, w, -1))
  BY <1>13 DEF Shortened
<1>15. M \in Nat /\ M <= MaxNodes /\ again \in 0..(M + 1)
  BY <1>10, <1>12, NodesAssumption
<1>16. PICK o : o = op'
  OBVIOUS
<1>17. o = IF x.parent[d] = Null THEN Removed(again) ELSE [pc |-> "remove", at |-> p, side |-> w, again |-> again]
  <2>1. p0 = x.parent[d] /\ w = x0.which[d]
    BY <1>5, <1>6
  <2>2. p0 # Null => nm[p0] = p
    BY <1>6, <2>1 DEF NewName
  <2> QED BY <1>3, <1>16, <2>1, <2>2
<1>18. x.parent[d] = Null <=> p = Null
  <2>1. x.parent[d] \in 0..N /\ x.parent[d] # d
    BY <1>11 DEF Lacks
  <2>2. ASSUME x.parent[d] # Null
        PROVE  p # Null
    <3>1. PICK y : y = x.parent[d]
      OBVIOUS
    <3>2. y \in 1..N \ {d} /\ p = name[y]
      BY <1>6, <2>1, <2>2, <3>1 DEF NewName, Null
    <3>3. p = IF y < d THEN y ELSE y - 1
      BY <1>7, <3>2
    <3> QED BY <1>10, <3>2, <3>3 DEF Null
  <2>3. x.parent[d] = Null => p = Null
    BY <1>6 DEF NewName
  <2> QED BY <2>2, <2>3
<1>19. Doing(o, M) /\ Takes(o, p, w, -1) /\ Uneven(u, h2, o)
  <2>1. CASE p = Null
    <3>1. o = Removed(again)
      BY <1>17, <1>18, <2>1
    <3>2. Doing(o, M) /\ o.at = Null
      BY <1>15, <3>1, Ended
    <3> QED BY <2>1, <3>2 DEF Takes, Uneven
  <2>2. CASE p # Null
    <3>1. o = [pc |-> "remove", at |-> p, side |-> w, again |-> again]
      BY <1>17, <1>18, <2>2
    <3>2. o.pc = "remove" /\ o.at = p /\ o.side = w /\ o.again = again /\ Fields(o)
      BY <3>1 DEF Fields
    <3>3. Doing(o, M)
      BY <1>14, <1>15, <2>2, <3>2 DEF Doing
    <3>4. Takes(o, p, w, -1) /\ Uneven(u, h2, o)
      BY <3>2 DEF Takes, Uneven, Change
    <3> QED BY <3>3, <3>4
  <2> QED BY <2>1, <2>2
<1>20. Standing(u, M, o)
  BY <1>14, <1>15, <1>19, GoesOn
<1>21. Standing(tree', numnodes', op') /\ Fields(op')
  <2>1. M = numnodes'
    BY <1>2, <1>3, <1>12
  <2>2. Fields(o)
    BY <1>19 DEF Doing
  <2> QED BY <1>2, <1>16, <1>20, <2>1, <2>2
<1> QED BY <1>21 DEF AvlInv

\* avl_remove.
LEMMA RemoveKeeps ==
    ASSUME AvlInv, NEW d \in 1..numnodes, AvlRemove(d)
    PROVE  AvlInv'
<1>1. op.pc = "idle" /\ Unlink(d, 0)
  BY Zenon DEF AvlRemove, In
<1>2. 0 \in 0..numnodes
  BY <1>1 DEF AvlInv, Standing
<1> QED BY <1>1, <1>2, UnlinkKeeps

\* avl_update.
LEMMA UpdateKeeps ==
    ASSUME AvlInv, NEW d \in 1..numnodes, NEW k \in 1..(numnodes + 1), Update(d, Key(k) - 1)
    PROVE  AvlInv'
<1>1. PICK again : again = IF ((Key(k) - 1) + 1) \div 2 > d THEN ((Key(k) - 1) + 1) \div 2 - 1
                           ELSE ((Key(k) - 1) + 1) \div 2
  OBVIOUS
<1>2. op.pc = "idle" /\ Unlink(d, again)
  BY <1>1, Zenon DEF Update, In
<1>3. numnodes \in Nat
  BY <1>2 DEF AvlInv, Standing
<1>4. ((Key(k) - 1) + 1) \div 2 = k
  BY <1>3 DEF Key
<1>5. again \in 0..numnodes
  BY <1>1, <1>3, <1>4
<1> QED BY <1>2, <1>5, UnlinkKeeps

-----------------------------------------------------------------------------
(* The other steps.                                                         *)

\* A tree without nodes is in order.
LEMMA BlankStands == Standing(Blank, 0, Idle)
<1>1. Doing(Idle, 0) /\ Idle.pc = "idle"
  BY Ended
<1>2. Blank \in Trees
  <2>1. Leaf \in [Child -> MaybeNode]
    BY DEF Leaf, MaybeNode
  <2> QED BY <2>1 DEF Blank, Trees, MaybeNode, Child
<1>3. \A n \in Nodes : Blank.parent[n] = Null /\ \A d \in Child : Blank.child[n][d] = Null
  BY DEF Blank, Leaf
<1>4. PICK S, b, q, h : S = 1..0 /\ b = NextTo /\ q = Owed(Idle) /\ h = NextTo
  OBVIOUS
<1>5. S = {}
  BY <1>4
<1>6. Shape(Blank, S, b, h)
  <2>1. Blank.root = Null
    BY DEF Blank
  <2> QED BY <1>5, <2>1 DEF Shape, Near, Ends, Down, Upwards, Top
<1>7. Level(Blank, S, h, q) /\ Clear(Blank, S)
  BY <1>3, <1>5 DEF Level, Clear
<1>8. Formed(Blank, S, b, h, q)
  BY <1>2, <1>6, <1>7 DEF Formed
<1>9. Uneven(Blank, h, Idle)
  BY <1>1 DEF Uneven
<1>10. 0 \in Nat /\ 0 <= MaxNodes
  BY NodesAssumption
<1> QED BY <1>1, <1>4, <1>8, <1>9, <1>10 DEF Standing

\* avl_create.
LEMMA InitStands == Init => AvlInv
<1> SUFFICES ASSUME Init
             PROVE  AvlInv
  OBVIOUS
<1>1. tree = Blank /\ numnodes = 0 /\ op = Idle
  BY DEF Init
<1>2. Fields(Idle)
  BY Ended DEF Doing
<1> QED BY <1>1, <1>2, BlankStands DEF AvlInv

\* The end of avl_destroy_nodes.
LEMMA DestroyLastKeeps == DestroyLast => AvlInv'
<1> SUFFICES ASSUME DestroyLast
             PROVE  AvlInv'
  OBVIOUS
<1>1. tree' = Blank /\ numnodes' = 0 /\ op' = Idle
  BY DEF DestroyLast
<1>2. Fields(Idle)
  BY Ended DEF Doing
<1>3. Standing(tree', numnodes', op') /\ Fields(op')
  BY <1>1, <1>2, BlankStands
<1> QED BY <1>3 DEF AvlInv

\* The cookie moves.
Cookie(o, pc, at, side, u) ==
    \/ u = [o EXCEPT !.pc = pc, !.at = at, !.side = side]
    \/ u = [o EXCEPT !.at = at, !.side = side] /\ o.pc = pc

\* Setting the cookie keeps the fields of the operation what they are.
LEMMA CookieFields ==
    ASSUME NEW o, Fields(o), NEW pc, NEW at, NEW side, NEW u, Cookie(o, pc, at, side, u)
    PROVE  Fields(u) /\ u.pc = pc /\ u.at = at /\ u.side = side
<1> PICK x1, x2, x3, x4 : x1 = o.pc /\ x2 = o.at /\ x3 = o.side /\ x4 = o.again
  OBVIOUS
<1>1. o = [pc |-> x1, at |-> x2, side |-> x3, again |-> x4]
  BY Zenon DEF Fields
<1>2. PICK p, q : p = [o EXCEPT !.pc = pc, !.at = at, !.side = side] /\ q = [o EXCEPT !.at = at, !.side = side]
  OBVIOUS
<1>3. p = [pc |-> pc, at |-> at, side |-> side, again |-> x4]
  BY <1>1, <1>2
<1>4. q = [pc |-> x1, at |-> at, side |-> side, again |-> x4]
  BY <1>1, <1>2
<1>5. Fields(p) /\ p.pc = pc /\ p.at = at /\ p.side = side
  BY <1>3 DEF Fields
<1>6. Fields(q) /\ q.pc = o.pc /\ q.at = at /\ q.side = side
  BY <1>4 DEF Fields
<1>7. u = p \/ (u = q /\ o.pc = pc)
  BY <1>2, Zenon DEF Cookie
<1> QED BY <1>5, <1>6, <1>7, Zenon

\* While the tree is destroyed nothing is promised of it.
LEMMA DestroyKeeps ==
    ASSUME AvlInv, DestroyFirst \/ DestroyNext
    PROVE  AvlInv'
<1>1. Fields(op)
  BY DEF AvlInv
<1>2. ASSUME NEW n, HandOut(n)
      PROVE  Fields(op') /\ op'.pc = "destroy"
  <2> PICK m : m = IF tree'.child[n][1] # Null THEN tree'.child[n][1] ELSE n
    OBVIOUS
  <2>1. op' = [op EXCEPT !.pc = "destroy", !.at = tree'.parent[m],
                         !.side = IF tree'.parent[m] = Null THEN 1 ELSE tree'.which[m]]
    BY <1>2, Zenon DEF HandOut
  <2> PICK at, side : at = tree'.parent[m] /\ side = IF tree'.parent[m] = Null THEN 1 ELSE tree'.which[m]
    OBVIOUS
  <2>2. op' = [op EXCEPT !.pc = "destroy", !.at = at, !.side = side]
    BY <2>1, Zenon
  <2>3. Cookie(op, "destroy", at, side, op')
    BY <2>2, Zenon DEF Cookie
  <2> QED BY <1>1, <2>3, CookieFields
<1>3. CASE DestroyFirst
  BY <1>2, <1>3 DEF DestroyFirst, AvlInv
<1>4. CASE DestroyNext
  <2> PICK at, side : at = tree.parent[op.at]
                      /\ side = IF tree.parent[op.at] = Null THEN 1 ELSE tree.which[op.at]
    OBVIOUS
  <2>1. /\ op.pc = "destroy"
        /\ \/ op' = [op EXCEPT !.at = at, !.side = side]
           \/ HandOut(Extreme(tree', tree'.child[op.at][1], 0))
    BY <1>4, Zenon DEF DestroyNext, In
  <2>2. Fields(op') /\ op'.pc = "destroy"
    <3>2. CASE op' = [op EXCEPT !.at = at, !.side = side]
      <4>1. Cookie(op, "destroy", at, side, op')
        BY <2>1, <3>2, Zenon DEF Cookie
      <4> QED BY <1>1, <4>1, CookieFields
    <3>3. CASE HandOut(Extreme(tree', tree'.child[op.at][1], 0))
      BY <1>2, <3>3
    <3> QED BY <2>1, <3>2, <3>3
  <2> QED BY <2>2 DEF AvlInv
<1> QED BY <1>3, <1>4

\* avl_add in AVL_REINSERT.
LEMMA AddAgainKeeps == AvlInv /\ AddAgain => AvlInv'
<1> SUFFICES ASSUME AvlInv, AddAgain
             PROVE  AvlInv'
  OBVIOUS
<1>1. op.pc = "add" /\ LinkFound(op.again)
  BY DEF AddAgain, In
<1>2. op.again \in 1..(numnodes + 1)
  BY <1>1 DEF AvlInv, Standing, Doing
<1> QED BY <1>1, <1>2, InsertKeeps

\* avl_add.
LEMMA AddKeeps ==
    ASSUME AvlInv, NEW r \in 1..(numnodes + 1), Insert(r)
    PROVE  AvlInv'
<1>1. op.pc = "idle" /\ LinkFound(r)
  BY DEF Insert, In
<1> QED BY <1>1, InsertKeeps

\* The tree is in order whenever it is not being destroyed.
THEOREM Stands == Spec => []AvlInv
<1>1. Init => AvlInv
  BY InitStands
<1>2. AvlInv /\ [Next]_vars => AvlInv'
  <2> SUFFICES ASSUME AvlInv, [Next]_vars
               PROVE  AvlInv'
    OBVIOUS
  <2>1. ASSUME NEW r \in 1..(numnodes + 1), Insert(r)
        PROVE  AvlInv'
    BY <2>1, AddKeeps
  <2>2. ASSUME NEW h \in 1..numnodes, NEW d \in Child, InsertHere(h, d)
        PROVE  AvlInv'
    BY <2>2, InsertHereKeeps
  <2>3. CASE InsertLeaves
    BY <2>3, InsertLeavesKeeps
  <2>4. CASE InsertEven
    BY <2>4, InsertEvenKeeps
  <2>5. CASE InsertUp
    BY <2>5, InsertUpKeeps
  <2>6. CASE InsertRotate
    BY <2>6, InsertRotateKeeps
  <2>7. ASSUME NEW d \in 1..numnodes, AvlRemove(d)
        PROVE  AvlInv'
    BY <2>7, RemoveKeeps
  <2>8. ASSUME NEW d \in 1..numnodes, NEW k \in 1..(numnodes + 1), Update(d, Key(k) - 1)
        PROVE  AvlInv'
    BY <2>8, UpdateKeeps
  <2>9. CASE RemoveStops
    BY <2>9, RemoveStopsKeeps
  <2>10. CASE RemoveEven
    BY <2>10, RemoveEvenKeeps
  <2>11. CASE RemoveRotate
    BY <2>11, RemoveRotateKeeps
  <2>12. CASE AddAgain
    BY <2>12, AddAgainKeeps
  <2>13. CASE DestroyFirst
    BY <2>13, DestroyKeeps
  <2>14. CASE DestroyNext
    BY <2>14, DestroyKeeps
  <2>15. CASE DestroyLast
    BY <2>15, DestroyLastKeeps
  <2>16. CASE UNCHANGED vars
    BY <2>16 DEF AvlInv, vars
  <2> QED BY <2>1, <2>2, <2>3, <2>4, <2>5, <2>6, <2>7, <2>8, <2>9, <2>10, <2>11, <2>12, <2>13, <2>14, <2>15, <2>16
          DEF Next
<1> QED BY <1>1, <1>2, PTL DEF Spec

-----------------------------------------------------------------------------
(* What the invariant means.                                                *)

\* The turn of the recursion in Ordered.
SpanTurn(t, f) ==
    [n \in Nodes |-> [first |-> IF t.child[n][0] = Null THEN n ELSE f[t.child[n][0]].first,
                      last  |-> IF t.child[n][1] = Null THEN n ELSE f[t.child[n][1]].last]]

\* The records say how far a node reaches.
SpanRight(S, e, f) == \A m \in S : f[m].first = e[m][0] /\ f[m].last = e[m][1]

\* The recursion computes it.
LEMMA SpanIs ==
    ASSUME NEW t, NEW S, NEW b, NEW e, Shape(t, S, b, e), Clear(t, S)
    PROVE  SpanRight(S, e, Span(t))
<1>0. Null \notin S /\ S \subseteq Nodes /\ 0 \in Child /\ 1 \in Child
  BY Sides DEF Shape, Child
<1>1. \E f : f = SpanTurn(t, f)
  <2>1. PICK w : w = [m \in Nodes |-> IF m \in S THEN [first |-> e[m][0], last |-> e[m][1]]
                                             ELSE [first |-> m, last |-> m]]
    OBVIOUS
  <2>2. ASSUME NEW m \in Nodes
        PROVE  w[m] = [first |-> IF t.child[m][0] = Null THEN m ELSE w[t.child[m][0]].first,
                       last  |-> IF t.child[m][1] = Null THEN m ELSE w[t.child[m][1]].last]
    <3>1. CASE m \notin S
      BY <1>0, <2>1, <3>1 DEF Clear
    <3>2. CASE m \in S
      <4>1. w[m] = [first |-> e[m][0], last |-> e[m][1]]
        BY <2>1, <3>2
      <4>2. e[m][0] = IF t.child[m][0] = Null THEN m ELSE w[t.child[m][0]].first
        <5>1. CASE t.child[m][0] = Null
          <6>1. e[m][0] = m
            BY <1>0, <3>2, <5>1, NoneBelow
          <6> QED BY <5>1, <6>1
        <5>2. CASE t.child[m][0] # Null
          <6>1. t.child[m][0] \in S /\ e[t.child[m][0]][0] = e[m][0]
            BY <1>0, <3>2, <5>2, Below
          <6> QED BY <1>0, <2>1, <5>2, <6>1
        <5> QED BY <5>1, <5>2
      <4>3. e[m][1] = IF t.child[m][1] = Null THEN m ELSE w[t.child[m][1]].last
        <5>1. CASE t.child[m][1] = Null
          <6>1. e[m][1] = m
            BY <1>0, <3>2, <5>1, NoneBelow
          <6> QED BY <5>1, <6>1
        <5>2. CASE t.child[m][1] # Null
          <6>1. t.child[m][1] \in S /\ e[t.child[m][1]][1] = e[m][1]
            BY <1>0, <3>2, <5>2, Below
          <6> QED BY <1>0, <2>1, <5>2, <6>1
        <5> QED BY <5>1, <5>2
      <4> QED BY <4>1, <4>2, <4>3
    <3> QED BY <3>1, <3>2
  <2>3. w = SpanTurn(t, w)
    BY <2>1, <2>2 DEF SpanTurn
  <2> QED BY <2>3
<1>2. PICK span : span = Span(t)
  OBVIOUS
<1>3. span = SpanTurn(t, span)
  <2>1. Span(t) = CHOOSE f : f = SpanTurn(t, f)
    BY Zenon DEF Span, SpanTurn
  <2> QED BY <1>1, <1>2, <2>1, Zenon
<1>4. \A m \in S : /\ span[m].first = IF t.child[m][0] = Null THEN m ELSE span[t.child[m][0]].first
                   /\ span[m].last = IF t.child[m][1] = Null THEN m ELSE span[t.child[m][1]].last
  <2>1. ASSUME NEW m \in S
        PROVE  /\ span[m].first = IF t.child[m][0] = Null THEN m ELSE span[t.child[m][0]].first
               /\ span[m].last = IF t.child[m][1] = Null THEN m ELSE span[t.child[m][1]].last
    <3> PICK x, y : /\ x = IF t.child[m][0] = Null THEN m ELSE span[t.child[m][0]].first
                    /\ y = IF t.child[m][1] = Null THEN m ELSE span[t.child[m][1]].last
      OBVIOUS
    <3>1. SpanTurn(t, span)[m] = [first |-> x, last |-> y]
      BY <1>0 DEF SpanTurn
    <3>2. span[m] = [first |-> x, last |-> y]
      BY <1>3, <3>1, Zenon
    <3>3. span[m].first = x /\ span[m].last = y
      BY <3>2
    <3> QED BY <3>3, Zenon
  <2> QED BY <2>1, Zenon
<1>5. \A m \in S : span[m].first = e[m][0] /\ span[m].last = e[m][1]
  <2> DEFINE Bad == {m \in S : ~(span[m].first = e[m][0] /\ span[m].last = e[m][1])}
  <2> SUFFICES ASSUME Bad # {}
               PROVE  FALSE
    OBVIOUS
  <2>1. Bad \in SUBSET S
    OBVIOUS
  <2>2. PICK m \in Bad : \A k \in Child : t.child[m][k] \notin Bad
    <3> HIDE DEF Bad
    <3> QED BY <2>1, Lowest
  <2>3. m \in S
    OBVIOUS
  <2>4. span[m].first = e[m][0]
    <3>1. CASE t.child[m][0] = Null
      <4>1. e[m][0] = m
        BY <1>0, <2>3, <3>1, NoneBelow
      <4> QED BY <1>4, <2>3, <3>1, <4>1
    <3>2. CASE t.child[m][0] # Null
      <4>1. t.child[m][0] \in S /\ e[t.child[m][0]][0] = e[m][0]
        BY <1>0, <2>3, <3>2, Below
      <4>2. t.child[m][0] \notin Bad
        BY <1>0, <2>2
      <4> QED BY <1>4, <2>3, <3>2, <4>1, <4>2
    <3> QED BY <3>1, <3>2
  <2>5. span[m].last = e[m][1]
    <3>1. CASE t.child[m][1] = Null
      <4>1. e[m][1] = m
        BY <1>0, <2>3, <3>1, NoneBelow
      <4> QED BY <1>4, <2>3, <3>1, <4>1
    <3>2. CASE t.child[m][1] # Null
      <4>1. t.child[m][1] \in S /\ e[t.child[m][1]][1] = e[m][1]
        BY <1>0, <2>3, <3>2, Below
      <4>2. t.child[m][1] \notin Bad
        BY <1>0, <2>2
      <4> QED BY <1>4, <2>3, <3>2, <4>1, <4>2
    <3> QED BY <3>1, <3>2
  <2> QED BY <2>4, <2>5
<1> QED BY <1>2, <1>5 DEF SpanRight

\* What Ordered says of a tree, with the spans f.
EndAt(f, n) == IF n = Null THEN 0 ELSE f[n].last
\* What Ordered says, with f for the spans.
InOrderBy(t, N, f) ==
    /\ t.root # Null => t.parent[t.root] = Null
    /\ \A n \in 1..N, d \in Child :
          t.child[n][d] # Null =>
              t.child[n][d] \in 1..N /\ t.parent[t.child[n][d]] = n /\ t.which[t.child[n][d]] = d
    /\ EndAt(f, t.root) = N
    /\ N > 0 => f[t.root].first = 1
    /\ \A n \in 1..N : /\ t.child[n][0] # Null => EndAt(f, t.child[n][0]) = n - 1
                       /\ t.child[n][1] # Null => f[t.child[n][1]].first = n + 1

\* It is that.
LEMMA OrderedIs ==
    ASSUME op.pc # "destroy" => InOrderBy(tree, numnodes, Span(tree))
    PROVE  Ordered
<1>1. op.pc = "destroy" => In("destroy")
  BY DEF In
<1> QED BY <1>1 DEF Ordered, InOrderBy, EndAt, InTree

\* A tree of that shape is in order.
LEMMA ShapeOrdered ==
    ASSUME NEW t, NEW N \in Nat, NEW h, NEW q, Formed(t, 1..N, NextTo, h, q)
    PROVE  InOrderBy(t, N, Span(t))
<1>1. PICK S, b, f : S = 1..N /\ b = NextTo /\ f = Span(t)
  OBVIOUS
<1>2. PICK e : Shape(t, S, b, e) /\ Clear(t, S)
  BY <1>1 DEF Formed
<1>3. \A m \in S : f[m].first = e[m][0] /\ f[m].last = e[m][1]
  <2>1. SpanRight(S, e, f)
    BY <1>1, <1>2, SpanIs
  <2> QED BY <2>1 DEF SpanRight
<1>4. 0 \in Child /\ 1 \in Child
  BY DEF Child
<1>5. t.root # Null => t.parent[t.root] = Null
  BY <1>2 DEF Shape, Top
<1>6. ASSUME NEW n \in S, NEW d \in Child, t.child[n][d] # Null
      PROVE  t.child[n][d] \in S /\ t.parent[t.child[n][d]] = n /\ t.which[t.child[n][d]] = d
  BY <1>2, <1>6, Below
<1>7. \/ N = 0 /\ t.root = Null
      \/ N > 0 /\ t.root # Null /\ t.root \in S /\ e[t.root][0] = 1 /\ e[t.root][1] = N
  <2>1. Shape(t, 1..N, NextTo, e)
    BY <1>1, <1>2
  <2> QED BY <1>1, <2>1, RootSpan
<1>8. EndAt(f, t.root) = N /\ (N > 0 => f[t.root].first = 1)
  BY <1>3, <1>7 DEF EndAt
<1>9. ASSUME NEW n \in S
      PROVE  /\ t.child[n][0] # Null => EndAt(f, t.child[n][0]) = n - 1
             /\ t.child[n][1] # Null => f[t.child[n][1]].first = n + 1
  <2>1. b[n][0] = n - 1 /\ b[n][1] = n + 1
    <3>1. n \in Nodes
      BY <1>2 DEF Shape
    <3> QED BY <1>1, <1>4, <3>1, NextToIs
  <2>2. ASSUME t.child[n][0] # Null
        PROVE  t.child[n][0] \in S /\ e[t.child[n][0]][1] = b[n][0]
    <3>1. t.child[n][0] \in S /\ e[t.child[n][0]][1 - 0] = b[n][0]
      BY <1>2, <1>4, <2>2, Below
    <3> QED BY <3>1
  <2>3. ASSUME t.child[n][1] # Null
        PROVE  t.child[n][1] \in S /\ e[t.child[n][1]][0] = b[n][1]
    <3>1. t.child[n][1] \in S /\ e[t.child[n][1]][1 - 1] = b[n][1]
      BY <1>2, <1>4, <2>3, Below
    <3> QED BY <3>1
  <2> QED BY <1>3, <2>1, <2>2, <2>3 DEF EndAt
<1>10. InOrderBy(t, N, f)
  <2>1. \A n \in 1..N, d \in Child :
            t.child[n][d] # Null =>
                t.child[n][d] \in 1..N /\ t.parent[t.child[n][d]] = n /\ t.which[t.child[n][d]] = d
    BY <1>1, <1>6
  <2>2. \A n \in 1..N : /\ t.child[n][0] # Null => EndAt(f, t.child[n][0]) = n - 1
                        /\ t.child[n][1] # Null => f[t.child[n][1]].first = n + 1
    BY <1>1, <1>9
  <2> QED BY <1>5, <1>8, <2>1, <2>2 DEF InOrderBy
<1> QED BY <1>1, <1>10

\* The pointers agree with each other and the search order holds at every moment.
THEOREM Orders == Spec => []Ordered
<1>1. AvlInv => Ordered
  <2> SUFFICES ASSUME AvlInv, op.pc # "destroy"
               PROVE  InOrderBy(tree, numnodes, Span(tree))
    BY OrderedIs
  <2>1. numnodes \in Nat /\ \E h : Formed(tree, 1..numnodes, NextTo, h, Owed(op))
    BY DEF AvlInv, Standing
  <2> QED BY <2>1, ShapeOrdered
<1> QED BY <1>1, Stands, PTL

\* The height of side d of n, and the record of n, in Balanced: f has the records of the children.
SideBy(t, f, n, d) == (IF t.child[n][d] = Null THEN 0 ELSE f[t.child[n][d]].all) - Pending(n, d)
\* One turn of the heights, and the function it defines.
HeightBy(t, f, n) ==
    [diff |-> SideBy(t, f, n, 1) - SideBy(t, f, n, 0),
     all  |-> 1 + (IF SideBy(t, f, n, 0) > SideBy(t, f, n, 1) THEN SideBy(t, f, n, 0) ELSE SideBy(t, f, n, 1))]
HeightTurn(t, f) == [n \in Nodes |-> HeightBy(t, f, n)]

\* The recursion of Balanced.
LEMMA HeightsIs ==
    ASSUME NEW t
    PROVE  Heights(t) = CHOOSE f : f = HeightTurn(t, f)
BY Zenon DEF Heights, HeightTurn, HeightBy, SideBy

\* What is due is what Balanced waits for.
Awaits(S, q) == \A n \in S, d \in Child : Pending(n, d) = Due(q, n, d)

\* The records have the balance and the height.
HeightsRight(t, S, h, f) == \A n \in S : f[n].diff = t.balance[n] /\ f[n].all = h[n]

\* The recursion computes them.
LEMMA HeightsAre ==
    ASSUME NEW t, NEW S, NEW b, NEW e, Shape(t, S, b, e), Clear(t, S), NEW h, NEW q, Level(t, S, h, q), Awaits(S, q)
    PROVE  HeightsRight(t, S, h, Heights(t))
<1>0. Null \notin S /\ S \subseteq Nodes /\ 0 \in Child /\ 1 \in Child
  BY Sides DEF Shape, Child
<1>1. ASSUME NEW n \in S, NEW f, \A d \in Child : t.child[n][d] # Null => f[t.child[n][d]].all = h[t.child[n][d]]
      PROVE  HeightBy(t, f, n) = [diff |-> t.balance[n], all |-> h[n]]
  <2> PICK x, y : x = Side(t, h, q, n, 1) /\ y = Side(t, h, q, n, 0)
    OBVIOUS
  <2>1. SideBy(t, f, n, 1) = x /\ SideBy(t, f, n, 0) = y
    <3>1. ASSUME NEW d \in Child
          PROVE  SideBy(t, f, n, d) = Side(t, h, q, n, d)
      <4>1. Pending(n, d) = Due(q, n, d)
        BY DEF Awaits
      <4>2. High(t, h, n, d) = IF t.child[n][d] = Null THEN 0 ELSE f[t.child[n][d]].all
        BY <1>1 DEF High
      <4> QED BY <4>1, <4>2 DEF SideBy, Side
    <3> QED BY <1>0, <3>1
  <2>2. Poised(1, x, y, t.balance[n], h[n])
    <3>1. LevelAt(t, h, q, n, 1)
      BY <1>0 DEF Level
    <3>2. 1 - 1 = 0
      OBVIOUS
    <3> QED BY <3>1, <3>2 DEF LevelAt
  <2>3. t.balance[n] = x - y /\ h[n] = 1 + (IF y > x THEN y ELSE x)
    BY <2>2 DEF Poised, Higher
  <2> QED BY <2>1, <2>3 DEF HeightBy
<1>2. \E f : f = HeightTurn(t, f)
  <2>1. PICK w : w = [m \in Nodes |-> IF m \in S THEN [diff |-> t.balance[m], all |-> h[m]] ELSE HeightBy(t, h, m)]
    OBVIOUS
  <2>2. ASSUME NEW m \in Nodes
        PROVE  w[m] = HeightBy(t, w, m)
    <3>1. CASE m \notin S
      <4>1. t.child[m][0] = Null /\ t.child[m][1] = Null
        BY <1>0, <3>1 DEF Clear
      <4>2. SideBy(t, w, m, 0) = SideBy(t, h, m, 0) /\ SideBy(t, w, m, 1) = SideBy(t, h, m, 1)
        BY <4>1 DEF SideBy
      <4>3. HeightBy(t, w, m) = HeightBy(t, h, m)
        BY <4>2 DEF HeightBy
      <4> QED BY <2>1, <3>1, <4>3
    <3>2. CASE m \in S
      <4>1. ASSUME NEW d \in Child, t.child[m][d] # Null
            PROVE  w[t.child[m][d]].all = h[t.child[m][d]]
        <5>1. t.child[m][d] \in S
          BY <3>2, <4>1, Below
        <5> QED BY <1>0, <2>1, <5>1
      <4>2. HeightBy(t, w, m) = [diff |-> t.balance[m], all |-> h[m]]
        BY <1>1, <3>2, <4>1
      <4> QED BY <2>1, <3>2, <4>2
    <3> QED BY <3>1, <3>2
  <2>3. w = HeightTurn(t, w)
    BY <2>1, <2>2 DEF HeightTurn
  <2> QED BY <2>3
<1>3. PICK height : height = Heights(t)
  OBVIOUS
<1>4. height = HeightTurn(t, height)
  BY <1>2, <1>3, HeightsIs, Zenon
<1>5. \A m \in S : height[m] = HeightBy(t, height, m)
  BY <1>0, <1>4 DEF HeightTurn
<1>6. \A m \in S : height[m].all = h[m]
  <2> DEFINE Bad == {m \in S : height[m].all # h[m]}
  <2> SUFFICES ASSUME Bad # {}
               PROVE  FALSE
    OBVIOUS
  <2>1. Bad \in SUBSET S
    OBVIOUS
  <2>2. PICK m \in Bad : \A k \in Child : t.child[m][k] \notin Bad
    <3> HIDE DEF Bad
    <3> QED BY <2>1, Lowest
  <2>3. m \in S /\ height[m].all # h[m]
    OBVIOUS
  <2>4. ASSUME NEW d \in Child, t.child[m][d] # Null
        PROVE  height[t.child[m][d]].all = h[t.child[m][d]]
    <3>1. t.child[m][d] \in S
      BY <2>3, <2>4, Below
    <3> QED BY <2>2, <3>1
  <2> HIDE DEF Bad
  <2>5. HeightBy(t, height, m) = [diff |-> t.balance[m], all |-> h[m]]
    BY <1>1, <2>3, <2>4
  <2> QED BY <1>5, <2>3, <2>5
<1>7. ASSUME NEW m \in S
      PROVE  height[m].diff = t.balance[m]
  <2>1. ASSUME NEW d \in Child, t.child[m][d] # Null
        PROVE  height[t.child[m][d]].all = h[t.child[m][d]]
    <3>1. t.child[m][d] \in S
      BY <2>1, Below
    <3> QED BY <1>6, <3>1
  <2>2. HeightBy(t, height, m) = [diff |-> t.balance[m], all |-> h[m]]
    BY <1>1, <2>1
  <2> QED BY <1>5, <2>2
<1> QED BY <1>3, <1>6, <1>7 DEF HeightsRight

\* What the operation owes is what Balanced waits for.
LEMMA OwedAwaits ==
    ASSUME NEW S, op.pc \in {"idle", "insert", "add", "remove"}
    PROVE  Awaits(S, Owed(op))
<1>1. ASSUME NEW n \in S, NEW d \in Child
      PROVE  Pending(n, d) = Due(Owed(op), n, d)
  <2>1. Owed(op).at = op.at /\ Owed(op).side = op.side /\ Owed(op).by = Change(op)
    BY DEF Owed, Waits
  <2>2. (CASE In("insert") -> 1 [] In("remove") -> -1 [] OTHER -> 0) = Change(op)
    BY DEF In, Change
  <2> QED BY <2>1, <2>2 DEF Pending, Due
<1> QED BY <1>1 DEF Awaits

\* Every balance is right at every moment, but for what a loop has still to deal with.
THEOREM Balances == Spec => []Balanced
<1>1. AvlInv => Balanced
  <2> SUFFICES ASSUME AvlInv, op.pc # "destroy"
               PROVE  \A n \in 1..numnodes : /\ tree.balance[n] \in -1..1
                                             /\ tree.balance[n] = Heights(tree)[n].diff
    BY DEF Balanced, In, InTree
  <2>1. PICK S, b, t : S = 1..numnodes /\ b = NextTo /\ t = tree
    OBVIOUS
  <2>2. PICK h, q : Formed(t, S, b, h, q) /\ Awaits(S, q)
    <3>1. \E h : Formed(tree, 1..numnodes, NextTo, h, Owed(op))
      BY DEF AvlInv, Standing
    <3>2. op.pc \in {"idle", "insert", "add", "remove"}
      BY DEF AvlInv, Standing, Doing
    <3> QED BY <2>1, <3>1, <3>2, OwedAwaits
  <2>3. PICK e : Shape(t, S, b, e) /\ Clear(t, S) /\ Level(t, S, h, q)
    BY <2>2 DEF Formed
  <2>4. HeightsRight(t, S, h, Heights(t))
    BY <2>2, <2>3, HeightsAre
  <2>5. ASSUME NEW n \in S
        PROVE  t.balance[n] \in -1..1
    <3>1. LevelAt(t, h, q, n, 1)
      BY <2>3 DEF Level, Child
    <3> QED BY <3>1 DEF LevelAt, Poised
  <2> QED BY <2>1, <2>4, <2>5 DEF HeightsRight
<1> QED BY <1>1, Stands, PTL

\* A node, or none.
OrNone(S, n) == IF n \in S THEN n ELSE Null

\* The turn of the recursion of Walk, at node m.
UpBy(t, left, f, m) == IF t.parent[m] = Null \/ t.which[m] = 1 - left THEN t.parent[m] ELSE f[t.parent[m]]
UpTurn(t, left, f)  == [m \in Nodes |-> UpBy(t, left, f, m)]

\* Walk goes down, or up.
LEMMA WalkForms ==
    ASSUME NEW t, NEW n, NEW left
    PROVE  Walk(t, n, left) = IF t.child[n][left] # Null THEN Extreme(t, t.child[n][left], 1 - left)
                              ELSE (CHOOSE f : f = UpTurn(t, left, f))[n]
BY Zenon DEF Walk, UpTurn, UpBy

\* The way up ends at the neighbour of the last node below.
LEMMA UpIs ==
    ASSUME NEW t, NEW S, NEW b, NEW e, Shape(t, S, b, e), Clear(t, S), NEW left \in Child, NEW n \in S,
           NEW up, up = CHOOSE f : f = UpTurn(t, left, f)
    PROVE  up[n] = OrNone(S, b[e[n][left]][left])
<1>0. Null \notin S /\ S \subseteq Nodes /\ 1 - left \in Child /\ 1 - (1 - left) = left
  BY Sides DEF Shape
<1>1. PICK w : w = [m \in Nodes |-> IF m \in S THEN OrNone(S, b[e[m][left]][left]) ELSE Null]
  OBVIOUS
<1>2. ASSUME NEW m \in S
      PROVE  \/ t.parent[m] = Null /\ OrNone(S, b[e[m][left]][left]) = Null
             \/ t.parent[m] \in S /\ t.which[m] = 1 - left /\ OrNone(S, b[e[m][left]][left]) = t.parent[m]
             \/ /\ t.parent[m] \in S /\ t.which[m] # 1 - left
                /\ OrNone(S, b[e[m][left]][left]) = OrNone(S, b[e[t.parent[m]][left]][left])
  <2> PICK p : p = t.parent[m]
    OBVIOUS
  <2>1. CASE p = Null /\ m = t.root
    <3>1. b[e[m][left]][left] \notin S
      BY <2>1 DEF Shape, Top
    <3> QED BY <2>1, <3>1 DEF OrNone
  <2>2. CASE p # Null /\ p \in S /\ t.which[m] \in Child /\ t.child[p][t.which[m]] = m
    <3>1. CASE t.which[m] = 1 - left
      <4>1. t.child[p][1 - left] = m /\ m # Null
        BY <1>0, <2>2, <3>1
      <4>2. e[m][left] = b[p][1 - left]
        <5>1. e[m][1 - (1 - left)] = b[p][1 - left]
          BY <1>0, <2>2, <4>1, Below
        <5> QED BY <1>0, <5>1
      <4>3. e[m][left] \in S
        BY DEF Shape, Ends
      <4>4. b[b[p][1 - left]][1 - (1 - left)] = p
        BY <1>0, <2>2, <4>2, <4>3 DEF Shape, Near
      <4>5. b[e[m][left]][left] = p
        BY <1>0, <4>2, <4>4
      <4> QED BY <2>2, <3>1, <4>5 DEF OrNone
    <3>2. CASE t.which[m] # 1 - left
      <4>1. t.which[m] = left
        BY <2>2, <3>2, Sides
      <4>2. t.child[p][left] = m /\ m # Null
        BY <1>0, <2>2, <4>1
      <4>3. e[m][left] = e[p][left]
        BY <2>2, <4>2, Below
      <4> QED BY <2>2, <3>2, <4>3
    <3> QED BY <3>1, <3>2
  <2> QED BY <2>1, <2>2, Parents
<1>3. \E f : f = UpTurn(t, left, f)
  <2>1. ASSUME NEW m \in Nodes
        PROVE  w[m] = UpBy(t, left, w, m)
    <3>1. CASE m \in S
      <4>1. w[m] = OrNone(S, b[e[m][left]][left])
        BY <1>1, <3>1
      <4>2. t.parent[m] \in S => w[t.parent[m]] = OrNone(S, b[e[t.parent[m]][left]][left])
        BY <1>0, <1>1
      <4> QED BY <1>0, <1>2, <3>1, <4>1, <4>2 DEF UpBy
    <3>2. CASE m \notin S
      BY <1>1, <3>2 DEF Clear, UpBy
    <3> QED BY <3>1, <3>2
  <2>2. w = UpTurn(t, left, w)
    BY <1>1, <2>1 DEF UpTurn
  <2> QED BY <2>2
<1>4. up = UpTurn(t, left, up)
  BY <1>3, Zenon
<1>5. \A m \in S : up[m] = UpBy(t, left, up, m)
  BY <1>0, <1>4 DEF UpTurn
<1>6. \A m \in S : up[m] = OrNone(S, b[e[m][left]][left])
  <2> DEFINE Bad == {m \in S : up[m] # OrNone(S, b[e[m][left]][left])}
  <2> SUFFICES ASSUME Bad # {}
               PROVE  FALSE
    OBVIOUS
  <2>1. Bad \in SUBSET S
    OBVIOUS
  <2>2. PICK m \in Bad : t.parent[m] \notin Bad
    <3> HIDE DEF Bad
    <3> QED BY <2>1, Highest
  <2>3. m \in S /\ up[m] # OrNone(S, b[e[m][left]][left])
    OBVIOUS
  <2>4. t.parent[m] \in S => up[t.parent[m]] = OrNone(S, b[e[t.parent[m]][left]][left])
    BY <2>2
  <2> HIDE DEF Bad
  <2>5. up[m] = UpBy(t, left, up, m)
    BY <1>5, <2>3
  <2> QED BY <1>0, <1>2, <2>3, <2>4, <2>5 DEF UpBy
<1> QED BY <1>6

\* Walk finds the neighbour.
LEMMA WalkIs ==
    ASSUME NEW t, NEW S, NEW b, NEW e, Shape(t, S, b, e), Clear(t, S), NEW left \in Child, NEW n \in S
    PROVE  Walk(t, n, left) = OrNone(S, b[n][left])
<1>0. PICK c, f : c = t.child[n][left] /\ f = 1 - left
  OBVIOUS
<1>1. CASE c # Null
  <2>1. c \in S /\ e[c][1 - left] = b[n][left] /\ f \in Child
    BY <1>0, <1>1, Below, Sides
  <2>2. Extreme(t, c, f) = e[c][f]
    BY <2>1, ClearIsBare, ExtremeIs
  <2>3. e[c][f] \in S
    BY <2>1 DEF Shape, Ends
  <2>4. Walk(t, n, left) = Extreme(t, c, f)
    BY <1>0, <1>1, WalkForms
  <2> QED BY <1>0, <2>1, <2>2, <2>3, <2>4 DEF OrNone
<1>2. CASE c = Null
  <2>1. PICK up : up = CHOOSE g : g = UpTurn(t, left, g)
    OBVIOUS
  <2>2. Walk(t, n, left) = up[n]
    BY <1>0, <1>2, <2>1, WalkForms
  <2>3. up[n] = OrNone(S, b[e[n][left]][left])
    BY <2>1, UpIs
  <2>4. e[n][left] = n
    <3>1. t.child[n][left] = Null
      BY <1>0, <1>2
    <3> QED BY <3>1, NoneBelow
  <2> QED BY <2>2, <2>3, <2>4
<1> QED BY <1>1, <1>2

\* What the search for the key of node k finds below n.
HitAt(e, n, k) ==
    IF k < e[n][0] THEN [node |-> Null, at |-> e[n][0], side |-> 0]
    ELSE IF k > e[n][1] THEN [node |-> Null, at |-> e[n][1], side |-> 1]
    ELSE [node |-> k, at |-> Null, side |-> 0]

\* It finds the node when it is there.
LEMMA HitFinds ==
    ASSUME NEW N \in Nat, NEW t, NEW e, Shape(t, 1..N, NextTo, e), NEW k \in 1..N,
           NEW a, a = [n \in 1..N |-> HitAt(e, n, k)]
    PROVE  Finds(t, 1..N, Key(k), a)
<1>0. PICK S, b : S = 1..N /\ b = NextTo
  OBVIOUS
<1>1. Shape(t, S, b, e) /\ S \subseteq Nodes /\ 0 \in Child /\ 1 \in Child /\ Null \notin S /\ k \in Int
  BY <1>0, Sides DEF Shape, Child
<1>2. ASSUME NEW n \in S
      PROVE  a[n] = FindAt(t, Key(k), a, n)
  <2>1. n \in Nodes /\ n \in Int /\ e[n][0] \in Int /\ e[n][1] \in Int /\ e[n][0] <= n /\ n <= e[n][1]
    <3>1. Ends(S, e)
      BY <1>1 DEF Shape
    <3> QED BY <1>1, <3>1, Spans
  <2>2. b[n][0] = n - 1 /\ b[n][1] = n + 1
    BY <1>0, <1>1, <2>1, NextToIs
  <2>3. a[n] = HitAt(e, n, k) /\ (\A m \in S : a[m] = HitAt(e, m, k))
    BY <1>0
  <2>4. CASE k = n
    <3>1. FindAt(t, Key(k), a, n) = [node |-> n, at |-> Null, side |-> 0]
      BY <2>4 DEF FindAt
    <3>2. HitAt(e, n, k) = [node |-> n, at |-> Null, side |-> 0]
      BY <2>1, <2>4 DEF HitAt
    <3> QED BY <2>3, <3>1, <3>2
  <2>5. CASE k < n
    <3>1. Key(k) # Key(n) /\ Toward(Key(k), n) = 0
      BY <1>1, <2>1, <2>5 DEF Key, Toward
    <3>2. PICK c : c = t.child[n][0]
      OBVIOUS
    <3>3. FindAt(t, Key(k), a, n) = IF c = Null THEN [node |-> Null, at |-> n, side |-> 0] ELSE a[c]
      BY <3>1, <3>2 DEF FindAt
    <3>4. CASE c = Null
      <4>1. e[n][0] = n
        <5>1. t.child[n][0] = Null
          BY <3>2, <3>4
        <5> QED BY <1>1, <5>1, NoneBelow
      <4>2. HitAt(e, n, k) = [node |-> Null, at |-> n, side |-> 0]
        BY <2>5, <4>1 DEF HitAt
      <4> QED BY <2>3, <3>3, <3>4, <4>2
    <3>5. CASE c # Null
      <4>1. c \in S /\ e[c][0] = e[n][0] /\ e[c][1] = n - 1
        <5>1. c \in S /\ e[c][0] = e[n][0] /\ e[c][1 - 0] = b[n][0]
          BY <1>1, <3>2, <3>5, Below
        <5> QED BY <2>2, <5>1
      <4>2. HitAt(e, c, k) = HitAt(e, n, k)
        BY <1>1, <2>1, <2>5, <4>1 DEF HitAt
      <4> QED BY <2>3, <3>3, <3>5, <4>1, <4>2
    <3> QED BY <3>4, <3>5
  <2>6. CASE k > n
    <3>1. Key(k) # Key(n) /\ Toward(Key(k), n) = 1
      BY <1>1, <2>1, <2>6 DEF Key, Toward
    <3>2. PICK c : c = t.child[n][1]
      OBVIOUS
    <3>3. FindAt(t, Key(k), a, n) = IF c = Null THEN [node |-> Null, at |-> n, side |-> 1] ELSE a[c]
      BY <3>1, <3>2 DEF FindAt
    <3>4. CASE c = Null
      <4>1. e[n][1] = n
        <5>1. t.child[n][1] = Null
          BY <3>2, <3>4
        <5> QED BY <1>1, <5>1, NoneBelow
      <4>2. HitAt(e, n, k) = [node |-> Null, at |-> n, side |-> 1]
        BY <1>1, <2>1, <2>6, <4>1 DEF HitAt
      <4> QED BY <2>3, <3>3, <3>4, <4>2
    <3>5. CASE c # Null
      <4>1. c \in S /\ e[c][1] = e[n][1] /\ e[c][0] = n + 1
        <5>1. c \in S /\ e[c][1] = e[n][1] /\ e[c][1 - 1] = b[n][1]
          BY <1>1, <3>2, <3>5, Below
        <5> QED BY <2>2, <5>1
      <4>2. HitAt(e, c, k) = HitAt(e, n, k)
        BY <1>1, <2>1, <2>6, <4>1 DEF HitAt
      <4> QED BY <2>3, <3>3, <3>5, <4>1, <4>2
    <3> QED BY <3>4, <3>5
  <2> QED BY <1>1, <2>1, <2>4, <2>5, <2>6
<1> QED BY <1>0, <1>2 DEF Finds

\* What Lookups says of a tree.
LooksUp(t, N) ==
    /\ AvlFirst(t) = OrNone(1..N, 1) /\ AvlLast(t) = OrNone(1..N, N)
    /\ \A n \in 1..N : /\ Find(t, Key(n)).node = n
                       /\ Walk(t, n, 0) = OrNone(1..N, n - 1)
                       /\ Walk(t, n, 1) = OrNone(1..N, n + 1)
    /\ \A k \in 1..(N + 1) :
          /\ Find(t, Key(k) - 1).node = Null
          /\ Nearest(t, Find(t, Key(k) - 1), 0) = OrNone(1..N, k - 1)
          /\ Nearest(t, Find(t, Key(k) - 1), 1) = OrNone(1..N, k)

\* It is that.
LEMMA LookupsIs ==
    ASSUME op.pc = "idle" => LooksUp(tree, numnodes)
    PROVE  Lookups
<1>1. In("idle") => op.pc = "idle"
  BY DEF In
<1> QED BY <1>1, Zenon DEF Lookups, LooksUp, OrNone, InTree

\* A tree in order is searched and walked as it should be.
LEMMA FormedLooksUp ==
    ASSUME NEW t, NEW N \in Nat, NEW h, NEW q, Formed(t, 1..N, NextTo, h, q)
    PROVE  LooksUp(t, N)
<1>1. PICK S, b : S = 1..N /\ b = NextTo
  OBVIOUS
<1>2. PICK e : Shape(t, S, b, e) /\ Clear(t, S)
  BY <1>1 DEF Formed
<1>3. S \subseteq Nodes /\ 0 \in Child /\ 1 \in Child /\ Null \notin S
  BY <1>2, Sides DEF Shape, Child
<1>4. \A n \in S : b[n][0] = n - 1 /\ b[n][1] = n + 1
  BY <1>1, <1>3, NextToIs
<1>5. \/ N = 0 /\ t.root = Null
      \/ N > 0 /\ t.root # Null /\ t.root \in S /\ e[t.root][0] = 1 /\ e[t.root][1] = N
  <2>1. Shape(t, 1..N, NextTo, e)
    BY <1>1, <1>2
  <2> QED BY <1>1, <2>1, RootSpan
<1>6. AvlFirst(t) = OrNone(S, 1) /\ AvlLast(t) = OrNone(S, N)
  <2>1. CASE N = 0 /\ t.root = Null
    <3>1. AvlFirst(t) = Null /\ AvlLast(t) = Null
      BY <2>1, Zenon DEF AvlFirst, AvlLast, Extreme
    <3>2. 1 \notin S /\ N \notin S
      BY <1>1, <2>1
    <3> QED BY <3>1, <3>2 DEF OrNone
  <2>2. CASE N > 0 /\ t.root # Null /\ t.root \in S /\ e[t.root][0] = 1 /\ e[t.root][1] = N
    <3>1. Extreme(t, t.root, 0) = 1 /\ Extreme(t, t.root, 1) = N
      BY <1>2, <1>3, <2>2, ClearIsBare, ExtremeIs
    <3>2. 1 \in S /\ N \in S
      BY <1>1, <2>2
    <3> QED BY <3>1, <3>2 DEF OrNone, AvlFirst, AvlLast
  <2> QED BY <1>5, <2>1, <2>2
<1>7. ASSUME NEW n \in S
      PROVE  Walk(t, n, 0) = OrNone(S, n - 1) /\ Walk(t, n, 1) = OrNone(S, n + 1)
  <2>1. Walk(t, n, 0) = OrNone(S, b[n][0]) /\ Walk(t, n, 1) = OrNone(S, b[n][1])
    BY <1>2, <1>3, WalkIs
  <2> QED BY <1>4, <2>1
<1>8. ASSUME NEW n \in S
      PROVE  Find(t, Key(n)).node = n
  <2>1. PICK a : a = [m \in 1..N |-> HitAt(e, m, n)]
    OBVIOUS
  <2>2. Finds(t, S, Key(n), a)
    <3>1. Finds(t, 1..N, Key(n), a)
      BY <1>1, <1>2, <2>1, HitFinds
    <3> QED BY <1>1, <3>1
  <2>3. t.root # Null /\ t.root \in S /\ e[t.root][0] = 1 /\ e[t.root][1] = N
    BY <1>1, <1>5
  <2>4. Find(t, Key(n)) = a[t.root]
    BY <1>2, <2>2, <2>3, SearchIs
  <2>5. a[t.root] = [node |-> n, at |-> Null, side |-> 0]
    <3>1. a[t.root] = HitAt(e, t.root, n)
      BY <1>1, <2>1, <2>3
    <3>2. ~(n < e[t.root][0]) /\ ~(n > e[t.root][1])
      BY <1>1, <2>3
    <3> QED BY <3>1, <3>2 DEF HitAt
  <2> QED BY <2>4, <2>5
<1>9. ASSUME NEW k \in 1..(N + 1)
      PROVE  /\ Find(t, Key(k) - 1).node = Null
             /\ Nearest(t, Find(t, Key(k) - 1), 0) = OrNone(S, k - 1)
             /\ Nearest(t, Find(t, Key(k) - 1), 1) = OrNone(S, k)
  <2>1. PICK where : where = Find(t, Key(k) - 1)
    OBVIOUS
  <2>2. Place(t, N, k, where.at, where.side) /\ where.node = Null
    BY <2>1, FindPlace
  <2>3. PICK at, d : at = where.at /\ d = where.side
    OBVIOUS
  <2>4. \A f : Nearest(t, where, f) = IF at = Null \/ d # f THEN at ELSE Walk(t, at, f)
    BY <2>3, Zenon DEF Nearest
  <2>5. CASE at = Null /\ N = 0 /\ k = 1
    <3>1. S = {}
      BY <1>1, <2>5
    <3>2. Nearest(t, where, 0) = Null /\ Nearest(t, where, 1) = Null
      BY <2>4, <2>5
    <3> QED BY <2>1, <2>2, <3>1, <3>2 DEF OrNone
  <2>6. CASE at \in S /\ k = at + d /\ d = 0
    <3>1. k = at /\ at # Null /\ k - 1 = at - 1
      BY <1>1, <1>3, <2>6
    <3>2. Nearest(t, where, 1) = at /\ Nearest(t, where, 0) = Walk(t, at, 0)
      BY <2>4, <2>6, <3>1
    <3>3. Walk(t, at, 0) = OrNone(S, at - 1)
      BY <1>7, <2>6
    <3> QED BY <2>1, <2>2, <2>6, <3>1, <3>2, <3>3 DEF OrNone
  <2>7. CASE at \in S /\ k = at + d /\ d = 1
    <3>1. k = at + 1 /\ at # Null /\ k - 1 = at
      BY <1>1, <1>3, <2>7
    <3>2. Nearest(t, where, 0) = at /\ Nearest(t, where, 1) = Walk(t, at, 1)
      BY <2>4, <2>7, <3>1
    <3>3. Walk(t, at, 1) = OrNone(S, at + 1)
      BY <1>7, <2>7
    <3> QED BY <2>1, <2>2, <2>7, <3>1, <3>2, <3>3 DEF OrNone
  <2> QED BY <1>1, <2>2, <2>3, <2>5, <2>6, <2>7 DEF Place, Child
<1>10. LooksUp(t, N)
  <2>1. \A n \in 1..N : /\ Find(t, Key(n)).node = n
                        /\ Walk(t, n, 0) = OrNone(1..N, n - 1)
                        /\ Walk(t, n, 1) = OrNone(1..N, n + 1)
    BY <1>1, <1>7, <1>8
  <2>2. \A k \in 1..(N + 1) :
            /\ Find(t, Key(k) - 1).node = Null
            /\ Nearest(t, Find(t, Key(k) - 1), 0) = OrNone(1..N, k - 1)
            /\ Nearest(t, Find(t, Key(k) - 1), 1) = OrNone(1..N, k)
    BY <1>1, <1>9
  <2> QED BY <1>1, <1>6, <2>1, <2>2 DEF LooksUp
<1> QED BY <1>10

\* Between operations the searches and the walks find what is in the tree, and the
\* neighbours of what is not.
THEOREM Searches == Spec => []Lookups
<1>1. AvlInv => Lookups
  <2> SUFFICES ASSUME AvlInv, op.pc = "idle"
               PROVE  LooksUp(tree, numnodes)
    BY LookupsIs
  <2>1. numnodes \in Nat /\ \E h : Formed(tree, 1..numnodes, NextTo, h, Owed(op))
    BY DEF AvlInv, Standing
  <2> QED BY <2>1, FormedLooksUp
<1> QED BY <1>1, Stands, PTL

-----------------------------------------------------------------------------
(* Destroying a tree.                                                       *)

\* The neighbours are the nearest nodes, and none is missing.
Close(S, b) == \A n \in S, x \in S, d \in Child : Before(d, x, n) => b[n][d] \in S /\ ~Before(d, b[n][d], x)

\* Numbers are so.
LEMMA CloseAll ==
    ASSUME NEW N \in Nat, N <= MaxNodes
    PROVE  Close(1..N, NextTo)
<1>1. \A n \in 1..N : n \in Nodes
  BY NodesAssumption DEF Nodes
<1> QED BY <1>1, NextToIs DEF Close, Before, Child

\* And they are when one is taken away.
LEMMA CloseWithout ==
    ASSUME NEW S, S \subseteq Int, NEW b, Near(S, b), Close(S, b), NEW u \in S, NEW b1, WithoutIn(S, b, u, b1)
    PROVE  Tight(S, b) /\ Close(S \ {u}, b1)
<1>1. \A n \in S, d \in Child : b[n][d] \in Int /\ Before(d, b[n][d], n)
  BY DEF Near
<1>2. \A n \in S, x \in S, d \in Child : Before(d, x, n) => b[n][d] \in S /\ ~Before(d, b[n][d], x)
  BY DEF Close
<1>3. \A n \in S, d \in Child : b1[n][d] = IF b[n][d] = u THEN b[u][d] ELSE b[n][d]
  BY DEF WithoutIn
<1>4. Tight(S, b)
  BY <1>2 DEF Tight
<1>5. ASSUME NEW n \in S \ {u}, NEW x \in S \ {u}, NEW d \in Child, Before(d, x, n)
      PROVE  b1[n][d] \in S \ {u} /\ ~Before(d, b1[n][d], x)
  <2> PICK y, z : y = b[n][d] /\ z = b[u][d]
    OBVIOUS
  <2>1. y \in S /\ ~Before(d, y, x) /\ x # u
    BY <1>2, <1>5
  <2>2. CASE y # u
    BY <1>3, <2>1, <2>2
  <2>3. CASE y = u
    <3>1. x \in Int /\ u \in Int
      OBVIOUS
    <3>2. Before(d, x, u)
      BY <2>1, <2>3, <3>1, Sides
    <3>3. z \in S /\ ~Before(d, z, x)
      BY <1>2, <3>2
    <3>4. z # u
      BY <1>1, <3>1, Sides
    <3>5. b1[n][d] = z
      BY <1>3, <2>3
    <3> QED BY <3>3, <3>4, <3>5
  <2> QED BY <2>2, <2>3
<1> QED BY <1>4, <1>5 DEF Close

\* n has no children.
Childless(t, n) == \A d \in Child : t.child[n][d] = Null

\* In a tree whose root has no children it is the only node.
LEMMA RootAlone ==
    ASSUME NEW t, NEW S, NEW b, NEW e, Shape(t, S, b, e), NEW m \in S, t.parent[m] = Null,
           Childless(t, m)
    PROVE  S = {m}
<1>0. Null \notin S
  BY Sides DEF Shape
<1>1. m = t.root
  BY <1>0, Parents
<1> DEFINE Some == S \ {m}
<1> SUFFICES ASSUME Some # {}
             PROVE  FALSE
  OBVIOUS
<1>2. Some \in SUBSET S
  OBVIOUS
<1>3. PICK n \in Some : t.parent[n] \notin Some
  <2> HIDE DEF Some
  <2> QED BY <1>2, Highest
<1>4. n # t.root /\ n \in S
  BY <1>1
<1>5. t.parent[n] \in S /\ t.which[n] \in Child /\ t.child[t.parent[n]][t.which[n]] = n
  BY <1>4, Parents
<1>6. t.parent[n] = m
  BY <1>3, <1>5
<1> QED BY <1>0, <1>4, <1>5, <1>6 DEF Childless

\* The link of p on side d is cut.
Cut(t, p, d) == [t EXCEPT !.child[p][d] = Null]

\* The nodes S form a tree, and what else there is has no children.
Whole(t, S, b, e) == t \in Trees /\ Shape(t, S, b, e) /\ Close(S, b) /\ Bare(t, S)

\* Cutting is hanging nothing there.
LEMMA CutHangs ==
    ASSUME NEW t \in Trees, NEW p \in Nodes, NEW d \in Child
    PROVE  Hung(t, p, d, Null, Cut(t, p, d))
<1>1. /\ t.root \in MaybeNode /\ t.child \in [Nodes -> [Child -> MaybeNode]]
      /\ t.parent \in [Nodes -> MaybeNode] /\ t.which \in [Nodes -> Child] /\ t.balance \in [Nodes -> Int]
  BY DEF Trees
<1>2. p # Null /\ Null \notin Nodes
  BY Sides
<1>3. PICK ch : ch = [t.child EXCEPT ![p][d] = Null]
  OBVIOUS
<1>4. /\ ch \in [Nodes -> [Child -> MaybeNode]]
      /\ \A n \in Nodes, f \in Child : ch[n][f] = IF n = p /\ f = d THEN Null ELSE t.child[n][f]
  BY <1>1, <1>3 DEF MaybeNode
<1>5. PICK u : u = Cut(t, p, d)
  OBVIOUS
<1>6. u = [t EXCEPT !.child = ch]
  BY <1>3, <1>5, Zenon DEF Cut
<1>7. /\ u \in Trees /\ u.root = t.root
      /\ u.child = ch /\ u.parent = t.parent /\ u.which = t.which /\ u.balance = t.balance
  BY <1>1, <1>4, <1>6 DEF Trees
<1> QED BY <1>2, <1>4, <1>5, <1>7 DEF Hung

\* Without a leaf the others still form a tree.
LEMMA LeafGone ==
    ASSUME NEW t, NEW S, NEW b, NEW e, Whole(t, S, b, e), NEW m \in S, Childless(t, m),
           NEW p, p = t.parent[m], p # Null, NEW w, w = t.which[m]
    PROVE  /\ p \in S \ {m} /\ w \in Child /\ t.child[p][w] = m
           /\ \E b1, e1 : Whole(Cut(t, p, w), S \ {m}, b1, e1)
<1>0. /\ t \in Trees /\ Shape(t, S, b, e) /\ Close(S, b) /\ Bare(t, S)
      /\ S \subseteq Nodes /\ S \subseteq Int /\ Null \notin S /\ 0 \in Child /\ 1 \in Child
  BY Sides DEF Whole, Shape, Child
<1>1. p \in S /\ w \in Child /\ t.child[p][w] = m
  BY <1>0, Parents
<1>2. p # m
  BY <1>0, <1>1 DEF Childless
<1>3. PICK u : u = Cut(t, p, w)
  OBVIOUS
<1>4. Hung(t, p, w, Null, u)
  BY <1>0, <1>1, <1>3, CutHangs
<1>5. Leaves(t, m, 0, Null, p, w)
  <2>1. t.child[m][0] = Null /\ t.child[m][1 - 0] = Null
    BY <1>0 DEF Childless
  <2> QED BY <1>0, <2>1 DEF Leaves
<1>6. PICK b1 : b1 = Without(b, m)
  OBVIOUS
<1>7. WithoutIn(S, b, m, b1)
  BY <1>0, <1>6 DEF Without, WithoutIn
<1>8. PICK e1 : Shorter(S, b, e, m, e1)
  <2>1. PICK e1 : e1 = [n \in S |-> [d \in Child |-> IF e[n][d] = m THEN b[m][1 - d] ELSE e[n][d]]]
    OBVIOUS
  <2>2. Shorter(S, b, e, m, e1)
    BY <2>1 DEF Shorter
  <2> QED BY <2>2
<1>9. Tight(S, b) /\ Close(S \ {m}, b1)
  <2>1. Near(S, b)
    BY <1>0 DEF Shape
  <2> QED BY <1>0, <1>7, <2>1, CloseWithout
<1>10. Shape(u, S \ {m}, b1, e1)
  BY <1>0, <1>4, <1>5, <1>7, <1>8, <1>9, GoneShape
<1>11. Bare(u, S \ {m})
  <2> SUFFICES ASSUME NEW x \in Nodes, x \notin S \ {m}, NEW d \in Child
               PROVE  u.child[x][d] = Null
    BY DEF Bare
  <2>1. t.child[x][d] = Null
    BY <1>0 DEF Bare, Childless
  <2>2. u.child[x][d] = IF x = p /\ d = w THEN Null ELSE t.child[x][d]
    BY <1>4 DEF Hung
  <2> QED BY <2>1, <2>2
<1>12. u \in Trees
  BY <1>4 DEF Hung
<1>13. Whole(u, S \ {m}, b1, e1)
  BY <1>9, <1>10, <1>11, <1>12 DEF Whole
<1> QED BY <1>1, <1>2, <1>3, <1>13

\* A is the way from the root to p, side d of which is done: when it goes to the
\* right there is nothing left on the left.
LeftDone(t, n)       == t.which[n] = 1 => t.child[t.parent[n]][0] = Null
Upward(t, A)       == \A n \in A : t.parent[n] = Null \/ (t.parent[n] \in A /\ LeftDone(t, n))
OnWay(t, A, p, d)  == /\ p \in A /\ t.child[p][d] = Null
                      /\ d = 1 => t.child[p][0] = Null
                      /\ Upward(t, A)
                      /\ \A n \in A : n # p => \E f \in Child : t.child[n][f] \in A

\* The nodes R have the heights h, and the balance that goes with them.
Flat(t, R, h) ==
    \A n \in R, f \in Child : Poised(f, High(t, h, n, f), High(t, h, n, 1 - f), t.balance[n], h[n])

\* Cutting a link of a node that is not looked at keeps the heights.
LEMMA CutFlat ==
    ASSUME NEW t, NEW R, R \subseteq Nodes, NEW h, Flat(t, R, h), NEW p, p \notin R, NEW d,
           NEW u, Hung(t, p, d, Null, u), NEW Q, Q \subseteq R
    PROVE  Flat(u, Q, h)
<1> SUFFICES ASSUME NEW n \in Q, NEW f \in Child
             PROVE  Poised(f, High(u, h, n, f), High(u, h, n, 1 - f), u.balance[n], h[n])
  BY DEF Flat
<1>1. n \in R /\ n \in Nodes /\ n # p /\ 1 - f \in Child
  BY Sides
<1>2. u.child[n][f] = t.child[n][f] /\ u.child[n][1 - f] = t.child[n][1 - f] /\ u.balance[n] = t.balance[n]
  BY <1>1 DEF Hung
<1>3. High(u, h, n, f) = High(t, h, n, f) /\ High(u, h, n, 1 - f) = High(t, h, n, 1 - f)
  BY <1>2 DEF High
<1>4. Poised(f, High(t, h, n, f), High(t, h, n, 1 - f), t.balance[n], h[n])
  BY <1>1 DEF Flat
<1> QED BY <1>2, <1>3, <1>4

\* Cutting keeps the way up.
LEMMA CutUpward ==
    ASSUME NEW t, NEW A, A \subseteq Nodes, Upward(t, A), NEW p, NEW d, NEW u, Hung(t, p, d, Null, u)
    PROVE  Upward(u, A)
<1>1. \A n \in Nodes : u.parent[n] = t.parent[n] /\ u.which[n] = t.which[n]
  BY Sides DEF Hung
<1>2. \A n \in Nodes : t.child[n][0] = Null => u.child[n][0] = Null
  BY DEF Hung, Child
<1> QED BY <1>1, <1>2 DEF Upward, LeftDone

\* The node just freed was the last of its subtree, and the way leads to its parent.
LEMMA Climbs ==
    ASSUME NEW t, NEW S, NEW b, NEW e, Whole(t, S, b, e), NEW A, A \subseteq S, NEW p, NEW d, OnWay(t, A, p, d),
           NEW h, Flat(t, S \ A, h), Childless(t, p),
           NEW q, q = t.parent[p], q # Null, NEW w, w = t.which[p]
    PROVE  OnWay(Cut(t, q, w), A \ {p}, q, w) /\ Flat(Cut(t, q, w), (S \ {p}) \ (A \ {p}), h)
<1>0. /\ t \in Trees /\ Shape(t, S, b, e) /\ S \subseteq Nodes /\ Null \notin S /\ 0 \in Child /\ 1 \in Child
      /\ p \in A /\ p \in S
  BY Sides DEF Whole, Shape, Child, OnWay
<1>1. q \in S /\ w \in Child /\ t.child[q][w] = p /\ q # p
  <2>1. q \in S /\ w \in Child /\ t.child[q][w] = p
    BY <1>0, Parents
  <2> QED BY <1>0, <2>1 DEF Childless
<1>2. PICK u : u = Cut(t, q, w)
  OBVIOUS
<1>3. Hung(t, q, w, Null, u)
  BY <1>0, <1>1, <1>2, CutHangs
<1>4. /\ \A n \in Nodes : u.parent[n] = t.parent[n] /\ u.which[n] = t.which[n]
      /\ \A n \in Nodes, f \in Child : u.child[n][f] = IF n = q /\ f = w THEN Null ELSE t.child[n][f]
  BY <1>3, Sides DEF Hung
<1>5. q \in A /\ LeftDone(t, p)
  BY <1>0 DEF OnWay, Upward
<1>6. ASSUME NEW n \in A \ {p}
      PROVE  t.parent[n] # p
  <2>1. n \in S
    OBVIOUS
  <2>2. t.parent[n] # Null => t.which[n] \in Child /\ t.child[t.parent[n]][t.which[n]] = n
    BY <1>0, <2>1, Parents
  <2> QED BY <1>0, <2>1, <2>2 DEF Childless
<1>7. Upward(u, A \ {p})
  <2>1. Upward(t, A \ {p})
    BY <1>6 DEF OnWay, Upward
  <2>2. A \ {p} \subseteq Nodes
    BY <1>0
  <2> QED BY <1>3, <2>1, <2>2, CutUpward
<1>8. u.child[q][w] = Null /\ (w = 1 => u.child[q][0] = Null)
  <2>1. q \in Nodes
    BY <1>0, <1>1
  <2>2. w = 1 => t.child[q][0] = Null
    BY <1>5 DEF LeftDone
  <2> QED BY <1>0, <1>1, <1>4, <2>1, <2>2
<1>9. ASSUME NEW n \in A \ {p}, n # q
      PROVE  \E f \in Child : u.child[n][f] \in A \ {p}
  <2>1. PICK f \in Child : t.child[n][f] \in A
    BY <1>9 DEF OnWay
  <2>2. n \in S /\ t.child[n][f] # Null
    BY <1>0, <2>1
  <2>3. t.parent[t.child[n][f]] = n
    BY <1>0, <2>2, Below
  <2>4. t.child[n][f] # p
    BY <1>9, <2>3
  <2>5. u.child[n][f] = t.child[n][f]
    BY <1>0, <1>4, <1>9, <2>2
  <2> QED BY <2>1, <2>4, <2>5
<1>10. OnWay(u, A \ {p}, q, w)
  BY <1>1, <1>5, <1>7, <1>8, <1>9 DEF OnWay
<1>11. Flat(u, (S \ {p}) \ (A \ {p}), h)
  <2>1. (S \ {p}) \ (A \ {p}) \subseteq S \ A /\ S \ A \subseteq Nodes /\ q \notin S \ A
    BY <1>0, <1>5
  <2> QED BY <1>3, <2>1, CutFlat
<1> QED BY <1>2, <1>10, <1>11

\* What is below a node that begins at k or later does so too.
LEMMA Beneath ==
    ASSUME NEW t, NEW S, NEW b, NEW e, Shape(t, S, b, e), NEW n \in S, NEW f \in Child, NEW c, c = t.child[n][f],
           c # Null, NEW k \in Int, k <= e[n][0]
    PROVE  c \in S /\ k <= e[c][0] /\ (f = 1 => k < e[c][0])
<1>1. /\ c \in S /\ n \in Int /\ e[c][0] \in Int /\ e[n][0] \in Int
      /\ e[c][f] = e[n][f] /\ e[c][1 - f] = b[n][f]
  BY Below
<1>2. CASE f = 0
  BY <1>1, <1>2
<1>3. CASE f = 1
  <2>1. e[c][0] = b[n][1]
    BY <1>1, <1>3
  <2>2. n < b[n][1] /\ b[n][1] \in Int
    <3>1. Before(1, b[n][1], n) /\ b[n][1] \in Int
      BY <1>3 DEF Shape, Near
    <3> QED BY <3>1 DEF Before
  <2>3. e[n][0] <= n
    BY Spans DEF Shape
  <2> QED BY <1>1, <2>1, <2>2, <2>3
<1> QED BY <1>2, <1>3 DEF Child

\* All of the way is at p or above it.
LEMMA WayAbove ==
    ASSUME NEW t, NEW S, NEW b, NEW e, Shape(t, S, b, e), NEW A, A \subseteq S, NEW p, NEW d, OnWay(t, A, p, d)
    PROVE  \A a \in A : p \in Int /\ e[a][0] \in Int /\ e[a][0] <= p
<1>1. p \in A /\ p \in S /\ p \in Int /\ Null \notin S
  BY Sides DEF OnWay, Shape
<1>2. \A n \in S : e[n][0] \in Int /\ e[n][0] <= n
  BY Spans DEF Shape
<1> DEFINE Some == {a \in A : p + 1 <= e[a][0]}
<1>3. Some = {}
  <2> SUFFICES ASSUME Some # {}
               PROVE  FALSE
    OBVIOUS
  <2>1. Some \in SUBSET S
    OBVIOUS
  <2>2. PICK a \in Some : \A f \in Child : t.child[a][f] \notin Some
    <3> HIDE DEF Some
    <3> QED BY <2>1, Lowest
  <2>3. a \in A /\ a \in S /\ p + 1 <= e[a][0] /\ p + 1 \in Int
    BY <1>1
  <2>4. a # p
    BY <1>1, <1>2, <2>3
  <2>5. PICK f \in Child : t.child[a][f] \in A
    BY <2>3, <2>4 DEF OnWay
  <2>6. t.child[a][f] # Null
    BY <1>1, <2>5
  <2>7. p + 1 <= e[t.child[a][f]][0]
    BY <2>3, <2>6, Beneath
  <2> QED BY <2>2, <2>5, <2>7
<1> QED BY <1>1, <1>2, <1>3

\* What is below the other nodes begins before k.
Since(S, e, k, R) == \A y \in S : k <= e[y][0] => y \in R

\* In a tree in balance, what the first node has on its right is a leaf.
LEMMA FirstHasLeaf ==
    ASSUME NEW t, NEW S, NEW b, NEW e, Shape(t, S, b, e), NEW R, NEW h, Flat(t, R, h), NEW k \in S,
           Since(S, e, k, R), t.child[k][0] = Null, NEW m, m = t.child[k][1], m # Null
    PROVE  m \in S /\ k < e[m][0] /\ Childless(t, m)
<1>0. Null \notin S /\ S \subseteq Int /\ 0 \in Child /\ 1 \in Child
  BY Sides DEF Shape, Child
<1>1. e[k][0] = k /\ k \in Int
  BY <1>0, NoneBelow
<1>2. k <= e[k][0]
  BY <1>1
<1>3. m \in S /\ k <= e[m][0] /\ k < e[m][0]
  BY <1>0, <1>1, <1>2, Beneath
<1>4. k \in R /\ m \in R
  BY <1>2, <1>3 DEF Since
<1>5. \A n \in R, f \in Child :
          /\ High(t, h, n, f) \in Nat /\ High(t, h, n, 1 - f) \in Nat
          /\ h[n] = 1 + Higher(High(t, h, n, f), High(t, h, n, 1 - f))
          /\ High(t, h, n, f) - High(t, h, n, 1 - f) \in -1..1
  BY DEF Flat, Poised, Child
<1>6. High(t, h, k, 0) = 0 /\ High(t, h, k, 1) = h[m]
  BY <1>3 DEF High
<1>7. h[m] <= 1 /\ h[m] \in Nat
  <2>1. High(t, h, k, 1) \in Nat /\ High(t, h, k, 1) - High(t, h, k, 1 - 1) \in -1..1
    BY <1>0, <1>4, <1>5
  <2> QED BY <1>6, <2>1
<1>8. ASSUME NEW f \in Child, t.child[m][f] # Null
      PROVE  FALSE
  <2> PICK c : c = t.child[m][f]
    OBVIOUS
  <2>1. c \in S /\ k <= e[c][0]
    BY <1>1, <1>3, <1>8, Beneath
  <2>2. c \in R
    BY <2>1 DEF Since
  <2>3. /\ High(t, h, c, 0) \in Nat /\ High(t, h, c, 1 - 0) \in Nat
        /\ h[c] = 1 + Higher(High(t, h, c, 0), High(t, h, c, 1 - 0))
    BY <1>0, <1>5, <2>2, Zenon
  <2>4. High(t, h, m, f) = h[c]
    BY <1>8 DEF High
  <2>5. High(t, h, m, 1 - f) \in Nat /\ h[m] = 1 + Higher(h[c], High(t, h, m, 1 - f))
    BY <1>4, <1>5, <2>4, Zenon
  <2>6. PICK x, y, z, g, i : /\ x = High(t, h, c, 0) /\ y = High(t, h, c, 1 - 0) /\ z = High(t, h, m, 1 - f)
                             /\ g = h[c] /\ i = h[m]
    OBVIOUS
  <2>7. x \in Nat /\ y \in Nat /\ z \in Nat /\ g = 1 + Higher(x, y) /\ i = 1 + Higher(g, z) /\ i <= 1
    BY <1>7, <2>3, <2>5, <2>6, Zenon
  <2> QED BY <2>7 DEF Higher
<1> QED BY <1>3, <1>8 DEF Childless

\* The nodes below which k is the first.
Leading(S, e, k) == {y \in S : e[y][0] = k}

\* The node handed out first of a subtree that begins at k: k, or the leaf on its right.
Handed(t, k) == IF t.child[k][1] # Null THEN t.child[k][1] ELSE k

\* What is below the nodes A begins before k.
Behind(e, A, k) == \A a \in A : e[a][0] < k

\* It is a leaf.
LEMMA HandedIsLeaf ==
    ASSUME NEW t, NEW S, NEW b, NEW e, Whole(t, S, b, e), NEW A, A \subseteq S, NEW h, Flat(t, S \ A, h),
           NEW k \in S, t.child[k][0] = Null, Behind(e, A, k), NEW m, m = Handed(t, k)
    PROVE  m \in S /\ m \notin A /\ Childless(t, m)
<1>0. /\ t \in Trees /\ Shape(t, S, b, e) /\ S \subseteq Nodes /\ S \subseteq Int /\ Null \notin S
      /\ 0 \in Child /\ 1 \in Child
  BY Sides DEF Whole, Shape, Child
<1>1. \A y \in S : e[y][0] \in Int /\ e[y][0] <= y
  BY <1>0, Spans DEF Shape
<1> PICK R : R = S \ A
  OBVIOUS
<1>2. e[k][0] = k /\ k \notin A
  <2>1. e[k][0] = k
    BY <1>0, NoneBelow
  <2>2. k \notin A
    BY <1>0, <2>1 DEF Behind
  <2> QED BY <2>1, <2>2
<1>3. Since(S, e, k, R)
  BY <1>0, <1>1 DEF Behind, Since
<1>4. Flat(t, R, h)
  OBVIOUS
<1>5. m \in S /\ m \notin A /\ Childless(t, m)
  <2>1. CASE t.child[k][1] # Null
    <3>1. m = t.child[k][1] /\ m # Null
      BY <2>1 DEF Handed
    <3>2. m \in S /\ k < e[m][0] /\ Childless(t, m)
      BY <1>0, <1>3, <1>4, <3>1, FirstHasLeaf
    <3> QED BY <1>0, <1>1, <3>2 DEF Behind
  <2>2. CASE t.child[k][1] = Null
    <3>1. m = k
      BY <2>2 DEF Handed
    <3> QED BY <1>2, <2>2, <3>1 DEF Child, Childless
  <2> QED BY <2>1, <2>2
<1> QED BY <1>5

\* Each node of the way A leads on, to A or to the right into L.
LeadsOn(t, A, L) == \A a \in A : (\E f \in Child : t.child[a][f] \in A) \/ t.child[a][1] \in L

\* The way has been lengthened to that node.
LEMMA Descends ==
    ASSUME NEW t, NEW S, NEW b, NEW e, Whole(t, S, b, e), NEW A, A \subseteq S, NEW h, Flat(t, S \ A, h),
           NEW k \in S, t.child[k][0] = Null, Behind(e, A, k), NEW m, m = Handed(t, k),
           NEW B, B = A \cup Leading(S, e, k), Upward(t, B),
           LeadsOn(t, A, Leading(S, e, k)),
           NEW q, q = t.parent[m], q # Null, NEW w, w = t.which[m]
    PROVE  OnWay(Cut(t, q, w), B \ {m}, q, w) /\ Flat(Cut(t, q, w), (S \ {m}) \ (B \ {m}), h)
<1>0. /\ t \in Trees /\ Shape(t, S, b, e) /\ S \subseteq Nodes /\ S \subseteq Int /\ Null \notin S
      /\ 0 \in Child /\ 1 \in Child /\ B \subseteq S
  BY Sides DEF Whole, Shape, Child, Leading
<1>2. e[k][0] = k /\ k \in B /\ k \notin A
  <2>1. e[k][0] = k
    BY <1>0, NoneBelow
  <2>2. k \notin A
    BY <1>0, <2>1 DEF Behind
  <2> QED BY <2>1, <2>2 DEF Leading
<1>4. m \in S /\ m \notin A /\ Childless(t, m)
  BY HandedIsLeaf
<1>5. q \in S \ {m} /\ w \in Child /\ t.child[q][w] = m
  <2>1. q \in S /\ w \in Child /\ t.child[q][w] = m
    BY <1>0, <1>4, Parents
  <2>2. q # m
    BY <1>0, <1>4, <2>1 DEF Childless
  <2> QED BY <2>1, <2>2
<1>6. PICK u : u = Cut(t, q, w)
  OBVIOUS
<1>7. Hung(t, q, w, Null, u)
  BY <1>0, <1>5, <1>6, CutHangs
<1>8. \A n \in Nodes, f \in Child : u.child[n][f] = IF n = q /\ f = w THEN Null ELSE t.child[n][f]
  BY <1>7 DEF Hung
<1>9. q \in B /\ (w = 1 => t.child[q][0] = Null)
  <2>1. CASE t.child[k][1] # Null
    <3>1. m = t.child[k][1]
      BY <2>1 DEF Handed
    <3>2. q = k
      BY <1>0, <2>1, <3>1, Below
    <3> QED BY <1>2, <3>2
  <2>2. CASE t.child[k][1] = Null
    <3>1. m = k
      BY <2>2 DEF Handed
    <3> QED BY <1>2, <3>1 DEF Upward, LeftDone
  <2> QED BY <2>1, <2>2
<1>10. ASSUME NEW n \in B \ {m}
       PROVE  t.parent[n] # m
  <2>1. n \in S
    BY <1>0
  <2>2. t.parent[n] # Null => t.which[n] \in Child /\ t.child[t.parent[n]][t.which[n]] = n
    BY <1>0, <2>1, Parents
  <2> QED BY <1>0, <1>4, <2>1, <2>2 DEF Childless
<1>11. Upward(u, B \ {m})
  <2>1. Upward(t, B \ {m})
    BY <1>10 DEF Upward
  <2>2. B \ {m} \subseteq Nodes
    BY <1>0
  <2> QED BY <1>7, <2>1, <2>2, CutUpward
<1>12. u.child[q][w] = Null /\ (w = 1 => u.child[q][0] = Null)
  <2>1. q \in Nodes
    BY <1>0, <1>5
  <2> QED BY <1>0, <1>5, <1>8, <1>9, <2>1
<1>13. ASSUME NEW n \in B \ {m}, n # q
       PROVE  \E f \in Child : u.child[n][f] \in B \ {m}
  <2>1. n \in S /\ n \in Nodes
    BY <1>0
  <2>2. PICK f \in Child : t.child[n][f] \in B
    <3>1. CASE n \in A
      BY <1>0, <3>1 DEF LeadsOn
    <3>2. CASE n \notin A
      <4>1. e[n][0] = k
        BY <3>2 DEF Leading
      <4>2. n # k
        <5>1. CASE t.child[k][1] # Null
          <6>1. m = t.child[k][1]
            BY <5>1 DEF Handed
          <6>2. q = k
            BY <1>0, <5>1, <6>1, Below
          <6> QED BY <1>13, <6>2
        <5>2. CASE t.child[k][1] = Null
          <6>1. m = k
            BY <5>2 DEF Handed
          <6> QED BY <6>1
        <5> QED BY <5>1, <5>2
      <4>3. t.child[n][0] # Null
        BY <1>0, <2>1, <4>1, <4>2, NoneBelow
      <4>4. t.child[n][0] \in S /\ e[t.child[n][0]][0] = k
        BY <1>0, <2>1, <4>1, <4>3, Below
      <4> QED BY <1>0, <4>4 DEF Leading
    <3> QED BY <3>1, <3>2
  <2>3. t.child[n][f] # Null
    BY <1>0, <2>2
  <2>4. t.parent[t.child[n][f]] = n
    BY <1>0, <2>1, <2>3, Below
  <2>5. t.child[n][f] # m
    BY <1>13, <2>4
  <2>6. u.child[n][f] = t.child[n][f]
    BY <1>8, <1>13, <2>1
  <2> QED BY <2>2, <2>5, <2>6
<1>14. OnWay(u, B \ {m}, q, w)
  BY <1>5, <1>9, <1>11, <1>12, <1>13 DEF OnWay
<1>15. Flat(u, (S \ {m}) \ (B \ {m}), h)
  <2>1. (S \ {m}) \ (B \ {m}) \subseteq S \ B /\ S \ B \subseteq Nodes /\ q \notin S \ B
    BY <1>0, <1>9
  <2>2. Flat(t, S \ B, h)
    <3>1. S \ B \subseteq S \ A
      OBVIOUS
    <3> QED BY <3>1 DEF Flat
  <2> QED BY <1>7, <2>1, <2>2, CutFlat
<1> QED BY <1>6, <1>14, <1>15

\* When m is freed the rest has a way to the place of m.
Ready(t, S, m) ==
    t.parent[m] # Null =>
        \E A, h : /\ A \subseteq S \ {m}
                  /\ OnWay(Cut(t, t.parent[m], t.which[m]), A, t.parent[m], t.which[m])
                  /\ Flat(Cut(t, t.parent[m], t.which[m]), (S \ {m}) \ A, h)

\* m can be freed.
Frees(t, S, m) == m \in S /\ Childless(t, m) /\ Ready(t, S, m)

\* What is below y begins and ends where the side of its parent does on which it is.
LEMMA Above ==
    ASSUME NEW t, NEW S, NEW b, NEW e, Shape(t, S, b, e), NEW y \in S,
           NEW p, p = t.parent[y], p # Null, NEW w, w = t.which[y]
    PROVE  /\ p \in S /\ w \in Child /\ t.child[p][w] = y
           /\ e[y][w] = e[p][w] /\ e[y][1 - w] = b[p][w]
<1>1. y # Null
  BY Sides DEF Shape
<1>2. p \in S /\ w \in Child /\ t.child[p][w] = y
  BY Parents
<1>3. e[y][w] = e[p][w] /\ e[y][1 - w] = b[p][w]
  BY <1>1, <1>2, Below
<1> QED BY <1>2, <1>3

\* At the beginning it is the first node, or the leaf on its right.
LEMMA FirstFrees ==
    ASSUME NEW t, NEW N \in Nat, N > 0, N <= MaxNodes, NEW h, NEW z, Formed(t, 1..N, NextTo, h, z), z.at = Null
    PROVE  /\ \E e : Whole(t, 1..N, NextTo, e)
           /\ t.root \in 1..N /\ Frees(t, 1..N, Handed(t, AvlFirst(t)))
<1> PICK S, b, k : S = 1..N /\ b = NextTo /\ k = AvlFirst(t)
  OBVIOUS
<1>1. PICK e : t \in Trees /\ Shape(t, S, b, e) /\ Clear(t, S) /\ Level(t, S, h, z)
  BY DEF Formed
<1>2. Bare(t, S) /\ Close(S, b)
  BY <1>1, ClearIsBare, CloseAll
<1>3. Whole(t, S, b, e)
  BY <1>1, <1>2 DEF Whole
<1>4. S \subseteq Nodes /\ S \subseteq Int /\ Null \notin S /\ 0 \in Child /\ 1 \in Child
  BY <1>1, Sides DEF Shape, Child
<1>5. t.root \in S /\ t.root # Null /\ e[t.root][0] = 1
  <2>1. Shape(t, 1..N, NextTo, e)
    BY <1>1
  <2> QED BY <2>1, RootSpan
<1>6. k = 1
  <2>1. Extreme(t, t.root, 0) = e[t.root][0]
    BY <1>1, <1>2, <1>4, <1>5, ExtremeIs
  <2> QED BY <1>5, <2>1 DEF AvlFirst
<1>7. k \in S /\ t.child[k][0] = Null
  <2>1. e[t.root][0] \in S /\ t.child[e[t.root][0]][0] = Null
    BY <1>1, <1>4, <1>5, Spine
  <2> QED BY <1>5, <1>6, <2>1
<1> PICK A : A = {}
  OBVIOUS
<1>8. Flat(t, S \ A, h) /\ A \subseteq S /\ Behind(e, A, k)
  <2>1. \A n \in S, f \in Child : Poised(f, High(t, h, n, f), High(t, h, n, 1 - f), t.balance[n], h[n])
    BY <1>1, <1>4, NothingDue
  <2> QED BY <2>1 DEF Flat, Behind
<1> PICK m : m = Handed(t, k)
  OBVIOUS
<1>9. m \in S /\ Childless(t, m)
  BY <1>3, <1>7, <1>8, HandedIsLeaf
<1> PICK B : B = A \cup Leading(S, e, k)
  OBVIOUS
<1>10. Upward(t, B)
  <2> SUFFICES ASSUME NEW y \in B, t.parent[y] # Null
               PROVE  t.parent[y] \in B /\ LeftDone(t, y)
    BY DEF Upward
  <2>1. y \in S /\ e[y][0] = 1 /\ y # Null
    BY <1>4, <1>6 DEF Leading
  <2> PICK p, w : p = t.parent[y] /\ w = t.which[y]
    OBVIOUS
  <2>2. /\ p \in S /\ w \in Child /\ t.child[p][w] = y
        /\ e[y][w] = e[p][w] /\ e[y][1 - w] = b[p][w]
    <3>1. Shape(t, S, b, e) /\ y \in S
      BY <1>1, <2>1
    <3> QED BY <3>1, Above
  <2>4. w # 1
    <3> SUFFICES ASSUME w = 1
                 PROVE  FALSE
      OBVIOUS
    <3>1. b[p][1] = 1
      BY <2>1, <2>2
    <3>2. b[p][1] = p + 1
      BY <1>4, <2>2, NextToIs
    <3> QED BY <2>2, <3>1, <3>2
  <2>5. w = 0
    BY <2>2, <2>4 DEF Child
  <2> QED BY <1>6, <2>1, <2>2, <2>4, <2>5 DEF Leading, LeftDone
<1>11. Ready(t, S, m)
  <2> SUFFICES ASSUME NEW q, NEW w, q = t.parent[m], w = t.which[m], q # Null
               PROVE  \E X, g : /\ X \subseteq S \ {m} /\ OnWay(Cut(t, q, w), X, q, w)
                                /\ Flat(Cut(t, q, w), (S \ {m}) \ X, g)
    BY DEF Ready
  <2>1. OnWay(Cut(t, q, w), B \ {m}, q, w) /\ Flat(Cut(t, q, w), (S \ {m}) \ (B \ {m}), h)
    <3>1. LeadsOn(t, A, Leading(S, e, k))
      BY DEF LeadsOn
    <3> QED BY <1>3, <1>7, <1>8, <1>10, <3>1, Descends
  <2>2. B \ {m} \subseteq S \ {m}
    BY DEF Leading
  <2> QED BY <2>1, <2>2
<1> QED BY <1>3, <1>5, <1>9, <1>11 DEF Frees

\* Below the right side of p it is the first node there, or the leaf on its right.
LEMMA NextFrees ==
    ASSUME NEW t, NEW S, NEW b, NEW e, Whole(t, S, b, e), NEW A, A \subseteq S, NEW p, OnWay(t, A, p, 0),
           NEW h, Flat(t, S \ A, h), t.child[p][1] # Null
    PROVE  Frees(t, S, Handed(t, Extreme(t, t.child[p][1], 0)))
<1>0. /\ t \in Trees /\ Shape(t, S, b, e) /\ Bare(t, S) /\ S \subseteq Nodes /\ S \subseteq Int /\ Null \notin S
      /\ 0 \in Child /\ 1 \in Child /\ p \in A /\ p \in S /\ t.child[p][0] = Null
  BY Sides DEF Whole, Shape, Child, OnWay
<1> PICK c, k : c = t.child[p][1] /\ k = Extreme(t, c, 0)
  OBVIOUS
<1>1. c \in S /\ e[c][1 - 1] = b[p][1]
  BY <1>0, Below
<1>2. k = e[c][0] /\ k = b[p][1]
  <2>1. Extreme(t, c, 0) = e[c][0]
    BY <1>0, <1>1, ExtremeIs
  <2> QED BY <1>1, <2>1
<1>3. k \in S /\ t.child[k][0] = Null
  BY <1>0, <1>1, <1>2, Spine
<1>4. p < k /\ b[k][0] = p
  <2>1. Near(S, b)
    BY <1>0 DEF Shape
  <2>2. Before(1, b[p][1], p) /\ (b[p][1] \in S => b[b[p][1]][1 - 1] = p)
    BY <1>0, <2>1 DEF Near
  <2> QED BY <1>2, <1>3, <2>2 DEF Before
<1>5. Behind(e, A, k)
  <2>1. \A a \in A : p \in Int /\ e[a][0] \in Int /\ e[a][0] <= p
    BY <1>0, WayAbove
  <2> QED BY <1>0, <1>3, <1>4, <2>1 DEF Behind
<1> PICK m : m = Handed(t, k)
  OBVIOUS
<1>6. m \in S /\ m \notin A /\ Childless(t, m)
  BY <1>3, <1>5, HandedIsLeaf
<1> PICK B : B = A \cup Leading(S, e, k)
  OBVIOUS
<1>7. Upward(t, B)
  <2> SUFFICES ASSUME NEW y \in B, t.parent[y] # Null
               PROVE  t.parent[y] \in B /\ LeftDone(t, y)
    BY DEF Upward
  <2>1. CASE y \in A
    BY <2>1 DEF OnWay, Upward
  <2>2. CASE y \in Leading(S, e, k)
    <3>1. y \in S /\ e[y][0] = k /\ y # Null
      BY <1>0, <2>2 DEF Leading
    <3> PICK x, w : x = t.parent[y] /\ w = t.which[y]
      OBVIOUS
    <3>2. x \in S /\ w \in Child /\ t.child[x][w] = y
      BY <1>0, <3>1, Parents
    <3>3. e[y][w] = e[x][w] /\ e[y][1 - w] = b[x][w]
      BY <1>0, <3>1, <3>2, Below
    <3>4. CASE w = 0
      BY <3>1, <3>2, <3>3, <3>4 DEF Leading, LeftDone
    <3>5. CASE w = 1
      <4>1. b[x][1] = k
        BY <3>1, <3>3, <3>5
      <4>2. b[k][0] = x
        <5>1. Near(S, b)
          BY <1>0 DEF Shape
        <5>2. b[x][1] \in S => b[b[x][1]][1 - 1] = x
          BY <1>0, <3>2, <5>1 DEF Near
        <5> QED BY <1>3, <4>1, <5>2
      <4>3. x = p
        BY <1>4, <4>2
      <4> QED BY <1>0, <4>3 DEF LeftDone
    <3> QED BY <3>2, <3>4, <3>5 DEF Child
  <2> QED BY <2>1, <2>2
<1>8. LeadsOn(t, A, Leading(S, e, k))
  <2> SUFFICES ASSUME NEW a \in A
               PROVE  (\E f \in Child : t.child[a][f] \in A) \/ t.child[a][1] \in Leading(S, e, k)
    BY DEF LeadsOn
  <2>1. CASE a = p
    BY <1>1, <1>2, <2>1 DEF Leading
  <2>2. CASE a # p
    BY <2>2 DEF OnWay
  <2> QED BY <2>1, <2>2
<1>9. Ready(t, S, m)
  <2> SUFFICES ASSUME NEW q, NEW w, q = t.parent[m], w = t.which[m], q # Null
               PROVE  \E X, g : /\ X \subseteq S \ {m} /\ OnWay(Cut(t, q, w), X, q, w)
                                /\ Flat(Cut(t, q, w), (S \ {m}) \ X, g)
    BY DEF Ready
  <2>1. OnWay(Cut(t, q, w), B \ {m}, q, w) /\ Flat(Cut(t, q, w), (S \ {m}) \ (B \ {m}), h)
    BY <1>3, <1>5, <1>7, <1>8, Descends
  <2>2. B \ {m} \subseteq S \ {m}
    BY DEF Leading
  <2> QED BY <2>1, <2>2
<1> QED BY <1>6, <1>9 DEF Frees

\* When nothing is left on its right it is p.
LEMMA ClimbFrees ==
    ASSUME NEW t, NEW S, NEW b, NEW e, Whole(t, S, b, e), NEW A, A \subseteq S, NEW p, NEW d, OnWay(t, A, p, d),
           NEW h, Flat(t, S \ A, h), d \in Child, d = 1 \/ t.child[p][1] = Null
    PROVE  Frees(t, S, p)
<1>1. p \in A /\ p \in S
  BY DEF OnWay
<1>2. Childless(t, p)
  BY DEF OnWay, Child, Childless
<1>3. Ready(t, S, p)
  <2> SUFFICES ASSUME NEW q, NEW w, q = t.parent[p], w = t.which[p], q # Null
               PROVE  \E X, g : /\ X \subseteq S \ {p} /\ OnWay(Cut(t, q, w), X, q, w)
                                /\ Flat(Cut(t, q, w), (S \ {p}) \ X, g)
    BY DEF Ready
  <2>1. OnWay(Cut(t, q, w), A \ {p}, q, w) /\ Flat(Cut(t, q, w), (S \ {p}) \ (A \ {p}), h)
    BY <1>2, Climbs
  <2>2. A \ {p} \subseteq S \ {p}
    OBVIOUS
  <2> QED BY <2>1, <2>2
<1> QED BY <1>1, <1>2, <1>3 DEF Frees

\* The nodes S are left, and the link to the one freed last is side d of p.
Rest(t, S, p, d, fr) ==
    /\ p \in S /\ d \in Child /\ t.child[p][d] \in fr
    /\ \E b, e, A, h : /\ Whole(Cut(t, p, d), S, b, e)
                       /\ A \subseteq S /\ OnWay(Cut(t, p, d), A, p, d) /\ Flat(Cut(t, p, d), S \ A, h)

\* A tree of N nodes of which S are left, with the cookie at side d of p.
Emptying(t, N, S, p, d, fr, num) ==
    /\ N \in Nat /\ N <= MaxNodes /\ S \subseteq 1..N /\ fr = (1..N) \ S /\ num = Cardinality(S) + 1
    /\ t \in Trees /\ t.root \in 1..N
    /\ \/ p = Null /\ S = {}
       \/ Rest(t, S, p, d, fr)

\* What is true while a tree is destroyed.
DestroyInv ==
    IF op.pc = "destroy" THEN \E N, S : Emptying(tree, N, S, op.at, op.side, freed, numnodes)
    ELSE freed = {}

\* Some of the nodes are finitely many, and one less without one of them.
LEMMA Counts ==
    ASSUME NEW N \in Nat, NEW S \in SUBSET (1..N)
    PROVE  /\ Cardinality(1..N) = N /\ Cardinality(S) \in Nat
           /\ \A m \in S : Cardinality(S \ {m}) + 1 = Cardinality(S)
<1>1. IsFiniteSet(1..N) /\ Cardinality(1..N) = IF 1 > N THEN 0 ELSE N - 1 + 1
  BY FS_Interval
<1>2. IsFiniteSet(S)
  BY <1>1, FS_Subset
<1>3. Cardinality(S) \in Nat
  BY <1>2, FS_CardinalityType
<1>4. ASSUME NEW m \in S
      PROVE  Cardinality(S \ {m}) + 1 = Cardinality(S)
  BY <1>2, <1>3, FS_RemoveElement
<1> QED BY <1>1, <1>3, <1>4

\* Handing out a node that can be freed goes on with what is left.
LEMMA HandsOut ==
    ASSUME NEW t, NEW N \in Nat, N <= MaxNodes, NEW S \in SUBSET (1..N), NEW b, NEW e, Whole(t, S, b, e),
           t.root \in 1..N, NEW m, Frees(t, S, m), NEW p, p = t.parent[m], NEW d, p # Null => d = t.which[m],
           NEW fr, fr = ((1..N) \ S) \cup {m}, NEW num, num = Cardinality(S)
    PROVE  Emptying(t, N, S \ {m}, p, d, fr, num)
<1>1. m \in S /\ Childless(t, m) /\ Ready(t, S, m)
  BY DEF Frees
<1>2. fr = (1..N) \ (S \ {m}) /\ m \in fr
  BY <1>1
<1>3. num = Cardinality(S \ {m}) + 1
  BY <1>1, Counts
<1>4. CASE p = Null
  <2>1. Shape(t, S, b, e)
    BY DEF Whole
  <2>2. S = {m}
    BY <1>1, <1>4, <2>1, RootAlone
  <2> QED BY <1>2, <1>3, <1>4, <2>2 DEF Emptying, Whole
<1>5. CASE p # Null
  <2>1. d = t.which[m]
    BY <1>5
  <2>2. /\ p \in S \ {m} /\ d \in Child /\ t.child[p][d] = m
        /\ \E b1, e1 : Whole(Cut(t, p, d), S \ {m}, b1, e1)
    BY <1>1, <1>5, <2>1, LeafGone
  <2>3. \E A, h : /\ A \subseteq S \ {m}
                  /\ OnWay(Cut(t, p, d), A, p, d)
                  /\ Flat(Cut(t, p, d), (S \ {m}) \ A, h)
    BY <1>1, <1>5, <2>1 DEF Ready
  <2>4. Rest(t, S \ {m}, p, d, fr)
    BY <1>2, <2>2, <2>3 DEF Rest
  <2> QED BY <1>2, <1>3, <2>4 DEF Emptying, Whole
<1> QED BY <1>4, <1>5

\* Where the cookie is and what has been freed once m is handed out.
Out(m) ==
    /\ freed' = freed \cup {m}
    /\ op'.pc = "destroy" /\ op'.at = tree'.parent[m] /\ (op'.at # Null => op'.side = tree'.which[m])

\* check_right_side hands out n, or the child on its right.
LEMMA HandOutIs ==
    ASSUME Fields(op), NEW n, HandOut(n)
    PROVE  Out(Handed(tree', n))
<1> PICK m : m = Handed(tree', n)
  OBVIOUS
<1> PICK at, side : at = tree'.parent[m] /\ side = IF tree'.parent[m] = Null THEN 1 ELSE tree'.which[m]
  OBVIOUS
<1>1. /\ freed' = freed \cup {m}
      /\ op' = [op EXCEPT !.pc = "destroy", !.at = at, !.side = side]
  BY Zenon DEF HandOut, Handed
<1>2. Cookie(op, "destroy", at, side, op')
  BY <1>1, Zenon DEF Cookie
<1>3. op'.pc = "destroy" /\ op'.at = at /\ op'.side = side
  BY <1>2, CookieFields
<1> QED BY <1>1, <1>3 DEF Out

\* The first call.
LEMMA FirstHandsOut ==
    ASSUME AvlInv, DestroyInv, DestroyFirst
    PROVE  DestroyInv'
<1>1. /\ op.pc = "idle" /\ numnodes > 0 /\ tree' = tree /\ numnodes' = numnodes
      /\ HandOut(AvlFirst(tree)) /\ freed = {} /\ Fields(op)
  BY DEF DestroyFirst, In, DestroyInv, AvlInv
<1> PICK t, N, m : t = tree /\ N = numnodes /\ m = Handed(t, AvlFirst(t))
  OBVIOUS
<1>2. Out(m)
  BY <1>1, HandOutIs
<1>3. N \in Nat /\ N <= MaxNodes /\ op.at = Null /\ \E h : Formed(t, 1..N, NextTo, h, Owed(op))
  BY <1>1 DEF AvlInv, Standing, Doing
<1> PICK h : Formed(t, 1..N, NextTo, h, Owed(op))
  BY <1>3
<1>4. Owed(op).at = Null
  BY <1>3 DEF Owed, Waits
<1>5. (\E e : Whole(t, 1..N, NextTo, e)) /\ t.root \in 1..N /\ Frees(t, 1..N, m)
  BY <1>1, <1>3, <1>4, FirstFrees
<1> PICK S, b : S = 1..N /\ b = NextTo
  OBVIOUS
<1> PICK e : Whole(t, S, b, e)
  BY <1>5
<1>6. freed' = ((1..N) \ S) \cup {m} /\ S \in SUBSET (1..N) /\ Frees(t, S, m)
  BY <1>1, <1>2, <1>5 DEF Out
<1>7. Cardinality(S) = N
  BY <1>3, Counts
<1>8. op'.at = t.parent[m] /\ (op'.at # Null => op'.side = t.which[m])
  BY <1>1, <1>2 DEF Out
<1>9. Emptying(t, N, S \ {m}, op'.at, op'.side, freed', N)
  BY <1>3, <1>5, <1>6, <1>7, <1>8, HandsOut
<1>10. Emptying(tree', N, S \ {m}, op'.at, op'.side, freed', numnodes')
  BY <1>1, <1>9
<1> QED BY <1>2, <1>10 DEF DestroyInv, Out

\* Each next call.
LEMMA NextHandsOut ==
    ASSUME AvlInv, DestroyInv, DestroyNext
    PROVE  DestroyInv'
<1> PICK p, d, u : p = op.at /\ d = op.side /\ u = Cut(tree, p, d)
  OBVIOUS
<1>1. op.pc = "destroy" /\ p # Null /\ tree' = u /\ numnodes' = numnodes - 1 /\ Fields(op)
  BY Zenon DEF DestroyNext, In, AvlInv, Cut
<1>2. PICK N, S : Emptying(tree, N, S, p, d, freed, numnodes)
  BY <1>1 DEF DestroyInv
<1>3. /\ N \in Nat /\ N <= MaxNodes /\ S \in SUBSET (1..N) /\ freed = (1..N) \ S /\ numnodes = Cardinality(S) + 1
      /\ tree \in Trees /\ tree.root \in 1..N /\ Rest(tree, S, p, d, freed)
  BY <1>1, <1>2 DEF Emptying
<1>4. p \in S /\ d \in Child
  BY <1>3 DEF Rest
<1>5. PICK b, e, A, h : Whole(u, S, b, e) /\ A \subseteq S /\ OnWay(u, A, p, d) /\ Flat(u, S \ A, h)
  BY <1>3 DEF Rest
<1>6. u.root = tree.root /\ u.parent = tree.parent /\ u.which = tree.which
  BY <1>3 DEF Cut, Trees
<1>7. numnodes' = Cardinality(S)
  <2>1. Cardinality(S) \in Nat
    BY <1>3, Counts
  <2> QED BY <1>1, <1>3, <2>1
<1>8. ASSUME NEW m, Frees(u, S, m), Out(m)
      PROVE  DestroyInv'
  <2>1. freed' = ((1..N) \ S) \cup {m}
    BY <1>3, <1>8 DEF Out
  <2>2. op'.at = u.parent[m] /\ (op'.at # Null => op'.side = u.which[m])
    BY <1>1, <1>8 DEF Out
  <2>3. u.root \in 1..N
    BY <1>3, <1>6
  <2>4. Emptying(u, N, S \ {m}, op'.at, op'.side, freed', numnodes')
    BY <1>3, <1>5, <1>7, <1>8, <2>1, <2>2, <2>3, HandsOut
  <2>5. Emptying(tree', N, S \ {m}, op'.at, op'.side, freed', numnodes')
    BY <1>1, <2>4
  <2> QED BY <1>8, <2>5 DEF DestroyInv, Out
<1>9. CASE GoesUp(u, p, d)
  <2>1. Frees(u, S, p)
    <3>1. d = 1 \/ u.child[p][1] = Null
      BY <1>9 DEF GoesUp
    <3> QED BY <1>4, <1>5, <3>1, ClimbFrees
  <2>2. Out(p)
    <3> PICK at, side : at = tree.parent[p] /\ side = IF tree.parent[p] = Null THEN 1 ELSE tree.which[p]
      OBVIOUS
    <3>1. freed' = freed \cup {p} /\ op' = [op EXCEPT !.at = at, !.side = side]
      BY <1>1, <1>9, Zenon DEF DestroyNext
    <3>2. Cookie(op, "destroy", at, side, op')
      BY <1>1, <3>1, Zenon DEF Cookie
    <3>3. op'.pc = "destroy" /\ op'.at = at /\ op'.side = side
      BY <1>1, <3>2, CookieFields
    <3> QED BY <1>1, <1>6, <3>1, <3>3 DEF Out
  <2> QED BY <1>8, <2>1, <2>2
<1>10. CASE ~GoesUp(u, p, d)
  <2>1. d = 0 /\ u.child[p][1] # Null
    BY <1>4, <1>10 DEF GoesUp, Child
  <2>2. HandOut(Extreme(tree', tree'.child[p][1], 0))
    BY <1>1, <1>10, Zenon DEF DestroyNext
  <2>3. Out(Handed(u, Extreme(u, u.child[p][1], 0)))
    BY <1>1, <2>2, HandOutIs
  <2>4. OnWay(u, A, p, 0)
    BY <1>5, <2>1
  <2>5. Frees(u, S, Handed(u, Extreme(u, u.child[p][1], 0)))
    BY <1>5, <2>1, <2>4, NextFrees
  <2> QED BY <1>8, <2>3, <2>5
<1> QED BY <1>9, <1>10

\* No destruction is in progress before or after the step.
Undisturbed == freed' = freed /\ op.pc # "destroy" /\ op'.pc # "destroy"

\* The end of an operation does not begin one.
LEMMA EndsQuietly ==
    /\ Idle.pc # "destroy"
    /\ \A again : Removed(again).pc # "destroy"
<1>1. Idle.pc # "destroy"
  BY DEF Idle
<1>2. ASSUME NEW again
      PROVE  Removed(again).pc # "destroy"
  <2>1. /\ [Idle EXCEPT !.pc = "idle", !.again = again].pc = "idle"
        /\ [Idle EXCEPT !.pc = "add", !.again = again].pc = "add"
    BY DEF Idle
  <2>2. \/ Removed(again) = [Idle EXCEPT !.pc = "idle", !.again = again]
        \/ Removed(again) = [Idle EXCEPT !.pc = "add", !.again = again]
    BY Zenon DEF Removed
  <2> QED BY <2>1, <2>2
<1> QED BY <1>1, <1>2

\* Nor does a turn of a loop.
LEMMA UpQuietly ==
    ASSUME AvlInv, op.pc # "destroy"
    PROVE  Up.pc # "destroy" /\ UpOr(Up).pc # "destroy"
<1>1. Up.pc # "destroy"
  <2>1. Fields(op)
    BY DEF AvlInv
  <2>2. Up = [pc |-> op.pc, at |-> tree.parent[op.at], side |-> tree.which[op.at], again |-> op.again]
    BY <2>1, UpFields
  <2> QED BY <2>2
<1>2. UpOr(Up) = Removed(Up.again) \/ UpOr(Up) = Up
  BY Zenon DEF UpOr
<1> QED BY <1>1, <1>2, EndsQuietly

\* Nor the beginning of another operation.
LEMMA LinkQuietly ==
    ASSUME NEW r, NEW at, NEW side, Link(r, at, side)
    PROVE  freed' = freed /\ op'.pc # "destroy"
<1> PICK p : op' = [pc |-> "insert", at |-> p, side |-> side, again |-> 0] /\ freed' = freed
  BY Zenon DEF Link
<1>1. op'.pc = "insert"
  OBVIOUS
<1> QED BY <1>1

\* Nor the removal of a node.
LEMMA UnlinkQuietly ==
    ASSUME NEW n, NEW again, Unlink(n, again)
    PROVE  freed' = freed /\ op'.pc # "destroy"
<1>1. PICK p, w : /\ op' = Removed(again) \/ op' = [pc |-> "remove", at |-> p, side |-> w, again |-> again]
                  /\ freed' = freed
  BY Zenon DEF Unlink
<1>2. CASE op' = Removed(again)
  BY <1>1, <1>2, EndsQuietly
<1>3. CASE op' = [pc |-> "remove", at |-> p, side |-> w, again |-> again]
  BY <1>1, <1>3
<1> QED BY <1>1, <1>2, <1>3

\* The steps of the insertions.
LEMMA InsertsQuietly ==
    ASSUME AvlInv,
           \/ \E r \in 1..(numnodes + 1) : Insert(r)
           \/ \E h \in 1..numnodes, d \in Child : InsertHere(h, d)
           \/ InsertLeaves \/ InsertEven \/ InsertUp \/ InsertRotate \/ AddAgain
    PROVE  Undisturbed
<1>1. ASSUME NEW r, Insert(r)
      PROVE  Undisturbed
  <2>1. op.pc = "idle" /\ \E at, side : Link(r, at, side)
    BY <1>1, Zenon DEF Insert, In, LinkFound
  <2> QED BY <2>1, LinkQuietly DEF Undisturbed
<1>2. ASSUME NEW h, NEW d, InsertHere(h, d)
      PROVE  Undisturbed
  <2>1. op.pc = "idle" /\ \E r, at, side : Link(r, at, side)
    BY <1>2, Zenon DEF InsertHere, In
  <2> QED BY <2>1, LinkQuietly DEF Undisturbed
<1>3. CASE InsertLeaves \/ InsertEven \/ InsertRotate
  <2>1. op.pc = "insert" /\ op' = Idle /\ freed' = freed
    BY <1>3, Zenon DEF InsertLeaves, InsertEven, InsertRotate, In
  <2> QED BY <2>1, EndsQuietly DEF Undisturbed
<1>4. CASE InsertUp
  <2>1. op.pc = "insert" /\ op' = Up /\ freed' = freed
    BY <1>4, Zenon DEF InsertUp, In
  <2> QED BY <2>1, UpQuietly DEF Undisturbed
<1>5. CASE AddAgain
  <2>1. op.pc = "add" /\ \E r, at, side : Link(r, at, side)
    BY <1>5, Zenon DEF AddAgain, In, LinkFound
  <2> QED BY <2>1, LinkQuietly DEF Undisturbed
<1> QED BY <1>1, <1>2, <1>3, <1>4, <1>5

\* The steps of the removals.
LEMMA RemovesQuietly ==
    ASSUME AvlInv,
           \/ \E d \in 1..numnodes : AvlRemove(d)
           \/ \E d \in 1..numnodes, k \in 1..(numnodes + 1) : Update(d, Key(k) - 1)
           \/ RemoveStops \/ RemoveEven \/ RemoveRotate
    PROVE  Undisturbed
<1>1. ASSUME NEW d, AvlRemove(d)
      PROVE  Undisturbed
  <2>1. op.pc = "idle" /\ Unlink(d, 0)
    BY <1>1 DEF AvlRemove, In
  <2> QED BY <2>1, UnlinkQuietly DEF Undisturbed
<1>2. ASSUME NEW d, NEW v, Update(d, v)
      PROVE  Undisturbed
  <2>1. op.pc = "idle" /\ \E again : Unlink(d, again)
    BY <1>2, Zenon DEF Update, In
  <2> QED BY <2>1, UnlinkQuietly DEF Undisturbed
<1>3. CASE RemoveStops
  <2>1. op.pc = "remove" /\ op' = Removed(op.again) /\ freed' = freed
    BY <1>3, Zenon DEF RemoveStops, In
  <2> QED BY <2>1, EndsQuietly DEF Undisturbed
<1>4. CASE RemoveEven
  <2>1. op.pc = "remove" /\ op' = UpOr(Up) /\ freed' = freed
    BY <1>4, Zenon DEF RemoveEven, In
  <2> QED BY <2>1, UpQuietly DEF Undisturbed
<1>5. CASE RemoveRotate
  <2>1. op.pc = "remove" /\ (op' = UpOr(Up) \/ op' = Removed(op.again)) /\ freed' = freed
    BY <1>5, Zenon DEF RemoveRotate, In
  <2> QED BY <2>1, UpQuietly, EndsQuietly DEF Undisturbed
<1> QED BY <1>1, <1>2, <1>3, <1>4, <1>5

\* The invariant of the destruction.
LEMMA Destroys == Spec => [](AvlInv /\ DestroyInv)
<1>1. Init => DestroyInv
  BY EndsQuietly DEF Init, DestroyInv
<1>2. AvlInv /\ DestroyInv /\ [Next]_vars => DestroyInv'
  <2> SUFFICES ASSUME AvlInv, DestroyInv, [Next]_vars
               PROVE  DestroyInv'
    OBVIOUS
  <2>1. CASE Undisturbed
    BY <2>1 DEF Undisturbed, DestroyInv
  <2>2. CASE DestroyFirst
    BY <2>2, FirstHandsOut
  <2>3. CASE DestroyNext
    BY <2>3, NextHandsOut
  <2>4. CASE DestroyLast
    <3>1. op' = Idle /\ freed' = {}
      BY <2>4 DEF DestroyLast
    <3> QED BY <3>1, EndsQuietly DEF DestroyInv
  <2>5. CASE UNCHANGED vars
    BY <2>5 DEF vars, DestroyInv, Emptying
  <2>6. CASE \/ \E r \in 1..(numnodes + 1) : Insert(r)
             \/ \E h \in 1..numnodes, d \in Child : InsertHere(h, d)
             \/ InsertLeaves \/ InsertEven \/ InsertUp \/ InsertRotate \/ AddAgain
    BY <2>1, <2>6, InsertsQuietly
  <2>7. CASE \/ \E d \in 1..numnodes : AvlRemove(d)
             \/ \E d \in 1..numnodes, k \in 1..(numnodes + 1) : Update(d, Key(k) - 1)
             \/ RemoveStops \/ RemoveEven \/ RemoveRotate
    BY <2>1, <2>7, RemovesQuietly
  <2> QED BY <2>2, <2>3, <2>4, <2>5, <2>6, <2>7 DEF Next
<1> QED BY <1>1, <1>2, Stands, PTL DEF Spec

\* What is below n, up to the ends.
Reach(S, e, n) == {x \in S : e[n][0] <= x /\ x <= e[n][1]}

\* The same of what is below side d of n.
ReachOn(t, S, e, n, d) == IF t.child[n][d] = Null THEN {} ELSE Reach(S, e, t.child[n][d])

\* What is below a node is the node, and what is below its children.
LEMMA ReachParts ==
    ASSUME NEW t, NEW S, NEW b, NEW e, Shape(t, S, b, e), Close(S, b), NEW n \in S
    PROVE  Reach(S, e, n) = {n} \cup ReachOn(t, S, e, n, 0) \cup ReachOn(t, S, e, n, 1)
<1>0. S \subseteq Int /\ Null \notin S /\ 0 \in Child /\ 1 \in Child
  BY Sides DEF Shape, Child
<1>1. /\ n \in Int /\ e[n][0] \in Int /\ e[n][1] \in Int /\ e[n][0] <= n /\ n <= e[n][1]
      /\ b[n][0] \in Int /\ b[n][0] < n /\ b[n][1] \in Int /\ n < b[n][1]
  <2>1. \A d \in Child : b[n][d] \in Int /\ Before(d, b[n][d], n)
    BY DEF Shape, Near
  <2>2. n \in Int /\ e[n][0] \in Int /\ e[n][1] \in Int /\ e[n][0] <= n /\ n <= e[n][1]
    BY Spans DEF Shape
  <2>3. b[n][0] \in Int /\ Before(0, b[n][0], n) /\ b[n][1] \in Int /\ Before(1, b[n][1], n)
    BY <1>0, <2>1
  <2> QED BY <2>2, <2>3 DEF Before
<1>2. ASSUME NEW x \in S
      PROVE  (x < n => x <= b[n][0]) /\ (n < x => b[n][1] <= x)
  <2>1. \A d \in Child : Before(d, x, n) => ~Before(d, b[n][d], x)
    BY DEF Close
  <2> QED BY <1>0, <1>1, <2>1 DEF Before
<1>3. ASSUME NEW x \in S
      PROVE  x \in ReachOn(t, S, e, n, 0) <=> (x < n /\ x \in Reach(S, e, n))
  <2> PICK c : c = t.child[n][0]
    OBVIOUS
  <2>1. CASE c = Null
    <3>0. t.child[n][0] = Null
      BY <2>1
    <3>1. e[n][0] = n
      BY <1>0, <3>0, NoneBelow
    <3> QED BY <1>0, <1>1, <2>1, <3>1 DEF Reach, ReachOn
  <2>2. CASE c # Null
    <3>1. e[c][0] = e[n][0] /\ e[c][1 - 0] = b[n][0]
      BY <1>0, <2>2, Below
    <3> QED BY <1>0, <1>1, <1>2, <2>2, <3>1 DEF Reach, ReachOn
  <2> QED BY <2>1, <2>2
<1>4. ASSUME NEW x \in S
      PROVE  x \in ReachOn(t, S, e, n, 1) <=> (n < x /\ x \in Reach(S, e, n))
  <2> PICK c : c = t.child[n][1]
    OBVIOUS
  <2>1. CASE c = Null
    <3>0. t.child[n][1] = Null
      BY <2>1
    <3>1. e[n][1] = n
      BY <1>0, <3>0, NoneBelow
    <3> QED BY <1>0, <1>1, <2>1, <3>1 DEF Reach, ReachOn
  <2>2. CASE c # Null
    <3>1. e[c][1] = e[n][1] /\ e[c][1 - 1] = b[n][1]
      BY <1>0, <2>2, Below
    <3> QED BY <1>0, <1>1, <1>2, <2>2, <3>1 DEF Reach, ReachOn
  <2> QED BY <2>1, <2>2
<1>5. n \in Reach(S, e, n)
  BY <1>1 DEF Reach
<1>6. ReachOn(t, S, e, n, 0) \subseteq S /\ ReachOn(t, S, e, n, 1) \subseteq S /\ Reach(S, e, n) \subseteq S
  BY DEF Reach, ReachOn
<1>7. \A x \in S : x = n \/ x < n \/ n < x
  BY <1>0
<1> QED BY <1>3, <1>4, <1>5, <1>6, <1>7

\* All nodes are below the root.
LEMMA RootReach ==
    ASSUME NEW t, NEW S, NEW b, NEW e, Shape(t, S, b, e), Close(S, b), S # {}
    PROVE  t.root \in S /\ Reach(S, e, t.root) = S
<1>0. S \subseteq Int /\ 0 \in Child /\ 1 \in Child
  BY Sides DEF Shape, Child
<1> PICK r : r = t.root
  OBVIOUS
<1>1. r \in S /\ \A d \in Child : b[e[r][d]][d] \notin S
  BY DEF Shape, Top
<1>2. \A d \in Child : e[r][d] \in S
  BY <1>1 DEF Shape, Ends
<1>3. ASSUME NEW x \in S, NEW d \in Child
      PROVE  ~Before(d, x, e[r][d])
  BY <1>1, <1>2 DEF Close
<1>4. ASSUME NEW x \in S
      PROVE  e[r][0] <= x /\ x <= e[r][1]
  <2>1. ~Before(0, x, e[r][0]) /\ ~Before(1, x, e[r][1])
    BY <1>0, <1>3
  <2>2. x \in Int /\ e[r][0] \in Int /\ e[r][1] \in Int
    BY <1>0, <1>2
  <2> QED BY <2>1, <2>2 DEF Before
<1> QED BY <1>1, <1>4 DEF Reach

\* The turn of the recursion of DestroyOnce.
UnderBy(t, fr, f, n) == {n} \cup UNION {f[c] : c \in {t.child[n][0], t.child[n][1]} \ ({Null} \cup fr)}
UnderTurn(t, fr, f)  == [n \in Nodes |-> UnderBy(t, fr, f, n)]
Under(t, fr)         == CHOOSE f : f = UnderTurn(t, fr, f)

\* What can still be reached.
LeftOf(t, fr) == IF t.root \in fr THEN {} ELSE Under(t, fr)[t.root]

\* The same turn by the links of u, which has none to what was freed.
SideUnder(u, f, n, d) == IF u.child[n][d] = Null THEN {} ELSE f[u.child[n][d]]
Uncut(t, u, fr)    ==
    \A n \in Nodes, d \in Child :
        \/ u.child[n][d] = t.child[n][d] /\ t.child[n][d] \notin fr
        \/ u.child[n][d] = Null /\ t.child[n][d] \in fr

\* Node by node they compute the same.
LEMMA UnderParts ==
    ASSUME NEW t, NEW u, NEW fr, Uncut(t, u, fr), NEW f, NEW n \in Nodes
    PROVE  UnderBy(t, fr, f, n) = {n} \cup SideUnder(u, f, n, 0) \cup SideUnder(u, f, n, 1)
<1> PICK x, y : x = t.child[n][0] /\ y = t.child[n][1]
  OBVIOUS
<1>1. /\ (u.child[n][0] = x /\ x \notin fr) \/ (u.child[n][0] = Null /\ x \in fr)
      /\ (u.child[n][1] = y /\ y \notin fr) \/ (u.child[n][1] = Null /\ y \in fr)
  BY DEF Uncut, Child
<1>2. UnderBy(t, fr, f, n) = {n} \cup (IF x = Null \/ x \in fr THEN {} ELSE f[x])
                                 \cup (IF y = Null \/ y \in fr THEN {} ELSE f[y])
  BY DEF UnderBy
<1>3. SideUnder(u, f, n, 0) = IF x = Null \/ x \in fr THEN {} ELSE f[x]
  BY <1>1 DEF SideUnder
<1>4. SideUnder(u, f, n, 1) = IF y = Null \/ y \in fr THEN {} ELSE f[y]
  BY <1>1 DEF SideUnder
<1> QED BY <1>2, <1>3, <1>4

\* The recursion computes what is below each node that is left.
LEMMA UnderIs ==
    ASSUME NEW t, NEW u, NEW S, NEW b, NEW e, Whole(u, S, b, e), NEW fr, Uncut(t, u, fr)
    PROVE  \A n \in S : Under(t, fr)[n] = Reach(S, e, n)
<1>0. /\ Shape(u, S, b, e) /\ Close(S, b) /\ Bare(u, S) /\ S \subseteq Nodes /\ Null \notin S
      /\ 0 \in Child /\ 1 \in Child
  BY Sides DEF Whole, Shape, Child
<1>1. ASSUME NEW n \in S, NEW f, \A d \in Child : u.child[n][d] # Null => f[u.child[n][d]] = Reach(S, e, u.child[n][d])
      PROVE  UnderBy(t, fr, f, n) = Reach(S, e, n)
  <2>1. SideUnder(u, f, n, 0) = ReachOn(u, S, e, n, 0) /\ SideUnder(u, f, n, 1) = ReachOn(u, S, e, n, 1)
    BY <1>0, <1>1 DEF SideUnder, ReachOn
  <2>2. UnderBy(t, fr, f, n) = {n} \cup SideUnder(u, f, n, 0) \cup SideUnder(u, f, n, 1)
    <3>1. n \in Nodes
      BY <1>0
    <3> QED BY <3>1, UnderParts
  <2>3. Reach(S, e, n) = {n} \cup ReachOn(u, S, e, n, 0) \cup ReachOn(u, S, e, n, 1)
    BY <1>0, ReachParts
  <2> QED BY <2>1, <2>2, <2>3
<1>2. \E f : f = UnderTurn(t, fr, f)
  <2>1. PICK w : w = [n \in Nodes |-> IF n \in S THEN Reach(S, e, n) ELSE {n}]
    OBVIOUS
  <2>2. ASSUME NEW n \in Nodes
        PROVE  w[n] = UnderBy(t, fr, w, n)
    <3>1. CASE n \notin S
      <4>1. SideUnder(u, w, n, 0) = {} /\ SideUnder(u, w, n, 1) = {}
        BY <1>0, <3>1 DEF Bare, SideUnder
      <4>2. UnderBy(t, fr, w, n) = {n} \cup SideUnder(u, w, n, 0) \cup SideUnder(u, w, n, 1)
        BY UnderParts
      <4> QED BY <2>1, <3>1, <4>1, <4>2
    <3>2. CASE n \in S
      <4>1. ASSUME NEW d \in Child, u.child[n][d] # Null
            PROVE  w[u.child[n][d]] = Reach(S, e, u.child[n][d])
        <5>1. u.child[n][d] \in S
          BY <1>0, <3>2, <4>1, Below
        <5> QED BY <1>0, <2>1, <5>1
      <4>2. UnderBy(t, fr, w, n) = Reach(S, e, n)
        BY <1>1, <3>2, <4>1
      <4> QED BY <2>1, <3>2, <4>2
    <3> QED BY <3>1, <3>2
  <2>3. w = UnderTurn(t, fr, w)
    BY <2>1, <2>2 DEF UnderTurn
  <2> QED BY <2>3
<1>3. PICK under : under = Under(t, fr)
  OBVIOUS
<1>4. under = UnderTurn(t, fr, under)
  BY <1>2, <1>3, Zenon DEF Under
<1>5. \A n \in S : under[n] = UnderBy(t, fr, under, n)
  BY <1>0, <1>4 DEF UnderTurn
<1> DEFINE Bad == {n \in S : under[n] # Reach(S, e, n)}
<1>6. Bad = {}
  <2> SUFFICES ASSUME Bad # {}
               PROVE  FALSE
    OBVIOUS
  <2>1. Bad \in SUBSET S
    OBVIOUS
  <2>2. PICK n \in Bad : \A d \in Child : u.child[n][d] \notin Bad
    <3> HIDE DEF Bad
    <3> QED BY <1>0, <2>1, Lowest
  <2>3. n \in S /\ under[n] # Reach(S, e, n)
    OBVIOUS
  <2>4. ASSUME NEW d \in Child, u.child[n][d] # Null
        PROVE  under[u.child[n][d]] = Reach(S, e, u.child[n][d])
    <3>1. u.child[n][d] \in S
      BY <1>0, <2>3, <2>4, Below
    <3> QED BY <2>2, <3>1
  <2> HIDE DEF Bad
  <2>5. UnderBy(t, fr, under, n) = Reach(S, e, n)
    BY <1>1, <2>3, <2>4
  <2> QED BY <1>5, <2>3, <2>5
<1> QED BY <1>3, <1>6

\* What can still be reached is what is left.
LEMMA LeftIs ==
    ASSUME NEW t, NEW N, NEW S, NEW p, NEW d, NEW fr, NEW num, Emptying(t, N, S, p, d, fr, num)
    PROVE  /\ LeftOf(t, fr) = S
           /\ \A n \in S, f \in Child : t.child[n][f] \in fr => n = p /\ f = d
<1>1. fr = (1..N) \ S /\ t.root \in 1..N /\ t \in Trees /\ N \in Nat /\ S \subseteq 1..N
  BY DEF Emptying
<1>2. CASE S = {}
  BY <1>1, <1>2 DEF LeftOf
<1>3. CASE S # {}
  <2>1. Rest(t, S, p, d, fr)
    BY <1>3 DEF Emptying
  <2>2. p \in S /\ d \in Child /\ t.child[p][d] \in fr
    BY <2>1 DEF Rest
  <2>3. PICK u, b, e : u = Cut(t, p, d) /\ Whole(u, S, b, e)
    BY <2>1 DEF Rest
  <2>4. Shape(u, S, b, e) /\ Close(S, b) /\ Bare(u, S) /\ S \subseteq Nodes /\ Null \notin fr
    BY <1>1, <2>3 DEF Whole, Shape, Null
  <2>5. Hung(t, p, d, Null, u)
    BY <1>1, <2>2, <2>3, <2>4, CutHangs
  <2>6. /\ u.root = t.root
        /\ \A n \in Nodes, f \in Child : u.child[n][f] = IF n = p /\ f = d THEN Null ELSE t.child[n][f]
    BY <2>2, <2>4, <2>5, Sides DEF Hung
  <2>7. ASSUME NEW n \in Nodes, NEW f \in Child
        PROVE  u.child[n][f] \notin fr
    <3>1. CASE u.child[n][f] = Null
      BY <2>4, <3>1
    <3>2. CASE u.child[n][f] # Null
      <4>1. n \in S
        BY <2>4, <3>2 DEF Bare
      <4>2. u.child[n][f] \in S
        BY <2>4, <3>2, <4>1, Below
      <4> QED BY <1>1, <4>2
    <3> QED BY <3>1, <3>2
  <2>8. Uncut(t, u, fr)
    BY <2>2, <2>6, <2>7 DEF Uncut
  <2>9. \A n \in S : Under(t, fr)[n] = Reach(S, e, n)
    BY <2>3, <2>8, UnderIs
  <2>10. t.root \in S /\ Reach(S, e, t.root) = S
    BY <1>3, <2>4, <2>6, RootReach
  <2>11. LeftOf(t, fr) = S
    BY <1>1, <2>9, <2>10 DEF LeftOf
  <2> QED BY <2>4, <2>6, <2>7, <2>11
<1> QED BY <1>2, <1>3

\* What DestroyOnce says of the nodes left.
HandsEach(left, num) ==
    /\ op.at \notin freed
    /\ left \cap freed = {}
    /\ Cardinality(left) = num
    /\ left \cup freed = 1..Cardinality(left \cup freed)
    /\ \A n \in left, d \in Child : tree.child[n][d] \in freed => n = op.at /\ d = op.side

\* It is that.
LEMMA DestroyOnceIs ==
    ASSUME op.pc = "destroy" => HandsEach(LeftOf(tree, freed), numnodes - 1)
    PROVE  DestroyOnce
BY Zenon DEF DestroyOnce, HandsEach, LeftOf, Under, UnderTurn, UnderBy, In

\* Destroying a tree hands out every node once, and goes on without a look at a node that was freed.
THEOREM DestroysOnce == Spec => []DestroyOnce
<1>1. AvlInv /\ DestroyInv => DestroyOnce
  <2> SUFFICES ASSUME DestroyInv, op.pc = "destroy"
               PROVE  HandsEach(LeftOf(tree, freed), numnodes - 1)
    BY DestroyOnceIs
  <2>1. PICK N, S : Emptying(tree, N, S, op.at, op.side, freed, numnodes)
    BY DEF DestroyInv
  <2>2. /\ LeftOf(tree, freed) = S
        /\ \A n \in S, f \in Child : tree.child[n][f] \in freed => n = op.at /\ f = op.side
    BY <2>1, LeftIs
  <2>3. N \in Nat /\ S \in SUBSET (1..N) /\ freed = (1..N) \ S /\ numnodes = Cardinality(S) + 1
    BY <2>1 DEF Emptying
  <2>4. S \cup freed = 1..N /\ S \cap freed = {}
    BY <2>3
  <2>5. Cardinality(1..N) = N /\ Cardinality(S) \in Nat
    BY <2>3, Counts
  <2>6. op.at \notin freed
    <3>1. op.at = Null \/ op.at \in S
      BY <2>1 DEF Emptying, Rest
    <3> QED BY <2>3, <3>1 DEF Null
  <2>7. Cardinality(S) = numnodes - 1
    BY <2>3, <2>5
  <2>8. HandsEach(S, numnodes - 1)
    BY <2>2, <2>4, <2>5, <2>6, <2>7 DEF HandsEach
  <2> QED BY <2>2, <2>8
<1> QED BY <1>1, Destroys, PTL

=============================================================================
