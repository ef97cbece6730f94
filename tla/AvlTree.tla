------------------------------- MODULE AvlTree -------------------------------
(****************************************************************************)
(* libspl/avl.c: the balanced tree in which the lock manager keeps its      *)
(* nodes, pointer by pointer.  An operation is an action up to its loop,    *)
(* and every turn of the loop that restores the balance is one.             *)
(*                                                                          *)
(* Of the keys only their order matters, so a node is named by the place of *)
(* its key among the keys in the tree: the names are 1..numnodes, and an    *)
(* insertion or a removal renames the nodes behind it.  Node n has the key  *)
(* 2n, and the odd numbers are the keys that are not in the tree.           *)
(****************************************************************************)
EXTENDS Integers, FiniteSets

CONSTANT MaxNodes    \* bound: nodes in the tree

ASSUME NodesAssumption == MaxNodes \in Nat

VARIABLES
    tree,       \* avl_root, and the avl_node of each node
    numnodes,   \* avl_numnodes
    op,         \* the operation in progress: the loop it is in, its variables
                \* node (at) and which_child (side), and the place at which an
                \* object that was removed is added again, or 0; while the tree
                \* is destroyed, at and side are the cookie
    freed       \* the nodes that avl_destroy_nodes has handed out

vars == <<tree, numnodes, op, freed>>

Null   == 0
Nodes  == 1..MaxNodes
Child  == {0, 1}
Key(n) == 2 * n

Leaf  == [d \in Child |-> Null]
Blank == [root    |-> Null,
          child   |-> [n \in Nodes |-> Leaf],
          parent  |-> [n \in Nodes |-> Null],
          which   |-> [n \in Nodes |-> 0],
          balance |-> [n \in Nodes |-> 0]]

Idle == [pc |-> "idle", at |-> Null, side |-> 0, again |-> 0]

\* avl_create.
Init == tree = Blank /\ numnodes = 0 /\ op = Idle /\ freed = {}

-----------------------------------------------------------------------------
(* Finding and walking.                                                     *)

\* The last node from n on in direction d.
Extreme(t, n, d) ==
    LET far[m \in Nodes] == IF t.child[m][d] = Null THEN m ELSE far[t.child[m][d]]
    IN  IF n = Null THEN Null ELSE far[n]

AvlFirst(t) == Extreme(t, t.root, 0)
AvlLast(t)  == Extreme(t, t.root, 1)

\* Each operator named ...Bug is the definition below it with a plausible
\* mistake.  No specification uses it: it shows that a property can fail.

\* The way up ends one turn too early.
WalkBug(t, n, left) ==
    IF t.child[n][left] # Null THEN Extreme(t, t.child[n][left], 1 - left)
    ELSE t.parent[n]

\* avl_walk: down on the side walked to, or up until the way comes from the other.
Walk(t, n, left) ==
    LET up[m \in Nodes] == IF t.parent[m] = Null \/ t.which[m] = 1 - left
                           THEN t.parent[m] ELSE up[t.parent[m]]
    IN  IF t.child[n][left] # Null THEN Extreme(t, t.child[n][left], 1 - left)
        ELSE up[n]

\* avl_find: the node with key v, or where a node with it belongs.
Find(t, v) ==
    LET search[n \in Nodes] ==
            LET d == IF v > Key(n) THEN 1 ELSE 0 IN
            IF v = Key(n) THEN [node |-> n, at |-> Null, side |-> 0]
            ELSE IF t.child[n][d] = Null THEN [node |-> Null, at |-> n, side |-> d]
            ELSE search[t.child[n][d]]
    IN  IF t.root = Null THEN [node |-> Null, at |-> Null, side |-> 0] ELSE search[t.root]

\* avl_nearest.
Nearest(t, where, d) ==
    IF where.at = Null \/ where.side # d THEN where.at ELSE Walk(t, where.at, d)

-----------------------------------------------------------------------------
(* Links.                                                                   *)

\* The child index of a node that moves is left as it was.
HangBug(t, p, w, c) ==
    [root    |-> IF p = Null THEN c ELSE t.root,
     child   |-> IF p = Null THEN t.child ELSE [t.child EXCEPT ![p][w] = c],
     parent  |-> IF c = Null THEN t.parent ELSE [t.parent EXCEPT ![c] = p],
     which   |-> t.which,
     balance |-> t.balance]

\* c, or nothing, becomes child w of p, or the root.
Hang(t, p, w, c) ==
    [root    |-> IF p = Null THEN c ELSE t.root,
     child   |-> IF p = Null THEN t.child ELSE [t.child EXCEPT ![p][w] = c],
     parent  |-> IF c = Null THEN t.parent ELSE [t.parent EXCEPT ![c] = p],
     which   |-> IF c = Null THEN t.which ELSE [t.which EXCEPT ![c] = w],
     balance |-> t.balance]

\* The same tree when each node n that is in it is called name[n].
Renamed(t, name) ==
    LET new(n) == IF n = Null THEN Null ELSE name[n]
        old(m) == CHOOSE n \in DOMAIN name : name[n] = m
        kept   == {name[n] : n \in DOMAIN name}
    IN  [root    |-> new(t.root),
         child   |-> [m \in Nodes |-> IF m \in kept THEN [d \in Child |-> new(t.child[old(m)][d])] ELSE Leaf],
         parent  |-> [m \in Nodes |-> IF m \in kept THEN new(t.parent[old(m)]) ELSE Null],
         which   |-> [m \in Nodes |-> IF m \in kept THEN t.which[old(m)] ELSE 0],
         balance |-> [m \in Nodes |-> IF m \in kept THEN t.balance[old(m)] ELSE 0]]

-----------------------------------------------------------------------------
(* avl_rotation, of node n whose new balance is bal.                        *)

\* The outer nodes of a double rotation are both taken to be even.
PassedBug(b, heavy) == 0

\* What an outer node keeps of the balance b of the one in the middle.
Passed(b, heavy) == IF b = heavy THEN -heavy ELSE 0

\* Node n, the parent of c, becomes its child d, and gets what was there.
Lowered(t, n, c, d) == Hang(Hang(t, n, 1 - d, t.child[c][d]), c, d, n)

\* The two rotations: what comes to the place of n, which it has still to be linked to.
Once(t, n, left)  == Lowered(t, n, t.child[n][left], 1 - left)
Twice(t, n, left) == LET c == t.child[n][left]
                         g == t.child[c][1 - left]
                     IN  Lowered(Lowered(t, c, g, left), n, g, 1 - left)

Rotation(t, n, bal) ==
    LET left  == IF bal < 0 THEN 0 ELSE 1
        leftHeavy  == IF bal < 0 THEN -1 ELSE 1
        rightHeavy == -leftHeavy
        c == t.child[n][left]
        g == t.child[c][1 - left]
        b == t.balance[c] + rightHeavy
    IN  IF t.balance[c] # rightHeavy
        THEN [tree |-> [Hang(Once(t, n, left), t.parent[n], t.which[n], c)
                        EXCEPT !.balance = [t.balance EXCEPT ![n] = -b, ![c] = b]],
              shorter |-> b = 0]
        ELSE [tree |-> [Hang(Twice(t, n, left), t.parent[n], t.which[n], g)
                        EXCEPT !.balance = [t.balance EXCEPT ![c] = Passed(t.balance[g], rightHeavy),
                                                             ![n] = Passed(t.balance[g], leftHeavy),
                                                             ![g] = 0]],
              shorter |-> TRUE]

-----------------------------------------------------------------------------
(* Insertion.                                                               *)

In(pc) == op.pc = pc
Grown(side) == IF side = 1 THEN 1 ELSE -1

\* avl_insert of the new node r as child side of at.
Link(r, at, side) ==
    LET name == [n \in 1..numnodes |-> IF n < r THEN n ELSE n + 1]
        p    == IF at = Null THEN Null ELSE name[at]
    IN  /\ numnodes < MaxNodes
        /\ tree' = Hang(Renamed(tree, name), p, side, r)
        /\ numnodes' = numnodes + 1
        /\ op' = [pc |-> "insert", at |-> p, side |-> side, again |-> 0]
        /\ UNCHANGED freed

LinkFound(r) == LET where == Find(tree, Key(r) - 1) IN Link(r, where.at, where.side)

\* avl_add, or avl_find and avl_insert.
Insert(r) == In("idle") /\ LinkFound(r)

\* avl_add in AVL_REINSERT.
AddAgain == In("add") /\ LinkFound(op.again)

\* avl_insert_here, of a node whose key is next to that of node h.
InsertHere(h, d) ==
    LET c == tree.child[h][d]
        r == IF d = 0 THEN h ELSE h + 1
    IN  /\ In("idle")
        /\ IF c = Null THEN Link(r, h, d) ELSE Link(r, Extreme(tree, c, 1 - d), 1 - d)

\* The turns of its loop: the subtree at child side of node at has grown.
Old == tree.balance[op.at]
Up  == [op EXCEPT !.at = tree.parent[op.at], !.side = tree.which[op.at]]
SetBalance(b) == tree' = [tree EXCEPT !.balance[op.at] = b]

InsertLeaves ==
    /\ In("insert") /\ op.at = Null
    /\ op' = Idle
    /\ UNCHANGED <<tree, numnodes, freed>>

InsertEven ==
    /\ In("insert") /\ op.at # Null
    /\ Old + Grown(op.side) = 0
    /\ SetBalance(0)
    /\ op' = Idle
    /\ UNCHANGED <<numnodes, freed>>

InsertUp ==
    /\ In("insert") /\ op.at # Null
    /\ Old = 0
    /\ SetBalance(Grown(op.side))
    /\ op' = Up
    /\ UNCHANGED <<numnodes, freed>>

InsertRotate ==
    /\ In("insert") /\ op.at # Null
    /\ Old = Grown(op.side)
    /\ tree' = Rotation(tree, op.at, 2 * Old).tree
    /\ op' = Idle
    /\ UNCHANGED <<numnodes, freed>>

-----------------------------------------------------------------------------
(* Removal.                                                                 *)

\* Node m becomes a copy of d, and d of m (the tmp of the code).
Swapped(t, d, m) ==
    [root    |-> t.root,
     child   |-> [t.child EXCEPT ![m] = [e \in Child |-> IF t.child[d][e] = m THEN d ELSE t.child[d][e]],
                                 ![d] = t.child[m]],
     parent  |-> [t.parent EXCEPT ![d] = t.parent[m]],
     which   |-> [t.which EXCEPT ![d] = t.which[m]],
     balance |-> [t.balance EXCEPT ![m] = t.balance[d], ![d] = t.balance[m]]]

\* Child w of n, and the parent of n, hear of n.
Adopted(t, n, w) == Hang(t, n, w, t.child[n][w])
Entered(t, n)    == Hang(t, t.parent[n], t.which[n], n)

\* A node with two children changes places with its neighbour on the side that
\* is taller, which has one child at most.  (The code puts a copy of the
\* neighbour, tmp, in the place that is then removed: here that is d.  When the
\* neighbour is a child of d, the copy becomes a child of the neighbour.)
Exchanged(t, d) ==
    LET left  == IF t.balance[d] > 0 THEN 1 ELSE 0
        m     == Extreme(t, t.child[d][left], 1 - left)
        moved == Hang(Swapped(t, d, m), t.parent[d], t.which[d], m)
        under == Entered(Adopted(Adopted(moved, m, 0), m, 1), d)
    IN  Adopted(under, d, IF under.child[d][1] # Null THEN 1 ELSE 0)

\* The end of a removal.
Removed(again) == [Idle EXCEPT !.pc = IF again = 0 THEN "idle" ELSE "add", !.again = again]

\* avl_remove of node d up to its loop.
Unlink(d, again) ==
    LET t == IF Null \in {tree.child[d][0], tree.child[d][1]} THEN tree ELSE Exchanged(tree, d)
        c == IF t.child[d][0] # Null THEN t.child[d][0] ELSE t.child[d][1]
        p == t.parent[d]
        name == [n \in 1..numnodes \ {d} |-> IF n < d THEN n ELSE n - 1]
    IN  /\ tree' = Renamed(Hang(t, p, t.which[d], c), name)
        /\ numnodes' = numnodes - 1
        /\ op' = IF p = Null THEN Removed(again)
                 ELSE [pc |-> "remove", at |-> name[p], side |-> t.which[d], again |-> again]
        /\ UNCHANGED freed

AvlRemove(d) == In("idle") /\ Unlink(d, 0)

\* avl_update, and avl_update_lt and avl_update_gt where they may be called: the
\* key of node d has become v, which is not in the tree.  Out of order with a
\* neighbour, the node is removed and added again.
Update(d, v) ==
    LET before == Walk(tree, d, 0)
        after  == Walk(tree, d, 1)
        place  == (v + 1) \div 2
    IN  /\ In("idle")
        /\ \/ before # Null /\ v < Key(before)
           \/ after # Null /\ v > Key(after)
        /\ Unlink(d, IF place > d THEN place - 1 ELSE place)

\* The turns of the loop: the subtree at child side of node at is shorter.
UpOr(o) == IF o.at = Null THEN Removed(o.again) ELSE o

RemoveStops ==
    /\ In("remove")
    /\ Old = 0
    /\ SetBalance(-Grown(op.side))
    /\ op' = Removed(op.again)
    /\ UNCHANGED <<numnodes, freed>>

RemoveEven ==
    /\ In("remove")
    /\ Old = Grown(op.side)
    /\ SetBalance(0)
    /\ op' = UpOr(Up)
    /\ UNCHANGED <<numnodes, freed>>

RemoveRotate ==
    LET r == Rotation(tree, op.at, 2 * Old) IN
    /\ In("remove")
    /\ Old = -Grown(op.side)
    /\ tree' = r.tree
    /\ op' = IF r.shorter THEN UpOr(Up) ELSE Removed(op.again)
    /\ UNCHANGED <<numnodes, freed>>

-----------------------------------------------------------------------------
(* avl_destroy_nodes, called until it returns NULL; what it returned before *)
(* is freed.                                                                *)

\* check_right_side, and done.
HandOut(n) ==
    LET m == IF tree'.child[n][1] # Null THEN tree'.child[n][1] ELSE n
        p == tree'.parent[m]
    IN  /\ freed' = freed \cup {m}
        /\ op' = [op EXCEPT !.pc = "destroy", !.at = p,
                            !.side = IF p = Null THEN 1 ELSE tree'.which[m]]

DestroyFirst ==
    /\ In("idle") /\ numnodes > 0
    /\ UNCHANGED <<tree, numnodes>>
    /\ HandOut(AvlFirst(tree))

\* The right subtree of the parent is passed over.
GoesUpBug(t, p, side) == t.child[p][side] = Null

GoesUp(t, p, side) == side = 1 \/ t.child[p][1] = Null

\* The child just visited is cut off; then its parent, or what is to the right.
DestroyNext ==
    LET p == op.at IN
    /\ In("destroy") /\ p # Null
    /\ tree' = [tree EXCEPT !.child[p][op.side] = Null]
    /\ numnodes' = numnodes - 1
    /\ IF GoesUp(tree', p, op.side)
       THEN /\ freed' = freed \cup {p}
            /\ op' = [op EXCEPT !.at = tree.parent[p],
                                !.side = IF tree.parent[p] = Null THEN 1 ELSE tree.which[p]]
       ELSE HandOut(Extreme(tree', tree'.child[p][1], 0))

DestroyLast ==
    /\ In("destroy") /\ op.at = Null
    /\ tree' = Blank /\ numnodes' = 0 /\ op' = Idle /\ freed' = {}

Next ==
    \/ \E r \in 1..(numnodes + 1) : Insert(r)
    \/ \E h \in 1..numnodes, d \in Child : InsertHere(h, d)
    \/ InsertLeaves \/ InsertEven \/ InsertUp \/ InsertRotate
    \/ \E d \in 1..numnodes : AvlRemove(d)
    \/ \E d \in 1..numnodes, k \in 1..(numnodes + 1) : Update(d, Key(k) - 1)
    \/ RemoveStops \/ RemoveEven \/ RemoveRotate \/ AddAgain
    \/ DestroyFirst \/ DestroyNext \/ DestroyLast

Spec == Init /\ [][Next]_vars

-----------------------------------------------------------------------------
(* Properties.                                                              *)

InTree == 1..numnodes

\* The first and the last node of what is below each node.
Span(t) ==
    LET span[n \in Nodes] ==
            LET l == t.child[n][0]
                r == t.child[n][1]
            IN  [first |-> IF l = Null THEN n ELSE span[l].first,
                 last  |-> IF r = Null THEN n ELSE span[r].last]
    IN  span

\* At every moment, in the loops as well, the pointers agree with each other
\* and the search order holds: what is in the tree is reached from the root,
\* in the order of the keys, and counted.
Ordered ==
    LET span   == Span(tree)
        end(n) == IF n = Null THEN 0 ELSE span[n].last
    IN  ~In("destroy") =>
            /\ tree.root # Null => tree.parent[tree.root] = Null
            /\ \A n \in InTree, d \in Child :
                  LET c == tree.child[n][d] IN
                  c # Null => c \in InTree /\ tree.parent[c] = n /\ tree.which[c] = d
            /\ end(tree.root) = numnodes
            /\ numnodes > 0 => span[tree.root].first = 1
            /\ \A n \in InTree :
                  /\ tree.child[n][0] # Null => end(tree.child[n][0]) = n - 1
                  /\ tree.child[n][1] # Null => span[tree.child[n][1]].first = n + 1

\* What is still to be recorded of side d of node n.
Pending(n, d) ==
    IF op.at = n /\ op.side = d
    THEN CASE In("insert") -> 1 [] In("remove") -> -1 [] OTHER -> 0
    ELSE 0

\* The height of what is below each node, without that, and how much higher the right side is.
Heights(t) ==
    LET height[n \in Nodes] ==
            LET side(d) == (IF t.child[n][d] = Null THEN 0 ELSE height[t.child[n][d]].all) - Pending(n, d)
            IN  [diff |-> side(1) - side(0),
                 all  |-> 1 + (IF side(0) > side(1) THEN side(0) ELSE side(1))]
    IN  height

\* Every node records how much higher its right side is than its left one, by
\* at most one, however many rotations a removal takes.  In a loop this is so
\* of the heights before the operation, but for what the loop has dealt with:
\* the change is still to be recorded at the node it has come to, and above.
Balanced ==
    LET height == Heights(tree) IN
    ~In("destroy") =>
        \A n \in InTree : tree.balance[n] \in -1..1 /\ tree.balance[n] = height[n].diff

\* Between operations a key is found exactly when it is in the tree, the place
\* at which it is missing is between its neighbours, and the walks in both
\* directions visit every node once, in order.
Lookups ==
    LET orNull(n) == IF n \in InTree THEN n ELSE Null
    IN  In("idle") =>
            /\ AvlFirst(tree) = orNull(1) /\ AvlLast(tree) = orNull(numnodes)
            /\ \A n \in InTree : /\ Find(tree, Key(n)).node = n
                                 /\ Walk(tree, n, 0) = orNull(n - 1)
                                 /\ Walk(tree, n, 1) = orNull(n + 1)
            /\ \A k \in 1..(numnodes + 1) :
                  LET where == Find(tree, Key(k) - 1) IN
                  /\ where.node = Null
                  /\ Nearest(tree, where, 0) = orNull(k - 1)
                  /\ Nearest(tree, where, 1) = orNull(k)

\* Destroying a tree hands out every node once, those below it first, and goes
\* on without a look at a node that was freed: the next one is reached from the
\* cookie, and only the link to the last one freed is still to be cut.
DestroyOnce ==
    LET under[n \in Nodes] ==
            {n} \cup UNION {under[c] : c \in {tree.child[n][0], tree.child[n][1]} \ ({Null} \cup freed)}
        left == IF tree.root \in freed THEN {} ELSE under[tree.root]
    IN  In("destroy") =>
            /\ op.at \notin freed
            /\ left \cap freed = {}
            /\ Cardinality(left) = numnodes - 1
            /\ left \cup freed = 1..Cardinality(left \cup freed)
            /\ \A n \in left, d \in Child :
                  tree.child[n][d] \in freed => n = op.at /\ d = op.side
=============================================================================
