------------------------------ MODULE AvlTree ------------------------------
(***************************************************************************)
(* The index of a hash set: avl_tree and range_map of core/avl_tree.h.  A  *)
(* tree is a record and an operation an operator on it.  Keys are natural  *)
(* numbers and no two nodes share one, so a node is named by its key.      *)
(* Beside its children and parent a node is linked to the nodes with the   *)
(* next lower and the next higher key.                                     *)
(***************************************************************************)
EXTENDS Integers, FiniteSets

Nil == -1   \* nullptr

NewTree == [root |-> Nil, first |-> Nil, node |-> [k \in {} |-> << >>]]

Keys(t) == DOMAIN t.node

TreeType(t, Data) ==
    /\ {t.root, t.first} \subseteq Keys(t) \cup {Nil}
    /\ \A k \in Keys(t) : k \in Nat /\ t.node[k] \in
           [left : Keys(t) \cup {Nil}, right : Keys(t) \cup {Nil},
            parent : Keys(t) \cup {Nil}, prev : Keys(t) \cup {Nil},
            next : Keys(t) \cup {Nil}, height : Nat, data : Data]

Higher(a, b) == IF a < b THEN b ELSE a

SubtreeHeight(t, n) == IF n = Nil THEN 0 ELSE t.node[n].height + 1

HeightOf(t, n) == Higher(SubtreeHeight(t, t.node[n].left),
                         SubtreeHeight(t, t.node[n].right))

(* A turn of the loop of update_height, on the way up from a node. *)
Measured(w) ==
    IF w.at = Nil THEN w
    ELSE [at   |-> w.tree.node[w.at].parent,
          tree |-> [w.tree EXCEPT !.node[w.at].height = HeightOf(w.tree, w.at)]]

(* update_height: it ends at the root after as many turns as there are     *)
(* nodes at most.                                                          *)
UpdateHeight(t, n) ==
    LET turn[i \in 0..Cardinality(Keys(t))] ==
            IF i = 0 THEN [at |-> n, tree |-> t] ELSE Measured(turn[i - 1])
    IN  turn[Cardinality(Keys(t))].tree

(* The child of n on the side of k, or n if there is none. *)
Down(t, n, k) ==
    LET child == IF k < n THEN t.node[n].left ELSE t.node[n].right
    IN  IF child = Nil THEN n ELSE child

(* The last node on the way from the root to where k is or would be. *)
LastOnPath(t, k) ==
    LET turn[i \in 0..Cardinality(Keys(t))] ==
            IF i = 0 THEN t.root ELSE Down(t, turn[i - 1], k)
    IN  turn[Cardinality(Keys(t))]

(* Faulty variant: the left neighbour is forgotten. *)
LowerBoundOfPath(t, k) == LastOnPath(t, k)

(* range_map::find: the start of the interval k lies in. *)
LowerBound(t, k) ==
    LET n == LastOnPath(t, k) IN IF k < n THEN t.node[n].prev ELSE n
-----------------------------------------------------------------------------
(* insert_to_node: a leaf k below p, linked between its neighbours. *)
Leaf(t, p, k, d) ==
    LET before == IF k < p THEN t.node[p].prev ELSE p
        after  == IF k < p THEN p ELSE t.node[p].next
        leaf   == [left |-> Nil, right |-> Nil, parent |-> p, prev |-> before,
                   next |-> after, height |-> 0, data |-> d]
        hung   == [t.node EXCEPT ![p].left  = IF k < p THEN k ELSE @,
                                 ![p].right = IF k < p THEN @ ELSE k]
    IN  [root  |-> t.root,
         first |-> IF before = Nil THEN k ELSE t.first,
         node  |-> [n \in Keys(t) \cup {k} |->
                       IF n = k THEN leaf
                       ELSE [hung[n] EXCEPT !.next = IF n = before THEN k ELSE @,
                                            !.prev = IF n = after THEN k ELSE @]]]

(* l and r become the children of n. *)
Join(t, n, l, r) ==
    LET s == [t EXCEPT !.node = [m \in Keys(t) |->
                 CASE m = n -> [t.node[n] EXCEPT !.left = l, !.right = r]
                   [] m \in {l, r} -> [t.node[m] EXCEPT !.parent = n]
                   [] OTHER -> t.node[m]]]
    IN  [s EXCEPT !.node[n].height = HeightOf(s, n)]

(* The four rotations; each answers the tree and the new root of the part. *)
RotateLeft(t, r) ==
    LET x == t.node[r].right
    IN  [top  |-> x,
         tree |-> Join(Join(t, r, t.node[r].left, t.node[x].left),
                       x, r, t.node[x].right)]

RotateRight(t, r) ==
    LET x == t.node[r].left
    IN  [top  |-> x,
         tree |-> Join(Join(t, r, t.node[x].right, t.node[r].right),
                       x, t.node[x].left, r)]

DoubleRotateRight(t, r) ==
    LET x == t.node[r].left
        w == t.node[x].right
    IN  [top  |-> w,
         tree |-> Join(Join(Join(t, x, t.node[x].left, t.node[w].left),
                            r, t.node[w].right, t.node[r].right), w, x, r)]

DoubleRotateLeft(t, r) ==
    LET x == t.node[r].right
        w == t.node[x].left
    IN  [top  |-> w,
         tree |-> Join(Join(Join(t, x, t.node[w].right, t.node[x].right),
                            r, t.node[r].left, t.node[w].left), w, r, x)]

(* ballance_node chooses by the heights of the grandchildren; the choice   *)
(* for a left child overrides the one for a right child.                   *)
Rotation(t, n) ==
    LET l  == t.node[n].left
        r  == t.node[n].right
        lh == SubtreeHeight(t, l)
        rh == SubtreeHeight(t, r)
        In(m, side) == SubtreeHeight(t, t.node[m][side])
        forLeft ==
            IF l # Nil /\ In(l, "left") = rh + 1 /\ In(l, "right") = rh THEN "right"
            ELSE IF l # Nil /\ In(l, "left") = rh /\ In(l, "right") \in {rh, rh + 1}
            THEN "double_right" ELSE "invalid"
        forRight ==
            IF r # Nil /\ In(r, "left") = lh /\ In(r, "right") = lh + 1 THEN "left"
            ELSE IF r # Nil /\ In(r, "right") = lh THEN "double_left" ELSE "invalid"
    IN  IF forLeft # "invalid" THEN forLeft ELSE forRight

Rotated(t, n) ==
    LET how == Rotation(t, n)
    IN  CASE how = "right"        -> RotateRight(t, n)
          [] how = "double_right" -> DoubleRotateRight(t, n)
          [] how = "left"         -> RotateLeft(t, n)
          [] how = "double_left"  -> DoubleRotateLeft(t, n)

InBalance(t, n) ==
    SubtreeHeight(t, t.node[n].left) - SubtreeHeight(t, t.node[n].right) \in -1..1

(* What the loop of insert does at n.  In an invalid situation the code    *)
(* throws and the tree stays out of balance.                               *)
BallanceAt(t, n) ==
    IF InBalance(t, n) \/ Rotation(t, n) = "invalid" THEN t
    ELSE LET p == t.node[n].parent
             s == Rotated(t, n)
             u == [s.tree EXCEPT !.node[s.top].parent = p]
         IN  IF p = Nil THEN [u EXCEPT !.root = s.top]
             ELSE UpdateHeight(
                    [u EXCEPT !.node[p].left  = IF @ = n THEN s.top ELSE @,
                              !.node[p].right = IF @ = n THEN s.top ELSE @], p)

(* A turn of that loop, on the way up from a node. *)
Ballanced(w) ==
    IF w.at = Nil THEN w
    ELSE LET t == BallanceAt(w.tree, w.at) IN [at |-> t.node[w.at].parent, tree |-> t]

(* The loop, from k on: it meets each node above once, and once more one   *)
(* that it has just made the root of a part.                               *)
Ballance(t, k) ==
    LET turn[i \in 0..(2 * Cardinality(Keys(t)))] ==
            IF i = 0 THEN [at |-> k, tree |-> t] ELSE Ballanced(turn[i - 1])
    IN  turn[2 * Cardinality(Keys(t))].tree

(* Faulty variant: a plain search tree. *)
InsertUnballanced(t, k, d) ==
    IF t.root = Nil THEN
        [root |-> k, first |-> k,
         node |-> [n \in {k} |-> [left |-> Nil, right |-> Nil, parent |-> Nil,
                                  prev |-> Nil, next |-> Nil, height |-> 0, data |-> d]]]
    ELSE IF k \in Keys(t) THEN t
    ELSE UpdateHeight(Leaf(t, LastOnPath(t, k), k, d), k)

(* insert: nothing happens to a tree that has the key. *)
Insert(t, k, d) ==
    IF t.root = Nil THEN
        [root |-> k, first |-> k,
         node |-> [n \in {k} |-> [left |-> Nil, right |-> Nil, parent |-> Nil,
                                  prev |-> Nil, next |-> Nil, height |-> 0, data |-> d]]]
    ELSE IF k \in Keys(t) THEN t
    ELSE Ballance(UpdateHeight(Leaf(t, LastOnPath(t, k), k, d), k), k)
-----------------------------------------------------------------------------
(* The keys under n, n included. *)
Under(t, n) ==
    LET below[m \in Keys(t) \cup {Nil}] ==
            IF m = Nil THEN {}
            ELSE {m} \cup below[t.node[m].left] \cup below[t.node[m].right]
    IN  below[n]

(* A balanced search tree: every key is under the root, on its side of     *)
(* every node above it; heights and parents are right; siblings differ in  *)
(* height by one at most.                                                  *)
IsAvl(t) ==
    /\ Under(t, t.root) = Keys(t)
    /\ t.root # Nil => t.node[t.root].parent = Nil
    /\ \A n \in Keys(t) :
          /\ \A k \in Under(t, t.node[n].left) : k < n
          /\ \A k \in Under(t, t.node[n].right) : n < k
          /\ \A c \in {t.node[n].left, t.node[n].right} \ {Nil} : t.node[c].parent = n
          /\ t.node[n].height = HeightOf(t, n)
          /\ InBalance(t, n)

(* The links between neighbours are the order of the keys, from first on.  *)
IsThreaded(t) ==
    /\ t.first = IF Keys(t) = {} THEN Nil ELSE CHOOSE k \in Keys(t) : \A m \in Keys(t) : k <= m
    /\ \A n \in Keys(t) :
          /\ t.node[n].next = IF \E k \in Keys(t) : n < k
                              THEN CHOOSE k \in Keys(t) :
                                      n < k /\ \A m \in Keys(t) : n < m => k <= m
                              ELSE Nil
          /\ t.node[n].next # Nil => t.node[t.node[n].next].prev = n
    /\ t.first # Nil => t.node[t.first].prev = Nil
=============================================================================
