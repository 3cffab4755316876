------------------------------- MODULE RbTree -------------------------------
(***************************************************************************)
(* The red-black tree of kvs_rbtree.c, the RBTREE engine.  Nodes are known *)
(* by their address, 0 being the sentinel T->nil, whose parent pointer is  *)
(* really written to; keys are positive numbers in the order of strcmp.    *)
(* No code looks at the value of an address, so a node has its key as its  *)
(* address; a deletion that moves a key into another node renames that     *)
(* node.  The two rotations and the two halves of each fix-up mirror each  *)
(* other and are written once, for a side d.                               *)
(***************************************************************************)
EXTENDS Integers, FiniteSets

CONSTANTS
    Keys,    \* keys, as numbers
    Absent,  \* the NULL of a lookup
    Lost     \* a value pointer that is NULL

Nil == 0
Cells == {Nil} \cup Keys
Opposite(d) == IF d = "left" THEN "right" ELSE "left"

\* kvs_rbtree_create
RbCreate == [root |-> Nil, left |-> [c \in Cells |-> Nil], right |-> [c \in Cells |-> Nil],
             parent |-> [c \in Cells |-> Nil], red |-> [c \in Cells |-> FALSE],
             key |-> [c \in Cells |-> 0], value |-> [c \in Cells |-> Absent],
             used |-> {}]

\* Where x hangs in its parent.
SideOf(T, x) == IF x = T.left[T.parent[x]] THEN "left" ELSE "right"

\* y takes the place of x below x's parent.
Replace(T, x, y) ==
    IF T.parent[x] = Nil THEN [T EXCEPT !.root = y]
    ELSE [T EXCEPT ![SideOf(T, x)][T.parent[x]] = y]

\* rbtree_left_rotate (d = "left") and rbtree_right_rotate.
Rotate(T, x, d) ==
    LET e  == Opposite(d)
        y  == T[e][x]
        c  == T[d][y]
        T1 == [T EXCEPT ![e][x] = c, !.parent[c] = IF c = Nil THEN @ ELSE x]
        T2 == Replace([T1 EXCEPT !.parent[y] = T1.parent[x]], x, y)
    IN  [T2 EXCEPT ![d][y] = x, !.parent[x] = y]

-----------------------------------------------------------------------------
(* Insertion                                                               *)

\* rbtree_insert_fixup
RECURSIVE InsertFixup(_, _)
InsertFixup(T, z) ==
    LET p == T.parent[z]
        g == T.parent[p]
        d == SideOf(T, p)
        e == Opposite(d)
        u == T[e][g]
    IN  IF ~T.red[p] THEN [T EXCEPT !.red[T.root] = FALSE]
        ELSE IF T.red[u]
        THEN InsertFixup([T EXCEPT !.red[p] = FALSE, !.red[u] = FALSE, !.red[g] = TRUE], g)
        ELSE LET inner == z = T[e][p]
                 z1 == IF inner THEN p ELSE z
                 T1 == IF inner THEN Rotate(T, p, d) ELSE T
                 p1 == T1.parent[z1]
                 g1 == T1.parent[p1]
             IN  InsertFixup(Rotate([T1 EXCEPT !.red[p1] = FALSE, !.red[g1] = TRUE], g1, e), z1)

\* rbtree_search: the node of k, or the sentinel.
RbSearch(T, k) ==
    LET at[c \in Cells] == IF c = Nil \/ T.key[c] = k THEN c
                           ELSE at[IF k < T.key[c] THEN T.left[c] ELSE T.right[c]]
    IN  at[T.root]

\* The node rbtree_insert hangs a new key k below.
InsertBelow(T, k) ==
    LET last[c \in Cells] ==
          LET next == IF k < T.key[c] THEN T.left[c] ELSE T.right[c]
          IN  IF next = Nil THEN c ELSE last[next]
    IN  IF T.root = Nil THEN Nil ELSE last[T.root]

\* rbtree_insert of a key that is not in the tree, in a node at the key's own address.
RbInsert(T, k, v) ==
    LET z == k
        y == InsertBelow(T, k)
        T1 == [T EXCEPT !.used = @ \cup {z}, !.key[z] = k, !.value[z] = v, !.parent[z] = y,
                        !.left[z] = Nil, !.right[z] = Nil, !.red[z] = TRUE]
        T2 == IF y = Nil THEN [T1 EXCEPT !.root = z]
              ELSE [T1 EXCEPT ![IF k < T.key[y] THEN "left" ELSE "right"][y] = z]
    IN  InsertFixup(T2, z)

-----------------------------------------------------------------------------
(* Deletion                                                                *)

\* Mutant of the sibling's case: the near child is not looked at.
BothBlackFar(T, w, d) == ~T.red[T[Opposite(d)][w]]
\* Both children of the sibling are black.
BothBlack(T, w, d) == ~T.red[T.left[w]] /\ ~T.red[T.right[w]]

\* rbtree_delete_fixup
RECURSIVE DeleteFixup(_, _)
DeleteFixup(T, x) ==
    IF x = T.root \/ T.red[x] THEN [T EXCEPT !.red[x] = FALSE]
    ELSE LET p  == T.parent[x]
             d  == SideOf(T, x)
             e  == Opposite(d)
             T1 == IF T.red[T[e][p]]
                   THEN Rotate([T EXCEPT !.red[T[e][p]] = FALSE, !.red[p] = TRUE], p, d)
                   ELSE T
             w1 == T1[e][p]
         IN  IF BothBlack(T1, w1, d)
             THEN DeleteFixup([T1 EXCEPT !.red[w1] = TRUE], p)
             ELSE LET T2 == IF ~T1.red[T1[e][w1]]
                            THEN Rotate([T1 EXCEPT !.red[T1[d][w1]] = FALSE, !.red[w1] = TRUE], w1, e)
                            ELSE T1
                      w2 == T2[e][p]
                      T3 == Rotate([T2 EXCEPT !.red[w2] = T2.red[p], !.red[p] = FALSE,
                                              !.red[T2[e][w2]] = FALSE], p, d)
                  IN  DeleteFixup(T3, T3.root)

\* rbtree_mini of the right subtree, which is what rbtree_successor finds here.
RbMini(T, x) ==
    LET down[c \in Cells] == IF T.left[c] = Nil THEN c ELSE down[T.left[c]]
    IN  down[x]

\* The tree with the node at z at the free address y.
Rename(T, z, y) ==
    LET new(c) == IF c = z THEN y ELSE c
        old(c) == IF c = y THEN z ELSE IF c = z THEN y ELSE c
        links(f) == [c \in Cells |-> new(f[old(c)])]
        fields(f) == [c \in Cells |-> f[old(c)]]
    IN  [root |-> new(T.root), left |-> links(T.left), right |-> links(T.right),
         parent |-> links(T.parent), red |-> fields(T.red), key |-> fields(T.key),
         value |-> fields(T.value), used |-> {new(c) : c \in T.used}]

\* rbtree_delete: y is cut out and freed, its key and value move to z.
RbDelete(T, z) ==
    LET y  == IF T.left[z] = Nil \/ T.right[z] = Nil THEN z ELSE RbMini(T, T.right[z])
        x  == IF T.left[y] # Nil THEN T.left[y] ELSE T.right[y]
        T1 == Replace([T EXCEPT !.parent[x] = T.parent[y]], y, x)
        T2 == [T1 EXCEPT !.key[z] = T.key[y], !.value[z] = T.value[y]]
        T3 == IF T.red[y] THEN T2 ELSE DeleteFixup(T2, x)
    IN  Rename([T3 EXCEPT !.used = @ \ {y}, !.key[y] = 0, !.value[y] = Absent, !.left[y] = Nil,
                          !.right[y] = Nil, !.parent[y] = Nil, !.red[y] = FALSE], z, y)

-----------------------------------------------------------------------------
(* Operations: the set of outcomes, since any allocation may fail (the      *)
(* node's own is not looked at and taken to succeed).                      *)

\* kvs_rbtree_mod frees the old value before it has the new one.
RbMod(T, k, v) ==
    LET c == RbSearch(T, k)
    IN  IF c = Nil THEN {[h |-> T, rc |-> 1]}
        ELSE {[h |-> [T EXCEPT !.value[c] = Lost], rc |-> -2],
              [h |-> [T EXCEPT !.value[c] = v], rc |-> 0]}

\* kvs_rbtree_set
RbSet(T, k, v) ==
    IF RbSearch(T, k) # Nil THEN RbMod(T, k, v)
    ELSE {[h |-> T, rc |-> -2], [h |-> RbInsert(T, k, v), rc |-> 0]}

\* kvs_rbtree_del
RbDel(T, k) ==
    LET c == RbSearch(T, k)
    IN  IF c = Nil THEN {[h |-> T, rc |-> 1]} ELSE {[h |-> RbDelete(T, c), rc |-> 0]}

\* kvs_rbtree_get, kvs_rbtree_exist
RbGet(T, k) == LET c == RbSearch(T, k)
               IN  IF c = Nil \/ T.value[c] = Lost THEN Absent ELSE T.value[c]
RbExist(T, k) == IF RbSearch(T, k) = Nil THEN 1 ELSE 0

\* What a walk over all nodes finds.
RbContents(T) ==
    [k \in Keys |-> LET at == {c \in T.used : T.key[c] = k}
                      IN  IF at = {} THEN Absent ELSE T.value[CHOOSE c \in at : TRUE]]

-----------------------------------------------------------------------------
\* The nodes of the subtree of c, down to depth n.
Subtree(T) ==
    LET sub[n \in 0..Cardinality(Keys), c \in Cells] ==
          IF c = Nil \/ n = 0 THEN {} ELSE {c} \cup sub[n - 1, T.left[c]] \cup sub[n - 1, T.right[c]]
    IN  [c \in Cells |-> sub[Cardinality(Keys), c]]

\* The numbers of black nodes on the paths from c down to the sentinel.
BlackHeights(T) ==
    LET bh[n \in 0..(Cardinality(Keys) + 1), c \in Cells] ==
          IF c = Nil THEN {0} ELSE IF n = 0 THEN {-1}
          ELSE {b + (IF T.red[c] THEN 0 ELSE 1) : b \in bh[n - 1, T.left[c]] \cup bh[n - 1, T.right[c]]}
    IN  [c \in Cells |-> bh[Cardinality(Keys) + 1, c]]

(* After any sequence of insertions and deletions, with keys moved between  *)
(* nodes and the sentinel's parent written over, the tree is a red-black    *)
(* search tree: ordered, parent pointers right, root and sentinel black, no *)
(* red node below a red one, all paths equally black, and exactly the nodes *)
(* that were not freed hang in it (rbtree_insert_fixup,                     *)
(* rbtree_delete_fixup).                                                   *)
RbSound(T) ==
    LET sub == Subtree(T)
        bh  == BlackHeights(T)
    IN  /\ sub[T.root] = T.used
        /\ ~T.red[T.root] /\ ~T.red[Nil]
        /\ T.root # Nil => T.parent[T.root] = Nil
        /\ \A c \in T.used :
             /\ \A a \in sub[T.left[c]] : T.key[a] < T.key[c]
             /\ \A a \in sub[T.right[c]] : T.key[a] > T.key[c]
             /\ \A a \in {T.left[c], T.right[c]} \ {Nil} : T.parent[a] = c
             /\ T.red[c] => ~T.red[T.left[c]] /\ ~T.red[T.right[c]]
             /\ Cardinality(bh[c]) = 1
=============================================================================
