------------------------------- MODULE Treap -------------------------------
(***************************************************************************)
(* Trees as values, shared by CCSet (data_structure/set/set.c) and CCMap   *)
(* (data_structure/map): a node is a record [key, value, priority, left,   *)
(* right] and the empty tree is NULL.  The comparator is asked about       *)
(* (node, target) and SMALLER goes left, so the left subtree holds the     *)
(* larger keys.  The C functions that call themselves on subtrees are      *)
(* recursive functions of the trees with at most a node for every key.     *)
(***************************************************************************)
EXTENDS Naturals, FiniteSets

CONSTANTS Keys, Values, NULL

-----------------------------------------------------------------------------
NodesOver(below) == [key : Keys, value : Values \cup {NULL}, priority : Nat,
                     left : below, right : below]

\* The trees of height h at most.
TreesUpTo(h) ==
    LET trees[n \in Nat] == IF n = 0 THEN {NULL} ELSE {NULL} \cup NodesOver(trees[n - 1])
    IN  trees[h]

\* A search tree over the keys is no higher than that.
Trees == TreesUpTo(Cardinality(Keys))

\* The nodes that a recursion over both children visits.
Size(root) ==
    LET size[t \in Trees] == IF t = NULL THEN 0 ELSE 1 + size[t.left] + size[t.right]
    IN  size[root]

Nodes(root) ==
    LET nodes[t \in Trees] == IF t = NULL THEN {} ELSE {t} \cup nodes[t.left] \cup nodes[t.right]
    IN  nodes[root]

KeysOf(root) == {n.key : n \in Nodes(root)}

Node(k, v, p) == [key |-> k, value |-> v, priority |-> p, left |-> NULL, right |-> NULL]

\* _rotate_right and _rotate_left.
RotateRight(y) == [y.left  EXCEPT !.right = [y EXCEPT !.left = y.left.right]]
RotateLeft(x)  == [x.right EXCEPT !.left = [x EXCEPT !.right = x.right.left]]

\* A child that outranks its parent is rotated up.
LiftLeft(t)  == IF t.left.priority > t.priority THEN RotateRight(t) ELSE t
LiftRight(t) == IF t.right.priority > t.priority THEN RotateLeft(t) ELSE t

\* The descent of _find_node and CCBasicCoreCCMap_Find.
Find(root, key) ==
    LET find[t \in Trees] == IF t = NULL \/ t.key = key THEN t
                             ELSE find[IF t.key < key THEN t.left ELSE t.right]
    IN  find[root]

\* Larger keys on the left, smaller on the right, and no child above its
\* parent in priority.
SearchOrdered(root) == \A n \in Nodes(root) : /\ \A k \in KeysOf(n.left)  : k > n.key
                                              /\ \A k \in KeysOf(n.right) : k < n.key
HeapOrdered(root) == \A n \in Nodes(root) : \A c \in {n.left, n.right} :
                        c # NULL => c.priority <= n.priority
=============================================================================
