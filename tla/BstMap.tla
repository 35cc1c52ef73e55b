------------------------------- MODULE BstMap -------------------------------
(***************************************************************************)
(* CCMap over the binary search tree that the build without USE_TREAP_ACC  *)
(* selects (map_node.c); creation, search and destruction are those of     *)
(* TreapMap, and priorities mean nothing.  The deletion compares the       *)
(* addresses of the keys.  Where the pack's copier makes copies, no stored *)
(* address is the caller's; where it keeps the pointer it is given         *)
(* (CCSpecialDefinedDefaultPack), a key is its address.                    *)
(***************************************************************************)
EXTENDS TreapMap

-----------------------------------------------------------------------------
\* CCBasicCoreCCMapNode_Insert of map_node.c.
BstInsertRec(root, new) ==
    LET insert[t \in Trees] ==
            IF t = NULL THEN new
            ELSE IF t.key < new.key THEN [t EXCEPT !.left = insert[t.left]]
            ELSE IF t.key > new.key THEN [t EXCEPT !.right = insert[t.right]]
            ELSE [t EXCEPT !.value = new.value]
    IN  insert[root]

\* The trees a deletion can leave when no address it meets is the caller's: it
\* goes either way at every node, and stores back what it finds below.
BstDeleteForeign(root) ==
    LET delete[t \in Trees] ==
            IF t = NULL THEN {NULL}
            ELSE {[t EXCEPT !.left  = d] : d \in delete[t.left]} \cup
                 {[t EXCEPT !.right = d] : d \in delete[t.right]}
    IN  delete[root]

LeftMost[t \in Trees \ {NULL}] == IF t.left = NULL THEN t ELSE LeftMost[t.left]

\* Deletion by address: the tree that is left, and the keys that are released.
\* A node with two children takes over key and value of the leftmost node on
\* its right, which is then looked for by the same deletion.
BstDelete[t \in Trees] ==
    [key \in Keys |->
        IF t = NULL THEN [tree |-> NULL, released |-> {}]
        ELSE IF key < t.key
        THEN LET d == BstDelete[t.left][key] IN [d EXCEPT !.tree = [t EXCEPT !.left = d.tree]]
        ELSE IF key > t.key
        THEN LET d == BstDelete[t.right][key] IN [d EXCEPT !.tree = [t EXCEPT !.right = d.tree]]
        ELSE IF t.left = NULL THEN [tree |-> t.right, released |-> {key}]
        ELSE IF t.right = NULL THEN [tree |-> t.left, released |-> {key}]
        ELSE LET succ == LeftMost[t.right]
                 d    == BstDelete[t.right][succ.key]
             IN  [d EXCEPT !.tree = [key |-> succ.key, value |-> succ.value, priority |-> t.priority,
                                     left |-> t.left, right |-> d.tree]]]

\* A node points to a released key, or two nodes to the same key.
Damaged(root, released) == \/ KeysOf(root) \cap released # {}
                           \/ Cardinality(KeysOf(root)) < Size(root)

-----------------------------------------------------------------------------
\* With copies, an overwrite leaves behind the two copies of the new node; when
\* the pointers are kept, that node's key is the one in the tree, and its value
\* is what the tree gets.
BstInsert(key, value, keeps) ==
    /\ map_root' = BstInsertRec(map_root, Node(key, value, 0))
    /\ blocks' = IF MapFind(key) = NULL THEN blocks + 3 ELSE IF keeps THEN blocks ELSE blocks + 2

BstEraseCopied == map_root' \in BstDeleteForeign(map_root) /\ UNCHANGED blocks

BstEraseKept(key) ==
    LET d == BstDelete[map_root][key]
    IN  /\ map_root' = d.tree
        /\ blocks' = blocks - 3 * Cardinality(d.released)

\* What the deletion of a key leaves can no longer be used or destroyed.
BstEraseDamages(key) == LET d == BstDelete[map_root][key] IN Damaged(d.tree, d.released)
=============================================================================
