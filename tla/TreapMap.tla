------------------------------ MODULE TreapMap ------------------------------
(***************************************************************************)
(* CCMap (data_structure/map/map.c) over the treap nodes that the default  *)
(* build selects (map_node_treap.c, option USE_TREAP_ACC).  A node takes   *)
(* three heap blocks: itself and its copies of key and value.              *)
(***************************************************************************)
EXTENDS Treap

VARIABLES map_root,   \* map->root
          blocks      \* heap blocks allocated for the map and not freed

-----------------------------------------------------------------------------
\* CCBasicCoreCCMap_Create.
MapInit == map_root = NULL

\* CCBasicCoreCCMapNode_Insert without the overwriting of an old value.
NodeInsertKeepsOld(root, new) ==
    LET insert[t \in Trees] ==
            IF t = NULL THEN new
            ELSE IF t.key < new.key THEN LiftLeft([t EXCEPT !.left = insert[t.left]])
            ELSE IF t.key > new.key THEN LiftRight([t EXCEPT !.right = insert[t.right]])
            ELSE t
    IN  insert[root]

\* CCBasicCoreCCMapNode_Insert.  The node of an equal key gets a copy of the
\* new value and keeps its own key and priority.
NodeInsert(root, new) ==
    LET insert[t \in Trees] ==
            IF t = NULL THEN new
            ELSE IF t.key < new.key THEN LiftLeft([t EXCEPT !.left = insert[t.left]])
            ELSE IF t.key > new.key THEN LiftRight([t EXCEPT !.right = insert[t.right]])
            ELSE [t EXCEPT !.value = new.value]
    IN  insert[root]

\* CCBasicCoreCCMapNode_Delete asks the comparator about (target, node), the
\* other way round than the insertion and the search do: SMALLER goes left
\* where the keys are larger.
NodeDelete(root, key) ==
    LET delete[t \in Trees] ==
            IF t = NULL THEN NULL
            ELSE IF key < t.key THEN [t EXCEPT !.left = delete[t.left]]
            ELSE IF key > t.key THEN [t EXCEPT !.right = delete[t.right]]
            ELSE IF t.left = NULL THEN t.right
            ELSE IF t.right = NULL THEN t.left
            ELSE IF t.left.priority > t.right.priority
            THEN LET r == RotateRight(t) IN [r EXCEPT !.right = delete[r.right]]
            ELSE LET r == RotateLeft(t) IN [r EXCEPT !.left = delete[r.left]]
    IN  delete[root]

\* CCBasicCoreCCMap_Find; NULL when the key is not found.
MapFind(key) == LET node == Find(map_root, key)
                IN  IF node = NULL THEN NULL ELSE node.value

\* Either way three blocks are allocated.  An overwrite then releases the old
\* value, copies the new value once more and frees the new node, but not the
\* copies that node holds.
MapInsert(key, value, priority) ==
    /\ map_root' = NodeInsert(map_root, Node(key, value, priority))
    /\ blocks' = IF MapFind(key) = NULL THEN blocks + 3 ELSE blocks + 2

\* The node that is unlinked is released with its key and its value.
MapErase(key) ==
    /\ map_root' = NodeDelete(map_root, key)
    /\ blocks' = IF map_root' = map_root THEN blocks ELSE blocks - 3

\* CCBasicCoreCCMapNode_Erase releases every node and returns 1 if all releases
\* did, also for an empty tree.
NodeErase(freer) == IF map_root = NULL THEN 1 ELSE freer

\* CCBasicCoreCCMap_Destroy takes that result for an error code: the map is
\* freed only when it is CCBasicCore_SUCCESS, which is 0.
MapDestroyFrees(freer) == NodeErase(freer) = 0

MapDestroy(freer) ==
    /\ blocks' = blocks - 3 * Size(map_root) - (IF MapDestroyFrees(freer) THEN 1 ELSE 0)
    /\ UNCHANGED map_root
=============================================================================
