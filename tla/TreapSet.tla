------------------------------ MODULE TreapSet ------------------------------
(***************************************************************************)
(* CCSet (data_structure/set/set.c): a treap of copied keys and a size.    *)
(* Priorities are drawn by rand() when a node is created.  A node takes    *)
(* two heap blocks, itself and its copy of the key.                        *)
(***************************************************************************)
EXTENDS Treap

VARIABLES set_root,   \* s->root
          set_sz,     \* s->sz
          blocks      \* heap blocks allocated for the set and not freed

setVars == <<set_root, set_sz>>

-----------------------------------------------------------------------------
\* CCSet_Create.
SetInit == set_root = NULL /\ set_sz = 0

\* Inserts without rotations.
SetInsertUnrotated(root, new) ==
    LET insert[t \in Trees] ==
            IF t = NULL THEN new
            ELSE IF t.key < new.key THEN [t EXCEPT !.left = insert[t.left]]
            ELSE IF t.key > new.key THEN [t EXCEPT !.right = insert[t.right]]
            ELSE t
    IN  insert[root]

\* _insert_rec.  A node with an equal key stays and the new one is freed.
SetInsertRec(root, new) ==
    LET insert[t \in Trees] ==
            IF t = NULL THEN new
            ELSE IF t.key < new.key THEN LiftLeft([t EXCEPT !.left = insert[t.left]])
            ELSE IF t.key > new.key THEN LiftRight([t EXCEPT !.right = insert[t.right]])
            ELSE t
    IN  insert[root]

\* Removes a node with two children together with one of its subtrees.
SetEraseRecDrops(root, key) ==
    LET erase[t \in Trees] ==
            IF t = NULL THEN NULL
            ELSE IF t.key < key THEN [t EXCEPT !.left = erase[t.left]]
            ELSE IF t.key > key THEN [t EXCEPT !.right = erase[t.right]]
            ELSE IF t.left = NULL THEN t.right ELSE t.left
    IN  erase[root]

\* _erase_rec.  A node with two children is rotated down below the one with
\* the higher priority until it has at most one.
SetEraseRec(root, key) ==
    LET erase[t \in Trees] ==
            IF t = NULL THEN NULL
            ELSE IF t.key < key THEN [t EXCEPT !.left = erase[t.left]]
            ELSE IF t.key > key THEN [t EXCEPT !.right = erase[t.right]]
            ELSE IF t.left = NULL THEN t.right
            ELSE IF t.right = NULL THEN t.left
            ELSE IF t.left.priority > t.right.priority
            THEN LET r == RotateRight(t) IN [r EXCEPT !.right = erase[r.right]]
            ELSE LET r == RotateLeft(t) IN [r EXCEPT !.left = erase[r.left]]
    IN  erase[root]

\* `inserted' and `erased' are set where a node is linked in or freed.
SetContains(key) == Find(set_root, key) # NULL

SetInsertKeepsRejected(key, priority) ==
    /\ set_root' = SetInsertRec(set_root, Node(key, NULL, priority))
    /\ set_sz' = IF SetContains(key) THEN set_sz ELSE set_sz + 1
    /\ blocks' = blocks + 2

SetInsert(key, priority) ==
    /\ set_root' = SetInsertRec(set_root, Node(key, NULL, priority))
    /\ set_sz' = IF SetContains(key) THEN set_sz ELSE set_sz + 1
    /\ blocks' = IF SetContains(key) THEN blocks ELSE blocks + 2

SetErase(key) ==
    /\ set_root' = SetEraseRec(set_root, key)
    /\ set_sz' = IF SetContains(key) /\ set_sz > 0 THEN set_sz - 1 ELSE set_sz
    /\ blocks' = IF SetContains(key) THEN blocks - 2 ELSE blocks

\* Every node with its key, then the set.
SetDestroy == /\ blocks' = blocks - 2 * Size(set_root) - 1
              /\ UNCHANGED <<set_root, set_sz>>
=============================================================================
