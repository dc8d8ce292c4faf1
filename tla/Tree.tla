-------------------------------- MODULE Tree --------------------------------
(***************************************************************************)
(* The search tree of mxf_tree.c, as operators: a tree is NULL or a node   *)
(* with its two subtrees and the height that the code keeps of it.  A node *)
(* is as good as its key.                                                  *)
(***************************************************************************)
EXTENDS Integers, Sequences

CONSTANT NULL

(* mxf_tree_insert: a new node has the height 0, like no node at all.      *)
Node(key) == [key |-> key, left |-> NULL, right |-> NULL, height |-> 0]

Height(t) == IF t = NULL THEN 0 ELSE t.height
Delta(t)  == Height(t.left) - Height(t.right)
Higher(a, b) == IF a >= b THEN a ELSE b

RECURSIVE Balanced(_), RotatedLeft(_), RotatedRight(_)

(* A rotation that forgets the left subtree of the new root.               *)
RotatedLeftLost(t) ==
    Balanced([t.right EXCEPT !.left = Balanced([t EXCEPT !.right = NULL])])

(* rotate_left and rotate_right                                            *)
RotatedLeft(t) ==
    Balanced([t.right EXCEPT !.left = Balanced([t EXCEPT !.right = t.right.left])])
RotatedRight(t) ==
    Balanced([t.left EXCEPT !.right = Balanced([t EXCEPT !.left = t.left.right])])

(* balance_tree                                                            *)
Balanced(t) ==
    IF Delta(t) < -1
    THEN RotatedLeft([t EXCEPT !.right = IF Delta(t.right) > 0 THEN RotatedRight(t.right) ELSE t.right])
    ELSE IF Delta(t) > 1
    THEN RotatedRight([t EXCEPT !.left = IF Delta(t.left) < 0 THEN RotatedLeft(t.left) ELSE t.left])
    ELSE [t EXCEPT !.height = Higher(Height(t.left), Height(t.right)) + 1]

(* insert_node of a key that is not in the tree                            *)
RECURSIVE Inserted(_, _)
Inserted(t, key) ==
    IF t = NULL THEN Node(key)
    ELSE IF t.key < key THEN Balanced([t EXCEPT !.right = Inserted(t.right, key)])
    ELSE Balanced([t EXCEPT !.left = Inserted(t.left, key)])

(* find_node                                                               *)
RECURSIVE Finds(_, _)
Finds(t, key) ==
    /\ t # NULL
    /\ \/ t.key = key
       \/ t.key < key /\ Finds(t.right, key)
       \/ t.key > key /\ Finds(t.left, key)

(* traverse_node: a node before its subtrees                               *)
RECURSIVE Traversed(_)
Traversed(t) == IF t = NULL THEN <<>> ELSE <<t.key>> \o Traversed(t.left) \o Traversed(t.right)

(* The longest search.                                                     *)
RECURSIVE Depth(_)
Depth(t) == IF t = NULL THEN 0 ELSE 1 + Higher(Depth(t.left), Depth(t.right))
=============================================================================
