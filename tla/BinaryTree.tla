---------------------------- MODULE BinaryTree -----------------------------
(***************************************************************************)
(* The alternative index (binary_tree.py): an unbalanced copy-on-write     *)
(* search tree whose every node carries the size of its subtree.           *)
(*                                                                         *)
(* A node is a value; a reference that holds nothing is Absent.            *)
(***************************************************************************)
EXTENDS Integers, Sequences

CONSTANTS
    NoKey,          \* start or stop = None
    Absent          \* an empty reference; a key that is not found

Length(node) == IF node = Absent THEN 0 ELSE node.length

\* Mutant: the length of the left subtree is left out.
NodeUncounted(left, k, v, right) ==
    [left |-> left, key |-> k, value |-> v, right |-> right, length |-> 1 + Length(right)]

\* _node_ref
Node(left, k, v, right) ==
    [left |-> left, key |-> k, value |-> v, right |-> right,
     length |-> 1 + Length(left) + Length(right)]

RECURSIVE Get(_, _)
Get(node, k) ==
    IF node = Absent THEN Absent
    ELSE IF k < node.key THEN Get(node.left, k)
    ELSE IF node.key < k THEN Get(node.right, k)
    ELSE node.value

RECURSIVE Insert(_, _, _)
Insert(node, k, v) ==
    IF node = Absent THEN Node(Absent, k, v, Absent)
    ELSE IF k < node.key THEN Node(Insert(node.left, k, v), node.key, node.value, node.right)
    ELSE IF node.key < k THEN Node(node.left, node.key, node.value, Insert(node.right, k, v))
    ELSE Node(node.left, k, v, node.right)

\* The least node of a tree, and the tree without it.
RECURSIVE PopMin(_)
PopMin(node) ==
    IF node.left = Absent THEN [least |-> node, rest |-> node.right]
    ELSE LET popped == PopMin(node.left)
         IN  [least |-> popped.least,
              rest |-> Node(popped.rest, node.key, node.value, node.right)]

\* A node with two children is replaced by its successor.
RECURSIVE Delete(_, _)
Delete(node, k) ==
    IF k < node.key THEN Node(Delete(node.left, k), node.key, node.value, node.right)
    ELSE IF node.key < k THEN Node(node.left, node.key, node.value, Delete(node.right, k))
    ELSE IF node.left = Absent THEN node.right
    ELSE IF node.right = Absent THEN node.left
    ELSE LET popped == PopMin(node.right)
         IN  Node(node.left, popped.least.key, popped.least.value, popped.rest)

RECURSIVE Items(_)
Items(node) ==
    IF node = Absent THEN <<>>
    ELSE Items(node.left) \o <<<<node.key, node.value>>>> \o Items(node.right)

\* A subtree is visited only where the range can reach into it.
RECURSIVE RangeItems(_, _, _)
RangeItems(node, start, stop) ==
    IF node = Absent THEN <<>>
    ELSE LET fromStart == start = NoKey \/ start <= node.key
             beforeStop == stop = NoKey \/ node.key < stop
         IN  (IF fromStart THEN RangeItems(node.left, start, stop) ELSE <<>>)
             \o (IF fromStart /\ beforeStop THEN <<<<node.key, node.value>>>> ELSE <<>>)
             \o (IF beforeStop THEN RangeItems(node.right, start, stop) ELSE <<>>)

\* walk() of audit(): every key lies between its ancestors' keys and every
\* length is that of the subtree.
RECURSIVE Sound(_, _, _)
Sound(node, lower, upper) ==
    node # Absent =>
        /\ lower = NoKey \/ node.key > lower
        /\ upper = NoKey \/ node.key < upper
        /\ node.length = Len(Items(node))
        /\ Sound(node.left, lower, node.key)
        /\ Sound(node.right, node.key, upper)
=============================================================================
