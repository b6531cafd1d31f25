----------------------------- MODULE BPlusTree -----------------------------
(***************************************************************************)
(* The copy-on-write B+ tree (bplus_tree.py): insertion with splits,       *)
(* deletion with borrowing and merging, lookups and pruned range scans.    *)
(*                                                                         *)
(* A node is a value, so an update builds a new tree and leaves the old    *)
(* one as it was, as the code's frozen nodes do; addresses are Storage's   *)
(* concern.                                                                *)
(***************************************************************************)
EXTENDS Integers, FiniteSets, Sequences, SequencesExt

CONSTANTS
    NoKey,          \* start or stop = None
    Absent,         \* a key that is not found; a tree that is empty
    Order           \* the most keys a node may hold

MinKeys == Order \div 2

Leaf(ks, vs) == [leaf |-> TRUE, keys |-> ks, values |-> vs, children |-> <<>>]
Internal(ks, cs) == [leaf |-> FALSE, keys |-> ks, values |-> <<>>, children |-> cs]

BisectLeft(ks, k) == Cardinality({i \in DOMAIN ks : ks[i] < k})
BisectRight(ks, k) == Cardinality({i \in DOMAIN ks : ks[i] <= k})

Holds(ks, k) ==
    LET i == BisectLeft(ks, k) + 1 IN i <= Len(ks) /\ ks[i] = k

From(s, i) == SubSeq(s, i, Len(s))

-----------------------------------------------------------------------------
(* Reads.                                                                  *)

RECURSIVE Get(_, _)
Get(node, k) ==
    IF node.leaf
    THEN IF Holds(node.keys, k) THEN node.values[BisectLeft(node.keys, k) + 1] ELSE Absent
    ELSE Get(node.children[BisectRight(node.keys, k) + 1], k)

RECURSIVE Items(_)
Items(node) ==
    IF node.leaf THEN [i \in DOMAIN node.keys |-> <<node.keys[i], node.values[i]>>]
    ELSE FlattenSeq([i \in DOMAIN node.children |-> Items(node.children[i])])

\* A bound that is None excludes nothing.
Reaches(bound, k) == bound # NoKey /\ bound <= k
Precedes(k, bound) == bound # NoKey /\ k < bound
StopsBefore(k, bound) == bound # NoKey /\ k <= bound

\* Mutant: a subtree is skipped when its right bound is next to the start.
SkippedEarly(ks, i, start) == i <= Len(ks) /\ start # NoKey /\ ks[i] <= start + 1

\* Child i ends at or before the start of the range.
Skipped(ks, i, start) == i <= Len(ks) /\ StopsBefore(ks[i], start)

\* Child i, or one to its left, begins at or after the end of the range.
Broken(ks, i, stop) == \E j \in 2..i : Reaches(stop, ks[j - 1])

RECURSIVE RangeItems(_, _, _)
RangeItems(node, start, stop) ==
    LET ks == node.keys
        inside == SelectSeq([i \in DOMAIN ks |-> i], LAMBDA i :
                      /\ ~Precedes(ks[i], start)
                      /\ \A j \in 1..i : Precedes(ks[j], start) \/ ~Reaches(stop, ks[j]))
        visited == SelectSeq([i \in DOMAIN node.children |-> i], LAMBDA i :
                      ~Broken(ks, i, stop) /\ ~Skipped(ks, i, start))
    IN  IF node.leaf
        THEN [n \in DOMAIN inside |-> <<ks[inside[n]], node.values[inside[n]]>>]
        ELSE FlattenSeq([n \in DOMAIN visited |->
                            RangeItems(node.children[visited[n]], start, stop)])

-----------------------------------------------------------------------------
(* Insertion.  The result has the node that replaces the old one and, if   *)
(* that overflowed, its separator and right half.                          *)

NoSplit == <<>>

SplitLeaf(ks, vs) ==
    LET mid == Len(ks) \div 2 IN
    IF Len(ks) <= Order THEN [node |-> Leaf(ks, vs), split |-> NoSplit]
    ELSE [node |-> Leaf(SubSeq(ks, 1, mid), SubSeq(vs, 1, mid)),
          split |-> <<ks[mid + 1], Leaf(From(ks, mid + 1), From(vs, mid + 1))>>]

\* Mutant: the promoted key takes the first child of the right half with it.
SplitInternalDropsChild(ks, cs) ==
    LET mid == Len(ks) \div 2 IN
    IF Len(ks) <= Order THEN [node |-> Internal(ks, cs), split |-> NoSplit]
    ELSE [node |-> Internal(SubSeq(ks, 1, mid), SubSeq(cs, 1, mid + 1)),
          split |-> <<ks[mid + 1], Internal(From(ks, mid + 2), From(cs, mid + 3))>>]

SplitInternal(ks, cs) ==
    LET mid == Len(ks) \div 2 IN
    IF Len(ks) <= Order THEN [node |-> Internal(ks, cs), split |-> NoSplit]
    ELSE [node |-> Internal(SubSeq(ks, 1, mid), SubSeq(cs, 1, mid + 1)),
          split |-> <<ks[mid + 1], Internal(From(ks, mid + 2), From(cs, mid + 2))>>]

RECURSIVE InsertRec(_, _, _)
InsertRec(node, k, v) ==
    IF node.leaf
    THEN LET i == BisectLeft(node.keys, k) + 1 IN
         IF Holds(node.keys, k)
         THEN [half |-> SplitLeaf(node.keys, ReplaceAt(node.values, i, v)), grown |-> 0]
         ELSE [half |-> SplitLeaf(InsertAt(node.keys, i, k), InsertAt(node.values, i, v)),
               grown |-> 1]
    ELSE LET i == BisectRight(node.keys, k) + 1
             below == InsertRec(node.children[i], k, v)
             cs == ReplaceAt(node.children, i, below.half.node)
             split == below.half.split
         IN  [half |-> IF split = NoSplit THEN SplitInternal(node.keys, cs)
                       ELSE SplitInternal(InsertAt(node.keys, i, split[1]),
                                          InsertAt(cs, i + 1, split[2])),
              grown |-> below.grown]

\* _insert: the new root, and by how many keys the tree has grown.
Insert(root, k, v) ==
    IF root = Absent THEN [root |-> Leaf(<<k>>, <<v>>), grown |-> 1]
    ELSE LET new == InsertRec(root, k, v)
             left == new.half.node
             split == new.half.split
         IN  [root |-> IF split = NoSplit THEN left
                       ELSE Internal(<<split[1]>>, <<left, split[2]>>),
              grown |-> new.grown]

-----------------------------------------------------------------------------
(* Deletion.  ks and cs are a parent's keys and children, cs[i] the child  *)
(* that has become too small.                                              *)

BorrowFromLeft(ks, cs, i) ==
    LET left == cs[i - 1]
        child == cs[i]
        donor == IF child.leaf THEN Leaf(Front(left.keys), Front(left.values))
                 ELSE Internal(Front(left.keys), Front(left.children))
        taker == IF child.leaf
                 THEN Leaf(<<Last(left.keys)>> \o child.keys,
                           <<Last(left.values)>> \o child.values)
                 ELSE Internal(<<ks[i - 1]>> \o child.keys,
                               <<Last(left.children)>> \o child.children)
    IN  Internal(ReplaceAt(ks, i - 1, Last(left.keys)),
                 ReplaceAt(ReplaceAt(cs, i - 1, donor), i, taker))

\* Mutant: the separator becomes the key that has just moved away.
BorrowFromRightStale(ks, cs, i) ==
    LET right == cs[i + 1]
        child == cs[i]
        donor == IF child.leaf THEN Leaf(Tail(right.keys), Tail(right.values))
                 ELSE Internal(Tail(right.keys), Tail(right.children))
        taker == IF child.leaf
                 THEN Leaf(Append(child.keys, Head(right.keys)),
                           Append(child.values, Head(right.values)))
                 ELSE Internal(Append(child.keys, ks[i]),
                               Append(child.children, Head(right.children)))
    IN  Internal(ReplaceAt(ks, i, Head(right.keys)),
                 ReplaceAt(ReplaceAt(cs, i, taker), i + 1, donor))

BorrowFromRight(ks, cs, i) ==
    LET right == cs[i + 1]
        child == cs[i]
        donor == IF child.leaf THEN Leaf(Tail(right.keys), Tail(right.values))
                 ELSE Internal(Tail(right.keys), Tail(right.children))
        taker == IF child.leaf
                 THEN Leaf(Append(child.keys, Head(right.keys)),
                           Append(child.values, Head(right.values)))
                 ELSE Internal(Append(child.keys, ks[i]),
                               Append(child.children, Head(right.children)))
        separator == IF child.leaf THEN right.keys[2] ELSE right.keys[1]
    IN  Internal(ReplaceAt(ks, i, separator),
                 ReplaceAt(ReplaceAt(cs, i, taker), i + 1, donor))

\* Children i and i + 1 become one, and the separator between them goes.
Merge(ks, cs, i) ==
    LET left == cs[i]
        right == cs[i + 1]
        merged == IF left.leaf THEN Leaf(left.keys \o right.keys, left.values \o right.values)
                  ELSE Internal(left.keys \o <<ks[i]>> \o right.keys,
                                left.children \o right.children)
    IN  Internal(RemoveAt(ks, i), ReplaceAt(RemoveAt(cs, i + 1), i, merged))

Spare(cs, i) == i \in DOMAIN cs /\ Len(cs[i].keys) > MinKeys

Rebalance(ks, cs, i) ==
    IF Spare(cs, i - 1) THEN BorrowFromLeft(ks, cs, i)
    ELSE IF Spare(cs, i + 1) THEN BorrowFromRight(ks, cs, i)
    ELSE IF i > 1 THEN Merge(ks, cs, i - 1)
    ELSE Merge(ks, cs, i)

RECURSIVE DeleteRec(_, _)
DeleteRec(node, k) ==
    IF node.leaf
    THEN LET i == BisectLeft(node.keys, k) + 1 IN
         Leaf(RemoveAt(node.keys, i), RemoveAt(node.values, i))
    ELSE LET i == BisectRight(node.keys, k) + 1
             child == DeleteRec(node.children[i], k)
             cs == ReplaceAt(node.children, i, child)
         IN  IF Len(child.keys) >= MinKeys THEN Internal(node.keys, cs)
             ELSE Rebalance(node.keys, cs, i)

\* A root that lost its last key gives way to its only child, or to nothing.
Collapse(node) ==
    IF node.keys # <<>> THEN node
    ELSE IF node.leaf THEN Absent ELSE node.children[1]

\* _delete of a key the tree holds.
Delete(root, k) == Collapse(DeleteRec(root, k))

-----------------------------------------------------------------------------
(* audit()                                                                 *)

\* Every leaf has a value per key, every internal node a child more than it
\* has separators.
RECURSIVE WellFormed(_)
WellFormed(node) ==
    IF node.leaf THEN Len(node.values) = Len(node.keys)
    ELSE /\ Len(node.children) = Len(node.keys) + 1
         /\ \A i \in DOMAIN node.children : WellFormed(node.children[i])

\* check(): keys ascend between the bounds, nodes are neither over- nor
\* under-full, and all leaves under a node are equally deep.
RECURSIVE Height(_)
Height(node) == IF node.leaf THEN 1 ELSE 1 + Height(node.children[1])

RECURSIVE Sound(_, _, _, _)
Sound(node, lower, upper, isRoot) ==
    LET ks == node.keys IN
    /\ \A i \in 1..Len(ks) - 1 : ks[i] < ks[i + 1]
    /\ \A i \in DOMAIN ks : ~Precedes(ks[i], lower) /\ ~Reaches(upper, ks[i])
    /\ Len(ks) <= Order
    /\ isRoot \/ Len(ks) >= MinKeys
    /\ ~node.leaf =>
          /\ Len(ks) >= 1
          /\ \A i \in DOMAIN node.children :
                /\ Height(node.children[i]) = Height(node.children[1])
                /\ Sound(node.children[i], IF i > 1 THEN ks[i - 1] ELSE lower,
                         IF i <= Len(ks) THEN ks[i] ELSE upper, FALSE)
=============================================================================
