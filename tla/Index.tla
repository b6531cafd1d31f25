------------------------------- MODULE Index -------------------------------
(***************************************************************************)
(* An index as the logical layer drives it (logical.py): set and delete on *)
(* one of the two engines, B+ tree or binary tree, against the map that    *)
(* the calls stand for.  The engine is chosen when the database is opened. *)
(*                                                                         *)
(* The stored value of key k is the pair <<k, v>>, so that a value filed   *)
(* under the wrong key is seen.                                            *)
(***************************************************************************)
EXTENDS Integers, Sequences, SequencesExt

CONSTANTS
    Keys,           \* the keys clients use, integers in their string order
    BinaryKeys,     \* bound: those used with the binary tree
    Versions,       \* values a key may be given
    NoKey, Absent,
    Order

ASSUME IndexAssumption ==
    /\ Keys \subseteq Int /\ BinaryKeys \subseteq Keys
    /\ NoKey \notin Keys
    /\ Absent \notin Versions
    /\ Order \in Nat /\ Order >= 3

VARIABLES
    engine,         \* _index_name
    root,           \* _tree_ref, followed
    count,          \* the B+ tree's _count
    map             \* the map the calls so far have built

vars == <<engine, root, count, map>>

Plus == INSTANCE BPlusTree
Binary == INSTANCE BinaryTree

UsedKeys == IF engine = "bplus" THEN Keys ELSE BinaryKeys

Get(k) ==
    IF engine = "binary" THEN Binary!Get(root, k)
    ELSE IF root = Absent THEN Absent ELSE Plus!Get(root, k)

\* length()
Length == IF engine = "binary" THEN Binary!Length(root) ELSE count

Items ==
    IF engine = "binary" THEN Binary!Items(root)
    ELSE IF root = Absent THEN <<>> ELSE Plus!Items(root)

RangeItems(start, stop) ==
    IF engine = "binary" THEN Binary!RangeItems(root, start, stop)
    ELSE IF root = Absent THEN <<>> ELSE Plus!RangeItems(root, start, stop)

Init ==
    /\ engine \in {"bplus", "binary"}
    /\ root = Absent
    /\ count = 0
    /\ map = [k \in Keys |-> Absent]

Set(k, v) ==
    /\ IF engine = "binary"
       THEN root' = Binary!Insert(root, k, <<k, v>>) /\ UNCHANGED count
       ELSE LET new == Plus!Insert(root, k, <<k, v>>)
            IN  root' = new.root /\ count' = count + new.grown
    /\ map' = [map EXCEPT ![k] = <<k, v>>]
    /\ UNCHANGED engine

\* A key that is not there raises KeyError and changes nothing.
Delete(k) ==
    /\ Get(k) # Absent
    /\ IF engine = "binary"
       THEN root' = Binary!Delete(root, k) /\ UNCHANGED count
       ELSE root' = Plus!Delete(root, k) /\ count' = count - 1
    /\ map' = [map EXCEPT ![k] = Absent]
    /\ UNCHANGED engine

Next ==
    \/ \E k \in UsedKeys, v \in Versions : Set(k, v)
    \/ \E k \in UsedKeys : Delete(k)

Spec == Init /\ [][Next]_vars

-----------------------------------------------------------------------------
(* Properties.                                                             *)

\* Type correctness: the nodes of a B+ tree have as many values or children
\* as their keys call for.
TypeOK ==
    /\ engine = "bplus" /\ root # Absent => Plus!WellFormed(root)
    /\ count \in Int
    /\ map \in [Keys -> (Keys \X Versions) \cup {Absent}]

\* audit() finds nothing: whatever was inserted and deleted, keys are in
\* order, a B+ tree is balanced and within its occupancy bounds, every
\* subtree of a binary tree has the length it claims, and length() is the
\* number of keys.
AuditOk ==
    /\ root # Absent => IF engine = "binary" THEN Binary!Sound(root, NoKey, NoKey)
                        ELSE Plus!Sound(root, NoKey, NoKey, TRUE)
    /\ Length = Len(Items)

\* A lookup finds exactly the keys that were inserted and not deleted, each
\* with the value last given to it: _get routes as the insertions did,
\* through every split, borrow, merge and replaced successor since.
GetAgrees == \A k \in Keys : map[k] = Get(k)

\* A range scan yields the map's items from start up to but not including
\* stop, each once and in order, although it prunes whole subtrees
\* (_range_items of either engine).
RangeAgrees ==
    \A start, stop \in UsedKeys \cup {NoKey} :
        LET found == RangeItems(start, stop) IN
        /\ \A i \in 1..Len(found) - 1 : found[i][1] < found[i + 1][1]
        /\ ToSet(found) =
              {<<k, map[k]>> : k \in {x \in Keys :
                  /\ map[x] # Absent
                  /\ start = NoKey \/ x >= start
                  /\ stop = NoKey \/ x < stop}}
=============================================================================
