------------------------------ MODULE Storage ------------------------------
(***************************************************************************)
(* One handle on a database file: shadow paging with two meta slots        *)
(* (physical.py), the staged tree that commit() writes out (logical.py,    *)
(* bplus_tree.py) and recovery on open, under process kills, power loss,   *)
(* a rotted meta slot and failing I/O calls, at full durability.           *)
(*                                                                         *)
(* The file is its two meta slots and the sequence of its records.  A      *)
(* record's address is its position, 0 being "no address"; a file length   *)
(* is a number of records, 0 being SUPERBLOCK_SIZE.  `slots` and `recs`    *)
(* are what a read returns, `dslots` and `drecs` what the last fsync made  *)
(* durable.  The tree is a B+ tree of at most `order` keys, which is one   *)
(* leaf: a node record maps each key to the address of its value record.   *)
(***************************************************************************)
EXTENDS Integers, FiniteSets, Sequences

CONSTANTS
    Keys, Values,
    NoValue,        \* a key that is not in the tree
    Faults,         \* the faults the environment may inject
    MaxTxn,         \* bound: transaction ids the checker explores
    MaxRecs         \* bound: records a file grows to before commits stop

ASSUME StorageAssumption ==
    /\ NoValue \notin Values
    /\ Faults \subseteq {"kill", "power", "rot", "io"}
    /\ MaxTxn \in Nat
    /\ MaxRecs \in Nat

VARIABLES
    slots, recs,    \* the file as the operating system shows it
    dslots, drecs,  \* the file as of the last fsync
    pc,             \* where the handle is in open() or commit()
    meta,           \* Storage._meta: the transaction id and slot it cached
    tree,           \* the handle's map, staged changes included
    addr,           \* per key, the address of its stored value, 0 if unstored
    root,           \* _tree_ref.address, 0 if the root is unstored or empty
    count           \* BPlusTree._count

file == <<slots, recs, dslots, drecs>>
memory == <<meta, tree, addr, root, count>>
vars == <<slots, recs, dslots, drecs, pc, meta, tree, addr, root, count>>

SlotIds == {0, 1}
Slot == [valid : BOOLEAN, txn : Nat, root : Nat, count : Int, len : Nat]
Record == [kind : {"value", "node", "torn"},
           val : Values \cup {NoValue},
           ptr : [Keys -> Nat]]

NoPtr == [k \in Keys |-> 0]
EmptyTree == [k \in Keys |-> NoValue]

\* A slot, and a record, whose checksum does not verify.
TornSlot == [valid |-> FALSE, txn |-> 0, root |-> 0, count |-> 0, len |-> 0]
TornRec == [kind |-> "torn", val |-> NoValue, ptr |-> NoPtr]

ValueRec(v) == [kind |-> "value", val |-> v, ptr |-> NoPtr]
NodeRec(p) == [kind |-> "node", val |-> NoValue, ptr |-> p]

InitialSlot == [valid |-> TRUE, txn |-> 0, root |-> 0, count |-> 0, len |-> 0]

\* _read_best_meta: the valid slot with the highest id, slot 0 on a tie.
Best(s) ==
    IF s[0].valid /\ (~s[1].valid \/ s[0].txn >= s[1].txn) THEN 0 ELSE 1

Readable(s) == s[0].valid \/ s[1].valid

\* The map under the root that meta slot m publishes, read from records r.
View(m, r) ==
    [k \in Keys |->
        IF m.root = 0 \/ r[m.root].ptr[k] = 0 THEN NoValue
        ELSE r[r[m.root].ptr[k]].val]

Init ==
    /\ slots = [i \in SlotIds |-> InitialSlot]
    /\ recs = <<>>
    /\ dslots = slots
    /\ drecs = recs
    /\ pc = "idle"
    /\ meta = [txn |-> 0, slot |-> 0]
    /\ tree = EmptyTree
    /\ addr = NoPtr
    /\ root = 0
    /\ count = 0

\* flush(): the file buffer is written out and the file synced.
Fsync == dslots' = slots /\ drecs' = recs

-----------------------------------------------------------------------------
(* Staging: copy-on-write updates of the in-memory tree.                   *)

\* Mutant: an overwrite counts as an insertion.
SetOvercounts(k, v) ==
    /\ pc = "idle"
    /\ tree' = [tree EXCEPT ![k] = v]
    /\ addr' = [addr EXCEPT ![k] = 0]
    /\ root' = 0
    /\ count' = count + 1
    /\ UNCHANGED <<slots, recs, dslots, drecs, pc, meta>>

Set(k, v) ==
    /\ pc = "idle"
    /\ tree' = [tree EXCEPT ![k] = v]
    /\ addr' = [addr EXCEPT ![k] = 0]
    /\ root' = 0
    /\ count' = IF tree[k] = NoValue THEN count + 1 ELSE count
    /\ UNCHANGED <<slots, recs, dslots, drecs, pc, meta>>

\* Deleting a key that is absent raises KeyError and changes nothing here.
Delete(k) ==
    /\ pc = "idle"
    /\ tree[k] # NoValue
    /\ tree' = [tree EXCEPT ![k] = NoValue]
    /\ addr' = [addr EXCEPT ![k] = 0]
    /\ root' = 0
    /\ count' = count - 1
    /\ UNCHANGED <<slots, recs, dslots, drecs, pc, meta>>

-----------------------------------------------------------------------------
(* commit(): values, then the root node, fsync, the other slot, fsync.     *)

Commit ==
    /\ pc = "idle"
    /\ meta.txn < MaxTxn
    /\ Len(recs) <= MaxRecs
    /\ pc' = "storing"
    /\ UNCHANGED <<slots, recs, dslots, drecs, meta, tree, addr, root, count>>

\* ValueRef.store writes a value that has no address yet.
StoreValue(k) ==
    /\ pc = "storing"
    /\ tree[k] # NoValue
    /\ addr[k] = 0
    /\ recs' = Append(recs, ValueRec(tree[k]))
    /\ addr' = [addr EXCEPT ![k] = Len(recs) + 1]
    /\ UNCHANGED <<slots, dslots, drecs, pc, meta, tree, root, count>>

AllStored == \A k \in Keys : tree[k] # NoValue => addr[k] # 0

\* A root that has an address, or the empty tree, is not written again.
StoreRoot ==
    /\ pc = "storing"
    /\ AllStored
    /\ IF root = 0 /\ tree # EmptyTree
       THEN /\ recs' = Append(recs, NodeRec(addr))
            /\ root' = Len(recs) + 1
       ELSE UNCHANGED <<recs, root>>
    /\ pc' = "stored"
    /\ UNCHANGED <<slots, dslots, drecs, meta, tree, addr, count>>

\* Mutant: the meta block is written before its records are synced.
FlushDataUnsynced ==
    /\ pc = "stored"
    /\ pc' = "flushed"
    /\ UNCHANGED <<slots, recs, dslots, drecs, meta, tree, addr, root, count>>

FlushData ==
    /\ pc = "stored"
    /\ Fsync
    /\ pc' = "flushed"
    /\ UNCHANGED <<slots, recs, meta, tree, addr, root, count>>

\* Mutant: the transaction id is bumped twice.
NewMetaSkips == [valid |-> TRUE, txn |-> meta.txn + 2, root |-> root,
                 count |-> count, len |-> Len(recs)]

NewMeta == [valid |-> TRUE, txn |-> meta.txn + 1, root |-> root,
            count |-> count, len |-> Len(recs)]

\* Mutant: the commit overwrites the slot it was opened from.
WriteSlotInPlace ==
    /\ pc = "flushed"
    /\ slots' = [slots EXCEPT ![meta.slot] = NewMeta]
    /\ pc' = "slotted"
    /\ UNCHANGED <<recs, dslots, drecs, meta, tree, addr, root, count>>

WriteSlot ==
    /\ pc = "flushed"
    /\ slots' = [slots EXCEPT ![1 - meta.slot] = NewMeta]
    /\ pc' = "slotted"
    /\ UNCHANGED <<recs, dslots, drecs, meta, tree, addr, root, count>>

\* Mutant: commit() returns without the second fsync.
FlushMetaUnsynced ==
    /\ pc = "slotted"
    /\ meta' = [txn |-> meta.txn + 1, slot |-> 1 - meta.slot]
    /\ pc' = "idle"
    /\ UNCHANGED <<slots, recs, dslots, drecs, tree, addr, root, count>>

\* Mutant: the cached slot number runs past the last slot.
FlushMetaNextSlot ==
    /\ pc = "slotted"
    /\ Fsync
    /\ meta' = [txn |-> meta.txn + 1, slot |-> meta.slot + 1]
    /\ pc' = "idle"
    /\ UNCHANGED <<slots, recs, tree, addr, root, count>>

FlushMeta ==
    /\ pc = "slotted"
    /\ Fsync
    /\ meta' = [txn |-> meta.txn + 1, slot |-> 1 - meta.slot]
    /\ pc' = "idle"
    /\ UNCHANGED <<slots, recs, tree, addr, root, count>>

\* An OSError out of a write or an fsync leaves commit() half done, perhaps
\* with part of a record at the end of the file: the handle stays open, with
\* the metadata it had cached before the call.
IOError ==
    /\ "io" \in Faults
    /\ pc \in {"storing", "stored", "flushed", "slotted"}
    /\ \/ UNCHANGED recs
       \/ pc = "storing" /\ recs' = Append(recs, TornRec)
    /\ pc' = "idle"
    /\ UNCHANGED <<slots, dslots, drecs, memory>>

-----------------------------------------------------------------------------
(* Open: adopt the best slot, drop the tail that it does not cover.        *)

\* Mutant: the handle starts from an empty tree.
LoadNothing(m, r) ==
    /\ tree' = EmptyTree
    /\ addr' = NoPtr
    /\ root' = 0
    /\ count' = IF m.root <= Len(r) THEN m.count ELSE 0

Load(m, r) ==
    /\ tree' = View(m, r)
    /\ addr' = IF m.root = 0 THEN NoPtr ELSE r[m.root].ptr
    /\ root' = m.root
    /\ count' = m.count

Adopt(i) == meta' = [txn |-> slots[i].txn, slot |-> i]

\* stats(), snapshot(), get_txn_id: the cached metadata is read again, which
\* after a failed commit may be the slot that commit wrote.
Refresh ==
    /\ pc = "idle"
    /\ Adopt(Best(slots))
    /\ UNCHANGED <<slots, recs, dslots, drecs, pc, tree, addr, root, count>>

OpenClean ==
    LET b == Best(slots) IN
    /\ pc = "down"
    /\ Readable(slots)
    /\ Len(recs) <= slots[b].len
    /\ Adopt(b)
    /\ Load(slots[b], recs)
    /\ pc' = "idle"
    /\ UNCHANGED file

OpenTruncate ==
    LET b == Best(slots) IN
    /\ pc = "down"
    /\ Readable(slots)
    /\ Len(recs) > slots[b].len
    /\ Adopt(b)
    /\ recs' = SubSeq(recs, 1, slots[b].len)
    /\ pc' = "recovering"
    /\ UNCHANGED <<slots, dslots, drecs, tree, addr, root, count>>

FinishOpen ==
    LET b == Best(slots) IN
    /\ pc = "recovering"
    /\ Fsync
    /\ Load(slots[b], recs)
    /\ pc' = "idle"
    /\ UNCHANGED <<slots, recs, meta>>

-----------------------------------------------------------------------------
(* The handle goes away, with whatever was staged in it.                   *)

Forget ==
    /\ pc' = "down"
    /\ meta' = [txn |-> 0, slot |-> 0]
    /\ tree' = EmptyTree
    /\ addr' = NoPtr
    /\ root' = 0
    /\ count' = 0

Close ==
    /\ pc = "idle"
    /\ Forget
    /\ UNCHANGED file

\* The process dies.  What it wrote stays in the page cache, except that the
\* record it was writing, the only one its file buffer can hold, may be torn
\* (a meta slot is one page, written whole or not at all).
Kill ==
    /\ "kill" \in Faults
    /\ pc # "down"
    /\ \/ UNCHANGED recs
       \/ /\ pc \in {"storing", "stored"}
          /\ Len(recs) > slots[Best(slots)].len
          /\ recs' = [recs EXCEPT ![Len(recs)] = TornRec]
    /\ Forget
    /\ UNCHANGED <<slots, dslots, drecs>>

Smaller(a, b) == IF a <= b THEN a ELSE b
Larger(a, b) == IF a >= b THEN a ELSE b

\* Records that differ between the file as shown and the file as synced.
Unsynced ==
    {i \in 1..Larger(Len(recs), Len(drecs)) :
        \/ i > Len(recs)
        \/ i > Len(drecs)
        \/ recs[i] # drecs[i]}

SurvivingSlots(i) ==
    IF slots[i] = dslots[i] THEN {slots[i]} ELSE {slots[i], dslots[i], TornSlot}

\* Power fails.  Each unsynced slot or record is on the disk as it was
\* (`kept`), as it was last written, or as garbage (`lost`); the length is
\* anything between the two lengths.
PowerLoss ==
    /\ "power" \in Faults
    /\ \E s0 \in SurvivingSlots(0), s1 \in SurvivingSlots(1) :
          slots' = [i \in SlotIds |-> IF i = 0 THEN s0 ELSE s1]
    /\ \E n \in Smaller(Len(recs), Len(drecs))..Larger(Len(recs), Len(drecs)) :
       \E lost \in SUBSET (Unsynced \cap 1..n) :
       \E kept \in SUBSET ((Unsynced \cap 1..n) \ lost) :
          /\ \A i \in kept : i <= Len(drecs)
          /\ \A i \in (1..n) \ (lost \cup kept) : i <= Len(recs)
          /\ recs' = [i \in 1..n |-> IF i \in lost THEN TornRec
                                     ELSE IF i \in kept THEN drecs[i]
                                     ELSE recs[i]]
    /\ dslots' = slots'
    /\ drecs' = recs'
    /\ Forget

\* A slot of a closed, synced file rots; the other one is still good.
Rot(i) ==
    /\ "rot" \in Faults
    /\ pc = "down"
    /\ slots = dslots
    /\ \A j \in SlotIds : slots[j].valid
    /\ slots' = [slots EXCEPT ![i] = TornSlot]
    /\ dslots' = [dslots EXCEPT ![i] = TornSlot]
    /\ UNCHANGED <<recs, drecs, pc, memory>>

Next ==
    \/ \E k \in Keys, v \in Values : Set(k, v)
    \/ \E k \in Keys : Delete(k)
    \/ Commit
    \/ \E k \in Keys : StoreValue(k)
    \/ StoreRoot
    \/ FlushData
    \/ WriteSlot
    \/ FlushMeta
    \/ IOError
    \/ Refresh
    \/ OpenClean
    \/ OpenTruncate
    \/ FinishOpen
    \/ Close
    \/ Kill
    \/ PowerLoss
    \/ \E i \in SlotIds : Rot(i)

Spec == Init /\ [][Next]_vars

-----------------------------------------------------------------------------
(* Properties.                                                             *)

\* Type correctness of the file, its durable image and the handle.
TypeOK ==
    /\ slots \in [SlotIds -> Slot]
    /\ dslots \in [SlotIds -> Slot]
    /\ recs \in Seq(Record)
    /\ drecs \in Seq(Record)
    /\ pc \in {"idle", "storing", "stored", "flushed", "slotted",
              "down", "recovering"}
    /\ meta \in [txn : Nat, slot : SlotIds]
    /\ tree \in [Keys -> Values \cup {NoValue}]
    /\ addr \in [Keys -> Nat]
    /\ root \in Nat
    /\ count \in Int

\* Every record under the root that slot m publishes is there, checksummed,
\* of the right kind and inside the length m records.
Intact(m, r) ==
    /\ m.len <= Len(r)
    /\ m.root <= m.len
    /\ m.root # 0 =>
          /\ r[m.root].kind = "node"
          /\ \A k \in Keys : r[m.root].ptr[k] # 0 =>
                /\ r[m.root].ptr[k] <= m.len
                /\ r[r[m.root].ptr[k]].val \in Values

\* A crash never corrupts the database: whatever was lost, torn or rotted,
\* the file has a valid meta slot and its whole tree can be read
\* (_ensure_meta, read; simulation.py's first invariant).
NeverCorrupt == Readable(slots) /\ Intact(slots[Best(slots)], recs)

Visible == View(slots[Best(slots)], recs)
Durable == View(dslots[Best(dslots)], drecs)
Working == IF pc \in {"down", "recovering"} THEN Visible ELSE tree

\* The key count published with a root is the number of keys under that
\* root, through every overwrite, delete, crash and recovery
\* (_insert_rec and _delete_rec keep it incrementally, audit compares it).
CountMatches ==
    slots[Best(slots)].count = Cardinality({k \in Keys : Visible[k] # NoValue})

\* The fallback is never more than one commit behind: two valid slots hold
\* consecutive transactions, or both the initial one, so a torn or rotted
\* slot costs at most the newest commit (commit_root_address alternates).
FallbackIsPrevious ==
    slots[0].valid /\ slots[1].valid =>
        LET b == Best(slots) IN
        \/ slots[b].txn = slots[1 - b].txn + 1
        \/ slots[b] = InitialSlot /\ slots[1 - b] = InitialSlot

\* When commit() returns, its map is the one that a power loss at that
\* moment would leave (flush, write slot, flush).
AckMeansDurable == [][FlushMeta => Durable' = tree]_vars

\* The newest durable meta block is never in flight: a commit writes the
\* other slot (commit_root_address, slot = 1 - self._meta.slot).
NewestSlotSpared ==
    [][WriteSlot => slots'[Best(dslots)] = dslots[Best(dslots)]]_vars

\* The engine implements the atomic map: staged changes appear and become
\* durable all together, and every fault leaves one of the two published
\* maps (commit ordering in commit_root_address, recovery in _ensure_meta).
Atomic == INSTANCE AtomicStore
    WITH durable <- Durable, visible <- Visible, working <- Working

AtomicSpec == Atomic!Spec
=============================================================================
