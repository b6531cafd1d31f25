--------------------------- MODULE StorageProofs ---------------------------
(***************************************************************************)
(* Proofs about Storage: the file survives every fault, and the engine     *)
(* implements the atomic map when no I/O call fails and no slot rots.      *)
(***************************************************************************)
EXTENDS Storage, FiniteSetTheorems, TLAPS

Up == {"idle", "storing", "stored", "flushed", "slotted"}

\* What every valid slot guarantees: its tree is readable in the file as
\* shown, and everything it covers has been synced.
Safe(m) ==
    m.valid =>
        /\ Intact(m, recs)
        /\ m.len <= Len(drecs)
        /\ \A i \in 1..m.len : recs[i] = drecs[i]

SlotsSafe == \A i \in SlotIds : Safe(slots[i]) /\ Safe(dslots[i])

\* A slot that no power loss can take away.
Anchored == \E a \in SlotIds : slots[a].valid /\ slots[a] = dslots[a]

\* Between the two slots, an older transaction never covers more records.
Ordered ==
    \A i \in SlotIds :
    \A x \in {slots[i], dslots[i]}, y \in {slots[1 - i], dslots[1 - i]} :
        x.valid /\ y.valid /\ x.txn <= y.txn => x.len <= y.len

\* The slot open() adopts covers at least what any synced slot covers.
BestCovers ==
    \A i \in SlotIds : dslots[i].valid => dslots[i].len <= slots[Best(slots)].len

\* The handle's cached metadata is that of a valid slot.
MetaCurrent ==
    pc # "down" => slots[meta.slot].valid /\ slots[meta.slot].txn = meta.txn

\* The staged tree: stored references point at what they stand for.
TreeStored ==
    pc \in Up =>
        /\ \A k \in Keys : addr[k] # 0 =>
              /\ addr[k] <= Len(recs)
              /\ tree[k] # NoValue
              /\ recs[addr[k]].val = tree[k]
        /\ root # 0 =>
              /\ root <= Len(recs)
              /\ recs[root].kind = "node"
              /\ recs[root].ptr = addr
              /\ AllStored
        /\ pc \in {"stored", "flushed", "slotted"} /\ root = 0 => tree = EmptyTree

\* Between the two fsyncs of a commit only the slot being written is unsynced.
SyncedData ==
    /\ pc = "flushed" => slots = dslots /\ recs = drecs
    /\ pc = "slotted" =>
          /\ recs = drecs
          /\ dslots[meta.slot] = slots[meta.slot]
          /\ slots[1 - meta.slot] = NewMeta

FileInv == SlotsSafe /\ Anchored /\ Ordered /\ BestCovers

Inv ==
    /\ TypeOK
    /\ FileInv
    /\ MetaCurrent
    /\ TreeStored
    /\ SyncedData

\* Without failing I/O calls the cached slot is the best one, and an unsynced
\* slot is never the best of the synced ones.
CachedIsBest ==
    /\ pc \notin {"down", "slotted"} => Best(slots) = meta.slot
    /\ pc = "slotted" => Best(dslots) = meta.slot
    /\ \A b \in SlotIds : slots[b] # dslots[b] => Best(dslots) = 1 - b

-----------------------------------------------------------------------------
(* Facts about views.                                                      *)

\* The other slot of a slot is a slot, and another one.
LEMMA SlotFlips == \A b \in SlotIds : 1 - b \in SlotIds /\ 1 - b # b /\ 1 - (1 - b) # 1 - b
BY DEF SlotIds

\* A tree that slot m covers reads the same from any records that agree
\* with r up to the length of m.
LEMMA ViewPrefix ==
    ASSUME NEW m \in Slot, NEW r \in Seq(Record), NEW q \in Seq(Record),
           Intact(m, r), m.len <= Len(q), \A i \in 1..m.len : q[i] = r[i]
    PROVE  Intact(m, q) /\ View(m, q) = View(m, r)
<1>1. CASE m.root = 0
  BY <1>1 DEF Intact, View, Slot
<1>2. CASE m.root # 0
  <2>1. m.root \in 1..m.len /\ q[m.root] = r[m.root]
    BY <1>2 DEF Intact, Slot
  <2>2. r[m.root] \in Record
    BY <2>1 DEF Intact, Slot
  <2>3. \A k \in Keys : r[m.root].ptr[k] # 0 =>
           /\ r[m.root].ptr[k] \in 1..m.len
           /\ q[r[m.root].ptr[k]] = r[r[m.root].ptr[k]]
    <3>. SUFFICES ASSUME NEW k \in Keys, r[m.root].ptr[k] # 0
                  PROVE  r[m.root].ptr[k] \in 1..m.len
      OBVIOUS
    <3>1. r[m.root].ptr[k] \in Nat
      BY <2>2 DEF Record
    <3>2. r[m.root].ptr[k] <= m.len
      BY <1>2 DEF Intact
    <3>3. m.len \in Nat
      BY DEF Slot
    <3>. QED  BY <3>1, <3>2, <3>3
  <2>4. Intact(m, q)
    BY <1>2, <2>1, <2>3 DEF Intact
  <2>5. View(m, q) = View(m, r)
    BY <1>2, <2>1, <2>3 DEF View
  <2>. QED  BY <2>4, <2>5
<1>. QED  BY <1>1, <1>2

\* The file q has the first n records of the file r.
SameUpTo(n, r, q) == n <= Len(q) /\ \A j \in 1..n : q[j] = r[j]

\* A file keeps its first n records when _write_record appends one.
LEMMA AppendKeeps ==
    ASSUME NEW r \in Seq(Record), NEW n \in Nat, n <= Len(r), NEW x
    PROVE  SameUpTo(n, r, Append(r, x))
BY DEF SameUpTo

\* A file keeps its first n records when open() truncates it after them.
LEMMA CutKeeps ==
    ASSUME NEW r \in Seq(Record), NEW n \in Nat, n <= Len(r)
    PROVE  SameUpTo(n, r, SubSeq(r, 1, n))
BY DEF SameUpTo

\* A file keeps its first n records when a kill tears a later one.
LEMMA TearKeeps ==
    ASSUME NEW r \in Seq(Record), NEW n \in Nat, n < Len(r),
           NEW q, q = [r EXCEPT ![Len(r)] = TornRec]
    PROVE  SameUpTo(n, r, q)
BY DEF SameUpTo

\* The map under an intact root has the type of the staged tree.
LEMMA ViewType ==
    ASSUME NEW m \in Slot, NEW r \in Seq(Record), Intact(m, r)
    PROVE  View(m, r) \in [Keys -> Values \cup {NoValue}]
BY DEF Intact, View

\* Best picks a valid slot of at least the transaction id of the other.
LEMMA BestIsBest ==
    ASSUME NEW s \in [SlotIds -> Slot], NEW i \in SlotIds, s[i].valid
    PROVE  /\ Best(s) \in SlotIds
           /\ s[Best(s)].valid
           /\ s[i].txn <= s[Best(s)].txn
           /\ i = Best(s) \/ i = 1 - Best(s)
BY DEF Best, SlotIds, Slot

\* Of two valid slots Best picks the one of the next transaction.
LEMMA BestIsNewer ==
    ASSUME NEW s, NEW i \in SlotIds, NEW n \in Nat, s[i].valid, s[i].txn = n,
           s[1 - i].valid, s[1 - i].txn = n + 1
    PROVE  Best(s) = 1 - i
BY DEF Best, SlotIds

-----------------------------------------------------------------------------
(* The invariant of the file.                                              *)

\* Nothing about the file changes when the file does not.
LEMMA FileSame ==
    ASSUME FileInv, UNCHANGED file
    PROVE  FileInv'
BY DEF FileInv, SlotsSafe, Safe, Anchored, Ordered, BestCovers, file

\* Every valid slot covers no more than the best one.
LEMMA BestLen ==
    ASSUME TypeOK, FileInv, NEW i \in SlotIds
    PROVE  /\ Best(slots) \in SlotIds
           /\ slots[Best(slots)].valid
           /\ slots[i].valid => slots[i].len <= slots[Best(slots)].len
           /\ dslots[i].valid => dslots[i].len <= slots[Best(slots)].len
<1>1. PICK a \in SlotIds : slots[a].valid
  BY DEF FileInv, Anchored
<1>2. Best(slots) \in SlotIds /\ slots[Best(slots)].valid
  BY <1>1, BestIsBest DEF TypeOK
<1>3. ASSUME slots[i].valid
      PROVE  slots[i].len <= slots[Best(slots)].len
  <2>1. slots[i].txn <= slots[Best(slots)].txn /\ (i = Best(slots) \/ i = 1 - Best(slots))
    BY <1>3, BestIsBest DEF TypeOK
  <2>2. slots[i].len \in Nat
    BY DEF TypeOK, Slot
  <2>3. CASE i = Best(slots)
    BY <2>2, <2>3
  <2>4. CASE i = 1 - Best(slots)
    <3>1. Best(slots) = 1 - i
      BY <1>2, <2>4 DEF SlotIds
    <3>. QED  BY <1>2, <1>3, <2>1, <3>1 DEF FileInv, Ordered
  <2>. QED  BY <2>1, <2>3, <2>4
<1>. QED  BY <1>2, <1>3 DEF FileInv, BestCovers

\* Syncing the file keeps its invariant.
LEMMA FileSync ==
    ASSUME TypeOK, FileInv, UNCHANGED <<slots, recs>>,
           dslots' = slots, drecs' = recs
    PROVE  FileInv'
<1>1. SlotsSafe'
  BY DEF FileInv, SlotsSafe, Safe, Intact, TypeOK, Slot
<1>2. Anchored'
  BY DEF FileInv, Anchored
<1>3. Ordered'
  BY DEF FileInv, Ordered
<1>4. BestCovers'
  BY BestLen DEF BestCovers
<1>. QED  BY <1>1, <1>2, <1>3, <1>4, Zenon DEF FileInv

\* Appending a record keeps the invariant of the file.
LEMMA FileAppend ==
    ASSUME TypeOK, FileInv, NEW r \in Record, recs' = Append(recs, r),
           UNCHANGED <<slots, dslots, drecs>>
    PROVE  FileInv'
<1>1. ASSUME NEW m \in Slot, Safe(m)
      PROVE  Safe(m)'
  <2>1. recs' \in Seq(Record) /\ Len(recs') = Len(recs) + 1
        /\ \A i \in 1..Len(recs) : recs'[i] = recs[i]
    BY DEF TypeOK
  <2>2. CASE m.valid
    <3>1. Intact(m, recs) /\ m.len \in Nat
      BY <1>1, <2>2 DEF Safe, Slot
    <3>2. m.len <= Len(recs) /\ m.len <= Len(recs') /\ \A i \in 1..m.len : recs'[i] = recs[i]
      BY <2>1, <3>1 DEF Intact, TypeOK
    <3>3. Intact(m, recs')
      BY <2>1, <3>1, <3>2, ViewPrefix, Zenon DEF TypeOK
    <3>. QED  BY <1>1, <2>2, <3>2, <3>3, Zenon DEF Safe
  <2>. QED  BY <2>2, Zenon DEF Safe
<1>2. SlotsSafe'
  BY <1>1 DEF FileInv, SlotsSafe, TypeOK
<1>. QED  BY <1>2 DEF FileInv, Anchored, Ordered, BestCovers

-----------------------------------------------------------------------------
(* The invariant, action by action.                                        *)

\* Staging a value touches neither the file nor the cached meta block, and
\* the tree it leaves has an unstored root.
LEMMA SetStep ==
    ASSUME Inv, NEW k \in Keys, NEW v \in Values, Set(k, v)
    PROVE  Inv'
<1>1. TypeOK'
  BY DEF Inv, TypeOK, Set
<1>2. FileInv'
  BY FileSame DEF Inv, Set, file
<1>3. MetaCurrent'
  BY DEF Inv, Set, MetaCurrent
<1>4. TreeStored'
  BY StorageAssumption DEF Inv, TypeOK, Set, TreeStored, Up
<1>5. SyncedData'
  BY DEF Inv, Set, SyncedData
<1>. QED  BY <1>1, <1>2, <1>3, <1>4, <1>5 DEF Inv

\* Staging a deletion keeps the invariant for the same reason.
LEMMA DeleteStep ==
    ASSUME Inv, NEW k \in Keys, Delete(k)
    PROVE  Inv'
<1>1. TypeOK'
  BY DEF Inv, TypeOK, Delete
<1>2. FileInv'
  BY FileSame DEF Inv, Delete, file
<1>3. MetaCurrent'
  BY DEF Inv, Delete, MetaCurrent
<1>4. TreeStored'
  BY DEF Inv, TypeOK, Delete, TreeStored, Up
<1>5. SyncedData'
  BY DEF Inv, Delete, SyncedData
<1>. QED  BY <1>1, <1>2, <1>3, <1>4, <1>5 DEF Inv

\* Entering commit() changes only where the handle is.
LEMMA CommitStep ==
    ASSUME Inv, Commit
    PROVE  Inv'
<1>1. TypeOK'
  BY DEF Inv, TypeOK, Commit
<1>2. FileInv'
  BY FileSame DEF Inv, Commit, file
<1>3. MetaCurrent' /\ TreeStored' /\ SyncedData'
  BY DEF Inv, Commit, MetaCurrent, TreeStored, AllStored, SyncedData, Up
<1>. QED  BY <1>1, <1>2, <1>3 DEF Inv

\* ValueRef.store appends past every covered length, so no published tree
\* is disturbed, and the address it returns holds the staged value.
LEMMA StoreValueStep ==
    ASSUME Inv, NEW k \in Keys, StoreValue(k)
    PROVE  Inv'
<1>1. ValueRec(tree[k]) \in Record /\ ValueRec(tree[k]).val = tree[k]
  BY DEF Inv, TypeOK, StoreValue, ValueRec, Record, NoPtr
<1>2. /\ recs' \in Seq(Record)
      /\ Len(recs') = Len(recs) + 1
      /\ recs'[Len(recs) + 1] = ValueRec(tree[k])
      /\ \A i \in 1..Len(recs) : recs'[i] = recs[i]
  BY <1>1 DEF Inv, TypeOK, StoreValue
<1>3. TypeOK'
  BY <1>2 DEF Inv, TypeOK, StoreValue
<1>4. FileInv'
  BY <1>1, FileAppend DEF Inv, StoreValue
<1>5. MetaCurrent' /\ SyncedData'
  BY DEF Inv, StoreValue, MetaCurrent, SyncedData
<1>6. TreeStored'
  <2>1. root = 0
    BY DEF Inv, StoreValue, TreeStored, AllStored, Up
  <2>2. \A j \in Keys : addr'[j] # 0 =>
           addr'[j] <= Len(recs') /\ tree'[j] # NoValue /\ recs'[addr'[j]].val = tree'[j]
    <3>. SUFFICES ASSUME NEW j \in Keys, addr'[j] # 0
                  PROVE  addr'[j] <= Len(recs') /\ tree'[j] # NoValue
                         /\ recs'[addr'[j]].val = tree'[j]
      OBVIOUS
    <3>1. CASE j = k
      BY <1>1, <1>2, <3>1 DEF Inv, TypeOK, StoreValue
    <3>2. CASE j # k
      <4>1. addr'[j] = addr[j] /\ addr[j] \in Nat /\ tree' = tree
        BY <3>2 DEF Inv, TypeOK, StoreValue
      <4>2. addr[j] <= Len(recs) /\ tree[j] # NoValue /\ recs[addr[j]].val = tree[j]
        BY <4>1 DEF Inv, StoreValue, TreeStored, Up
      <4>. QED  BY <1>2, <4>1, <4>2 DEF Inv, TypeOK
    <3>. QED  BY <3>1, <3>2
  <2>. QED  BY <2>1, <2>2 DEF StoreValue, TreeStored
<1>. QED  BY <1>3, <1>4, <1>5, <1>6 DEF Inv

\* BPlusNodeRef.store appends the root once its values are stored; what it
\* points at reads back as the staged tree.
LEMMA StoreRootStep ==
    ASSUME Inv, StoreRoot
    PROVE  Inv'
<1>1. CASE root = 0 /\ tree # EmptyTree
  <2>1. NodeRec(addr) \in Record /\ NodeRec(addr).kind = "node" /\ NodeRec(addr).ptr = addr
    BY DEF Inv, TypeOK, NodeRec, Record
  <2>2. recs' = Append(recs, NodeRec(addr)) /\ root' = Len(recs) + 1
    BY <1>1 DEF StoreRoot
  <2>3. /\ recs' \in Seq(Record)
        /\ Len(recs') = Len(recs) + 1
        /\ recs'[Len(recs) + 1] = NodeRec(addr)
        /\ \A i \in 1..Len(recs) : recs'[i] = recs[i]
    BY <2>1, <2>2 DEF Inv, TypeOK
  <2>4. TypeOK'
    BY <2>2, <2>3 DEF Inv, TypeOK, StoreRoot
  <2>5. FileInv'
    BY <2>1, <2>2, FileAppend DEF Inv, StoreRoot
  <2>6. MetaCurrent' /\ SyncedData'
    BY DEF Inv, StoreRoot, MetaCurrent, SyncedData
  <2>7. TreeStored'
    <3>1. \A j \in Keys : addr[j] # 0 =>
             addr[j] <= Len(recs) /\ tree[j] # NoValue /\ recs[addr[j]].val = tree[j]
      BY DEF Inv, StoreRoot, TreeStored, Up
    <3>2. \A j \in Keys : addr[j] # 0 =>
             addr[j] <= Len(recs') /\ tree[j] # NoValue /\ recs'[addr[j]].val = tree[j]
      BY <2>3, <3>1 DEF Inv, TypeOK
    <3>3. root' # 0 /\ root' <= Len(recs') /\ recs'[root'].kind = "node" /\ recs'[root'].ptr = addr
      BY <2>1, <2>2, <2>3 DEF Inv, TypeOK
    <3>4. tree' = tree /\ addr' = addr /\ AllStored'
      BY DEF StoreRoot, AllStored
    <3>. QED  BY <3>2, <3>3, <3>4 DEF TreeStored
  <2>. QED  BY <2>4, <2>5, <2>6, <2>7 DEF Inv
<1>2. CASE ~(root = 0 /\ tree # EmptyTree)
  <2>1. UNCHANGED <<file, memory>>
    BY <1>2 DEF StoreRoot, file, memory
  <2>2. TypeOK'
    BY <2>1 DEF Inv, TypeOK, StoreRoot, file, memory
  <2>3. FileInv'
    BY <2>1, FileSame DEF Inv
  <2>4. MetaCurrent' /\ TreeStored' /\ SyncedData'
    BY <1>2, <2>1 DEF Inv, StoreRoot, MetaCurrent, TreeStored, AllStored, SyncedData, Up, file, memory
  <2>. QED  BY <2>2, <2>3, <2>4 DEF Inv
<1>. QED  BY <1>1, <1>2

\* The first flush of commit_root_address makes every record durable.
LEMMA FlushDataStep ==
    ASSUME Inv, FlushData
    PROVE  Inv'
<1>1. dslots' = slots /\ drecs' = recs
  BY DEF FlushData, Fsync
<1>2. TypeOK'
  BY <1>1 DEF Inv, TypeOK, FlushData
<1>3. FileInv'
  BY <1>1, FileSync DEF Inv, FlushData
<1>4. MetaCurrent' /\ TreeStored' /\ SyncedData'
  BY <1>1 DEF Inv, FlushData, MetaCurrent, TreeStored, AllStored, SyncedData, Up
<1>. QED  BY <1>2, <1>3, <1>4 DEF Inv

\* The meta block about to be published describes the staged tree.
LEMMA NewMetaView ==
    ASSUME Inv, pc \in {"stored", "flushed", "slotted"}
    PROVE  /\ NewMeta \in Slot
           /\ Intact(NewMeta, recs)
           /\ View(NewMeta, recs) = tree
<1>1. NewMeta \in Slot
  BY DEF Inv, TypeOK, NewMeta, Slot
<1>2. NewMeta.root = root /\ NewMeta.len = Len(recs)
  BY DEF NewMeta
<1>3. CASE root = 0
  <2>1. tree = EmptyTree
    BY <1>3 DEF Inv, TreeStored, Up
  <2>. QED  BY <1>1, <1>2, <1>3, <2>1 DEF Inv, TypeOK, Intact, View, EmptyTree
<1>4. CASE root # 0
  <2>1. /\ root <= Len(recs)
        /\ recs[root].kind = "node"
        /\ recs[root].ptr = addr
        /\ AllStored
        /\ \A k \in Keys : addr[k] # 0 =>
              addr[k] <= Len(recs) /\ tree[k] # NoValue /\ recs[addr[k]].val = tree[k]
    BY <1>4 DEF Inv, TreeStored, Up
  <2>2. \A k \in Keys : addr[k] # 0 => recs[addr[k]].val \in Values
    BY <2>1 DEF Inv, TypeOK
  <2>3. Intact(NewMeta, recs)
    BY <1>2, <2>1, <2>2 DEF Intact
  <2>4. \A k \in Keys : View(NewMeta, recs)[k] = tree[k]
    BY <1>2, <1>4, <2>1 DEF View, AllStored
  <2>5. View(NewMeta, recs) = [k \in Keys |-> View(NewMeta, recs)[k]]
    BY DEF View
  <2>. QED  BY <1>1, <2>3, <2>4, <2>5 DEF Inv, TypeOK
<1>. QED  BY <1>3, <1>4

\* _write_slot publishes a meta block whose records are all durable, so the
\* slot is safe whether it survives, is torn, or is not yet on the disk.
LEMMA WriteSlotStep ==
    ASSUME Inv, WriteSlot
    PROVE  Inv' /\ Best(slots') = 1 - meta.slot
<1>. DEFINE w == 1 - meta.slot
<1>1. /\ w \in SlotIds /\ meta.slot \in SlotIds /\ meta.slot = 1 - w /\ w # meta.slot
      /\ meta.txn \in Nat
  BY DEF Inv, TypeOK, SlotIds
<1>2. NewMeta \in Slot /\ Intact(NewMeta, recs)
  BY NewMetaView DEF WriteSlot
<1>3. slots = dslots /\ recs = drecs /\ slots[meta.slot].valid /\ slots[meta.slot].txn = meta.txn
  BY DEF Inv, WriteSlot, SyncedData, MetaCurrent
<1>4. slots'[w] = NewMeta /\ slots'[meta.slot] = slots[meta.slot] /\ UNCHANGED <<recs, dslots, drecs>>
  BY <1>1 DEF Inv, TypeOK, WriteSlot
<1>5. TypeOK'
  BY <1>2, Zenon DEF Inv, TypeOK, WriteSlot
<1>6. NewMeta.valid /\ NewMeta.txn = meta.txn + 1 /\ NewMeta.len = Len(recs)
  BY DEF NewMeta
<1>7. Best(slots') = w
  BY <1>1, <1>3, <1>4, <1>6 DEF Best, SlotIds
<1>8. \A i \in SlotIds : i = w \/ i = meta.slot
  BY <1>1 DEF SlotIds
<1>9. \A i \in SlotIds : /\ slots[i].valid => slots[i].len <= Len(recs)
                         /\ slots[i].len \in Nat /\ slots[i].txn \in Nat
  BY DEF Inv, FileInv, SlotsSafe, Safe, Intact, TypeOK, Slot
<1>10. SlotsSafe'
  <2>1. Safe(NewMeta)
    BY <1>2, <1>3, <1>6 DEF Safe, Inv, TypeOK
  <2>2. \A i \in SlotIds : Safe(slots[i]) /\ Safe(dslots[i])
    BY DEF Inv, FileInv, SlotsSafe
  <2>. SUFFICES ASSUME NEW i \in SlotIds
                PROVE  (Safe(slots[i]) /\ Safe(dslots[i]))'
    BY DEF SlotsSafe
  <2>3. slots'[i] = NewMeta \/ slots'[i] = slots[i]
    BY <1>4, <1>8
  <2>. QED  BY <1>4, <2>1, <2>2, <2>3 DEF Safe
<1>11. Anchored'
  BY <1>1, <1>3, <1>4 DEF Anchored
<1>12. Ordered'
  <2>. SUFFICES ASSUME NEW i \in SlotIds,
                       NEW x \in {slots'[i], dslots'[i]}, NEW y \in {slots'[1 - i], dslots'[1 - i]},
                       x.valid, y.valid, x.txn <= y.txn
                PROVE  x.len <= y.len
    BY DEF Ordered
  <2>1. CASE i = w
    <3>1. y = slots[meta.slot]
      BY <1>1, <1>3, <1>4, <2>1
    <3>2. x = dslots[w] \/ x = NewMeta
      BY <1>4, <2>1
    <3>3. CASE x = NewMeta
      BY <1>1, <1>3, <1>6, <3>1, <3>3
    <3>4. CASE x = dslots[w]
      BY <1>1, <1>3, <3>1, <3>4 DEF Inv, FileInv, Ordered
    <3>. QED  BY <3>2, <3>3, <3>4
  <2>2. CASE i = meta.slot
    <3>1. x = slots[meta.slot]
      BY <1>3, <1>4, <2>2
    <3>2. y = dslots[w] \/ y = NewMeta
      BY <1>4, <2>2
    <3>3. CASE y = NewMeta
      BY <1>1, <1>3, <1>6, <1>9, <3>1, <3>3
    <3>4. CASE y = dslots[w]
      BY <1>1, <1>3, <3>1, <3>4 DEF Inv, FileInv, Ordered
    <3>. QED  BY <3>2, <3>3, <3>4
  <2>. QED  BY <1>8, <2>1, <2>2
<1>13. BestCovers'
  BY <1>3, <1>4, <1>6, <1>7, <1>9 DEF BestCovers
<1>14. MetaCurrent' /\ SyncedData'
  BY <1>1, <1>3, <1>4 DEF WriteSlot, MetaCurrent, SyncedData, NewMeta
<1>15. TreeStored'
  BY DEF Inv, WriteSlot, TreeStored, AllStored, Up
<1>. QED  BY <1>5, <1>7, <1>10, <1>11, <1>12, <1>13, <1>14, <1>15 DEF Inv, FileInv

\* The second flush makes the new meta block durable, and the handle caches
\* the slot it wrote.
LEMMA FlushMetaStep ==
    ASSUME Inv, FlushMeta
    PROVE  Inv'
<1>1. dslots' = slots /\ drecs' = recs
  BY DEF FlushMeta, Fsync
<1>2. TypeOK'
  BY <1>1 DEF Inv, TypeOK, FlushMeta, SlotIds
<1>3. FileInv'
  BY <1>1, FileSync DEF Inv, FlushMeta
<1>4. MetaCurrent'
  BY DEF Inv, FlushMeta, MetaCurrent, SyncedData, NewMeta
<1>5. TreeStored' /\ SyncedData'
  BY DEF Inv, FlushMeta, TreeStored, AllStored, SyncedData, Up
<1>. QED  BY <1>2, <1>3, <1>4, <1>5 DEF Inv

\* A failing call leaves at most one torn record past every covered length.
LEMMA IOErrorStep ==
    ASSUME Inv, IOError
    PROVE  Inv'
<1>1. CASE UNCHANGED recs
  <2>1. FileInv'
    BY <1>1, FileSame DEF Inv, IOError, file
  <2>2. TypeOK'
    BY <1>1 DEF Inv, TypeOK, IOError, memory
  <2>3. MetaCurrent' /\ TreeStored' /\ SyncedData'
    BY <1>1 DEF Inv, IOError, MetaCurrent, TreeStored, AllStored, SyncedData, Up, memory
  <2>. QED  BY <2>1, <2>2, <2>3 DEF Inv
<1>2. CASE pc = "storing" /\ recs' = Append(recs, TornRec)
  <2>1. TornRec \in Record
    BY DEF TornRec, Record, NoPtr
  <2>2. FileInv'
    BY <1>2, <2>1, FileAppend DEF Inv, IOError
  <2>3. /\ recs' \in Seq(Record) /\ Len(recs') = Len(recs) + 1
        /\ \A i \in 1..Len(recs) : recs'[i] = recs[i]
    BY <1>2, <2>1 DEF Inv, TypeOK
  <2>4. TypeOK'
    BY <2>3 DEF Inv, TypeOK, IOError, memory
  <2>5. MetaCurrent' /\ SyncedData'
    BY <1>2 DEF Inv, IOError, MetaCurrent, SyncedData, memory
  <2>6. TreeStored'
    <3>1. UNCHANGED <<tree, addr, root>> /\ pc' = "idle" /\ AllStored' = AllStored
      BY DEF IOError, memory, AllStored
    <3>2. \A k \in Keys : addr[k] # 0 =>
             addr[k] \in 1..Len(recs) /\ tree[k] # NoValue /\ recs[addr[k]].val = tree[k]
      BY <1>2 DEF Inv, TypeOK, TreeStored, Up
    <3>3. root # 0 => /\ root \in 1..Len(recs)
                      /\ recs[root].kind = "node" /\ recs[root].ptr = addr /\ AllStored
      BY <1>2 DEF Inv, TypeOK, TreeStored, Up
    <3>4. Len(recs) \in Nat
      BY DEF Inv, TypeOK
    <3>5. \A k \in Keys : addr[k] # 0 =>
             addr[k] <= Len(recs') /\ tree[k] # NoValue /\ recs'[addr[k]].val = tree[k]
      BY <2>3, <3>2, <3>4
    <3>6. root # 0 => /\ root <= Len(recs')
                      /\ recs'[root].kind = "node" /\ recs'[root].ptr = addr /\ AllStored
      BY <2>3, <3>3, <3>4
    <3>. QED  BY <3>1, <3>5, <3>6 DEF TreeStored
  <2>. QED  BY <2>2, <2>4, <2>5, <2>6 DEF Inv
<1>. QED  BY <1>1, <1>2 DEF IOError

-----------------------------------------------------------------------------
(* Opening, closing and crashing.                                          *)

\* Changing the file beyond what the best slot covers keeps its invariant,
\* and the map it shows.
LEMMA FileTail ==
    ASSUME TypeOK, FileInv, recs' \in Seq(Record),
           slots[Best(slots)].len <= Len(recs'),
           \A i \in 1..slots[Best(slots)].len : recs'[i] = recs[i],
           UNCHANGED <<slots, dslots, drecs>>
    PROVE  FileInv' /\ Visible' = Visible
<1>. DEFINE L == slots[Best(slots)].len
<1>1. Best(slots) \in SlotIds /\ slots[Best(slots)].valid /\ L \in Nat
  BY BestLen DEF TypeOK, Slot, SlotIds
<1>2. ASSUME NEW m \in Slot, m.valid, Safe(m), m.len <= L
      PROVE  /\ Intact(m, recs') /\ View(m, recs') = View(m, recs)
             /\ \A i \in 1..m.len : recs'[i] = drecs[i]
  <2>1. Intact(m, recs) /\ m.len \in Nat /\ m.len <= Len(recs')
    BY <1>1, <1>2 DEF Safe, Slot
  <2>2. \A i \in 1..m.len : recs'[i] = recs[i] /\ recs[i] = drecs[i]
    BY <1>1, <1>2, <2>1 DEF Safe
  <2>. QED  BY <2>1, <2>2, ViewPrefix DEF TypeOK
<1>3. SlotsSafe'
  <2>. SUFFICES ASSUME NEW i \in SlotIds
                PROVE  (Safe(slots[i]) /\ Safe(dslots[i]))'
    BY DEF SlotsSafe
  <2>1. slots[i] \in Slot /\ dslots[i] \in Slot /\ Safe(slots[i]) /\ Safe(dslots[i])
    BY DEF TypeOK, FileInv, SlotsSafe
  <2>2. (slots[i].valid => slots[i].len <= L) /\ (dslots[i].valid => dslots[i].len <= L)
    BY BestLen
  <2>3. Safe(slots[i])'
    BY <1>2, <2>1, <2>2 DEF Safe
  <2>4. Safe(dslots[i])'
    BY <1>2, <2>1, <2>2 DEF Safe
  <2>. QED  BY <2>3, <2>4
<1>4. Visible' = Visible
  <2>1. slots[Best(slots)] \in Slot /\ Safe(slots[Best(slots)])
    BY <1>1 DEF TypeOK, FileInv, SlotsSafe
  <2>. QED  BY <1>1, <1>2, <2>1 DEF Visible
<1>. QED  BY <1>3, <1>4 DEF FileInv, Anchored, Ordered, BestCovers

\* Loading the tree of an intact slot gives a staged tree that is stored.
LEMMA LoadStored ==
    ASSUME TypeOK, NEW m \in Slot, Intact(m, recs), Load(m, recs), UNCHANGED recs, pc' = "idle"
    PROVE  /\ TreeStored'
           /\ tree' \in [Keys -> Values \cup {NoValue}]
           /\ addr' \in [Keys -> Nat] /\ root' \in Nat /\ count' \in Int
<1>1. CASE m.root = 0
  <2>1. addr' = NoPtr /\ root' = 0
    BY <1>1 DEF Load
  <2>2. TreeStored'
    BY <2>1 DEF TreeStored, NoPtr
  <2>. QED  BY <2>1, <2>2, ViewType DEF Load, NoPtr, TypeOK, Slot
<1>2. CASE m.root # 0
  <2>1. m.root \in 1..Len(recs) /\ recs[m.root] \in Record
    <3>1. m.root \in Nat /\ m.len \in Nat /\ recs \in Seq(Record)
      BY DEF Slot, TypeOK
    <3>2. m.root <= m.len /\ m.len <= Len(recs)
      BY DEF Intact
    <3>3. m.root \in 1..Len(recs)
      BY <1>2, <3>1, <3>2
    <3>. QED  BY <3>1, <3>3
  <2>2. addr' = recs[m.root].ptr /\ addr' \in [Keys -> Nat] /\ root' = m.root
    BY <1>2, <2>1 DEF Load, Record
  <2>3. \A k \in Keys : addr'[k] # 0 =>
           addr'[k] <= Len(recs) /\ recs[addr'[k]].val \in Values
    <3>1. \A k \in Keys : recs[m.root].ptr[k] # 0 =>
             recs[m.root].ptr[k] <= m.len /\ recs[recs[m.root].ptr[k]].val \in Values
      BY <1>2 DEF Intact
    <3>2. m.len <= Len(recs) /\ m.len \in Nat /\ Len(recs) \in Nat
      BY DEF Intact, TypeOK, Slot
    <3>3. \A k \in Keys : addr'[k] \in Nat
      BY <2>2
    <3>. QED  BY <2>2, <3>1, <3>2, <3>3
  <2>4. \A k \in Keys : tree'[k] = IF addr'[k] = 0 THEN NoValue ELSE recs[addr'[k]].val
    BY <1>2, <2>2 DEF Load, View
  <2>5. AllStored'
    BY <2>4 DEF AllStored
  <2>6. recs[m.root].kind = "node"
    BY <1>2 DEF Intact
  <2>7. TreeStored'
    BY <2>1, <2>2, <2>3, <2>4, <2>5, <2>6, StorageAssumption DEF TreeStored
  <2>. QED  BY <2>2, <2>7, ViewType DEF Load, TypeOK, Slot
<1>. QED  BY <1>1, <1>2

\* The best slot is intact: the database is never corrupt.
LEMMA BestIntact ==
    ASSUME TypeOK, FileInv
    PROVE  /\ Best(slots) \in SlotIds /\ slots[Best(slots)] \in Slot
           /\ slots[Best(slots)].valid /\ Intact(slots[Best(slots)], recs)
           /\ Readable(slots)
<1>1. Best(slots) \in SlotIds /\ slots[Best(slots)].valid
  BY BestLen DEF SlotIds
<1>. QED  BY <1>1 DEF TypeOK, FileInv, SlotsSafe, Safe, Readable, SlotIds

\* The best slot covers no more than the file has.
LEMMA BestFits ==
    ASSUME TypeOK, FileInv
    PROVE  slots[Best(slots)].len \in Nat /\ slots[Best(slots)].len <= Len(recs)
BY BestIntact DEF Slot, Intact

\* Reading the best slot again keeps the cached metadata that of a valid
\* slot (get_root_address, stats).
LEMMA RefreshStep ==
    ASSUME Inv, Refresh
    PROVE  Inv'
<1>. DEFINE b == Best(slots)
<1>1. b \in SlotIds /\ slots[b] \in Slot /\ slots[b].valid
  BY BestIntact DEF Inv
<1>2. FileInv'
  BY FileSame DEF Inv, Refresh, file
<1>3. meta' = [txn |-> slots[b].txn, slot |-> b]
  BY DEF Refresh, Adopt
<1>4. TypeOK' /\ MetaCurrent'
  BY <1>1, <1>3 DEF Inv, TypeOK, Refresh, Slot, MetaCurrent
<1>5. TreeStored' /\ SyncedData'
  BY DEF Inv, Refresh, TreeStored, AllStored, SyncedData, Up
<1>. QED  BY <1>2, <1>4, <1>5 DEF Inv

\* _ensure_meta on a file without a tail loads the best slot's tree.
LEMMA OpenCleanStep ==
    ASSUME Inv, OpenClean
    PROVE  Inv'
<1>. DEFINE b == Best(slots)
<1>1. b \in SlotIds /\ slots[b] \in Slot /\ slots[b].valid /\ Intact(slots[b], recs)
  BY BestIntact DEF Inv
<1>2. FileInv'
  BY FileSame DEF Inv, OpenClean
<1>3. /\ Load(slots[b], recs) /\ pc' = "idle" /\ UNCHANGED <<slots, recs, dslots, drecs>>
      /\ meta' = [txn |-> slots[b].txn, slot |-> b]
  BY DEF OpenClean, Adopt, file
<1>4. TreeStored' /\ TypeOK'
  BY <1>1, <1>3, LoadStored DEF Inv, TypeOK, Slot
<1>5. MetaCurrent' /\ SyncedData'
  BY <1>1, <1>3 DEF MetaCurrent, SyncedData
<1>. QED  BY <1>2, <1>4, <1>5 DEF Inv

\* _ensure_meta drops only records that no valid slot covers.
LEMMA OpenTruncateStep ==
    ASSUME Inv, OpenTruncate
    PROVE  Inv' /\ Visible' = Visible
<1>. DEFINE b == Best(slots)
<1>1. b \in SlotIds /\ slots[b] \in Slot /\ slots[b].valid /\ Intact(slots[b], recs)
  BY BestIntact DEF Inv
<1>2. slots[b].len \in Nat /\ slots[b].len <= Len(recs)
  BY <1>1 DEF Slot, Intact
<1>3. /\ recs' \in Seq(Record) /\ Len(recs') = slots[b].len
      /\ \A i \in 1..slots[b].len : recs'[i] = recs[i]
  BY <1>2 DEF OpenTruncate, Inv, TypeOK
<1>4. FileInv' /\ Visible' = Visible
  BY <1>2, <1>3, FileTail DEF Inv, OpenTruncate
<1>5. meta' = [txn |-> slots[b].txn, slot |-> b] /\ slots' = slots /\ pc' = "recovering"
  BY DEF OpenTruncate, Adopt
<1>6. TypeOK'
  BY <1>1, <1>3, <1>5 DEF Inv, TypeOK, OpenTruncate, Slot
<1>7. MetaCurrent' /\ TreeStored' /\ SyncedData'
  BY <1>1, <1>5 DEF MetaCurrent, TreeStored, SyncedData, Up
<1>. QED  BY <1>4, <1>6, <1>7 DEF Inv

\* The flush after the truncation makes the shorter file durable, and the
\* best slot's tree is loaded from it.
LEMMA FinishOpenStep ==
    ASSUME Inv, FinishOpen
    PROVE  Inv'
<1>. DEFINE b == Best(slots)
<1>1. b \in SlotIds /\ slots[b] \in Slot /\ slots[b].valid /\ Intact(slots[b], recs)
  BY BestIntact DEF Inv
<1>2. /\ dslots' = slots /\ drecs' = recs /\ UNCHANGED <<slots, recs, meta>>
      /\ Load(slots[b], recs) /\ pc' = "idle"
  BY DEF FinishOpen, Fsync
<1>3. FileInv'
  BY <1>2, FileSync DEF Inv
<1>4. TreeStored' /\ TypeOK'
  BY <1>1, <1>2, LoadStored DEF Inv, TypeOK
<1>5. MetaCurrent' /\ SyncedData'
  BY <1>2 DEF Inv, FinishOpen, MetaCurrent, SyncedData
<1>. QED  BY <1>3, <1>4, <1>5 DEF Inv

\* A handle that is gone has nothing to be consistent with the file.
LEMMA ForgetStep ==
    ASSUME TypeOK, Forget, FileInv', slots' \in [SlotIds -> Slot], dslots' \in [SlotIds -> Slot],
           recs' \in Seq(Record), drecs' \in Seq(Record)
    PROVE  Inv'
<1>1. TypeOK'
  BY DEF Forget, TypeOK, SlotIds, EmptyTree, NoPtr
<1>2. MetaCurrent' /\ TreeStored' /\ SyncedData'
  BY DEF Forget, MetaCurrent, TreeStored, SyncedData, Up
<1>. QED  BY <1>1, <1>2 DEF Inv

\* close() keeps the file as it is.
LEMMA CloseStep ==
    ASSUME Inv, Close
    PROVE  Inv'
<1>1. FileInv'
  BY FileSame DEF Inv, Close
<1>. QED  BY <1>1, ForgetStep DEF Inv, TypeOK, Close, file

\* A killed process leaves its writes in the page cache, at worst with a
\* torn record past every covered length.
LEMMA KillStep ==
    ASSUME Inv, Kill
    PROVE  Inv' /\ Visible' = Visible
<1>. DEFINE b == Best(slots)
<1>1. CASE UNCHANGED recs
  <2>1. FileInv'
    BY <1>1, FileSame DEF Inv, Kill, file
  <2>2. Visible' = Visible
    BY <1>1 DEF Kill, Visible
  <2>. QED  BY <1>1, <2>1, <2>2, ForgetStep DEF Inv, TypeOK, Kill
<1>2. CASE Len(recs) > slots[b].len /\ recs' = [recs EXCEPT ![Len(recs)] = TornRec]
  <2>1. TornRec \in Record
    BY DEF TornRec, Record, NoPtr
  <2>2. b \in SlotIds /\ slots[b].len \in Nat /\ slots[b].len <= Len(recs)
    BY BestIntact DEF Inv, Slot, Intact
  <2>3. /\ recs' \in Seq(Record) /\ Len(recs') = Len(recs)
        /\ \A i \in 1..slots[b].len : recs'[i] = recs[i]
    BY <1>2, <2>1, <2>2 DEF Inv, TypeOK
  <2>4. slots[b].len <= Len(recs')
    BY <2>2, <2>3
  <2>5. FileInv' /\ Visible' = Visible
    BY <2>3, <2>4, FileTail DEF Inv, Kill
  <2>. QED  BY <2>3, <2>5, ForgetStep DEF Inv, TypeOK, Kill
<1>. QED  BY <1>1, <1>2 DEF Kill

\* Of slots whose lengths follow their transactions, the best is longest.
LEMMA BestLongest ==
    ASSUME NEW s \in [SlotIds -> Slot],
           \A i \in SlotIds : s[i].valid /\ s[1 - i].valid /\ s[i].txn <= s[1 - i].txn
                              => s[i].len <= s[1 - i].len,
           NEW j \in SlotIds, s[j].valid
    PROVE  s[j].len <= s[Best(s)].len
<1>1. /\ Best(s) \in SlotIds /\ s[Best(s)].valid /\ s[j].txn <= s[Best(s)].txn
      /\ (j = Best(s) \/ j = 1 - Best(s))
  BY BestIsBest
<1>2. CASE j = Best(s)
  BY <1>2 DEF Slot
<1>3. CASE j = 1 - Best(s)
  <2>1. Best(s) = 1 - j
    BY <1>1, <1>3 DEF SlotIds
  <2>. QED  BY <1>1, <2>1
<1>. QED  BY <1>1, <1>2, <1>3

\* What power loss does to the file: the records any safe slot covers are
\* untouched, and each slot is old, new or torn, unless it was synced.
LEMMA PowerLossFile ==
    ASSUME Inv, PowerLoss
    PROVE  /\ recs' \in Seq(Record) /\ drecs' = recs'
           /\ slots' \in [SlotIds -> Slot] /\ dslots' = slots'
           /\ \A i \in SlotIds : slots'[i] \in SurvivingSlots(i)
           /\ \A m \in Slot : m.valid /\ Safe(m) =>
                 /\ m.len <= Len(recs')
                 /\ Intact(m, recs')
                 /\ View(m, recs') = View(m, recs)
<1>0. PICK n \in Smaller(Len(recs), Len(drecs))..Larger(Len(recs), Len(drecs)) :
           \E lost \in SUBSET (Unsynced \cap 1..n) :
           \E kept \in SUBSET ((Unsynced \cap 1..n) \ lost) :
              /\ \A i \in kept : i <= Len(drecs)
              /\ \A i \in (1..n) \ (lost \cup kept) : i <= Len(recs)
              /\ recs' = [i \in 1..n |-> IF i \in lost THEN TornRec
                                         ELSE IF i \in kept THEN drecs[i]
                                         ELSE recs[i]]
  BY Zenon DEF PowerLoss
<1>a. PICK lost \in SUBSET (Unsynced \cap 1..n) :
           \E kept \in SUBSET ((Unsynced \cap 1..n) \ lost) :
              /\ \A i \in kept : i <= Len(drecs)
              /\ \A i \in (1..n) \ (lost \cup kept) : i <= Len(recs)
              /\ recs' = [i \in 1..n |-> IF i \in lost THEN TornRec
                                         ELSE IF i \in kept THEN drecs[i]
                                         ELSE recs[i]]
  BY <1>0, Zenon
<1>1. PICK kept \in SUBSET ((Unsynced \cap 1..n) \ lost) :
              /\ \A i \in kept : i <= Len(drecs)
              /\ \A i \in (1..n) \ (lost \cup kept) : i <= Len(recs)
              /\ recs' = [i \in 1..n |-> IF i \in lost THEN TornRec
                                         ELSE IF i \in kept THEN drecs[i]
                                         ELSE recs[i]]
  BY <1>a
<1>2. Len(recs) \in Nat /\ Len(drecs) \in Nat /\ recs \in Seq(Record) /\ drecs \in Seq(Record)
  BY DEF Inv, TypeOK
<1>3. /\ n \in Nat
      /\ \A l \in Nat : l <= Len(recs) /\ l <= Len(drecs) => l <= n
  BY <1>1, <1>2 DEF Smaller, Larger
<1>4. recs' \in [1..n -> Record]
  <2>1. TornRec \in Record
    BY DEF TornRec, Record, NoPtr
  <2>2. \A i \in 1..n : recs'[i] \in Record
    <3>. SUFFICES ASSUME NEW i \in 1..n PROVE recs'[i] \in Record
      OBVIOUS
    <3>1. CASE i \in lost
      BY <1>1, <2>1, <3>1
    <3>2. CASE i \notin lost /\ i \in kept
      BY <1>1, <1>2, <1>3, <3>2
    <3>3. CASE i \notin lost /\ i \notin kept
      BY <1>1, <1>2, <1>3, <3>3
    <3>. QED  BY <3>1, <3>2, <3>3
  <2>. QED  BY <1>1, <2>2
<1>5. recs' \in Seq(Record) /\ Len(recs') = n
  BY <1>3, <1>4
<1>6. ASSUME NEW m \in Slot, m.valid, Safe(m)
      PROVE  m.len <= Len(recs') /\ Intact(m, recs') /\ View(m, recs') = View(m, recs)
  <2>1. m.len \in Nat /\ Intact(m, recs) /\ m.len <= Len(recs) /\ m.len <= Len(drecs)
    BY <1>6 DEF Safe, Intact, Slot
  <2>2. m.len <= Len(recs')
    BY <1>3, <1>5, <2>1
  <2>3. \A i \in 1..m.len : i \notin Unsynced /\ i \in 1..n
    BY <1>2, <1>3, <1>5, <1>6, <2>1, <2>2 DEF Safe, Unsynced
  <2>4. \A i \in 1..m.len : recs'[i] = recs[i]
    BY <1>1, <2>3
  <2>. QED  BY <1>2, <1>5, <2>1, <2>2, <2>4, ViewPrefix
<1>7. /\ slots' \in [SlotIds -> Slot]
      /\ \A i \in SlotIds : slots'[i] \in SurvivingSlots(i)
  <2>1. PICK s0 \in SurvivingSlots(0), s1 \in SurvivingSlots(1) :
           slots' = [i \in SlotIds |-> IF i = 0 THEN s0 ELSE s1]
    BY DEF PowerLoss
  <2>2. \A i \in SlotIds : slots'[i] \in SurvivingSlots(i)
    BY <2>1 DEF SlotIds
  <2>3. TornSlot \in Slot
    BY DEF TornSlot, Slot
  <2>4. \A i \in SlotIds : SurvivingSlots(i) \subseteq Slot
    BY <2>3 DEF SurvivingSlots, Inv, TypeOK
  <2>. QED  BY <2>1, <2>2, <2>4
<1>. QED  BY <1>5, <1>6, <1>7, Zenon DEF PowerLoss

\* After power loss some durable slot is still valid, and whatever slot is
\* valid has all of its records.
LEMMA PowerLossStep ==
    ASSUME Inv, PowerLoss
    PROVE  Inv'
<1>1. /\ recs' \in Seq(Record) /\ drecs' = recs' /\ slots' \in [SlotIds -> Slot] /\ dslots' = slots'
      /\ \A m \in Slot : m.valid /\ Safe(m) => m.len <= Len(recs') /\ Intact(m, recs')
  BY PowerLossFile
<1>2. \A i \in SlotIds : /\ slots'[i].valid => slots'[i] \in {slots[i], dslots[i]}
                         /\ slots[i] = dslots[i] => slots'[i] = slots[i]
  BY PowerLossFile DEF SurvivingSlots, TornSlot
<1>3. SlotsSafe'
  <2>. SUFFICES ASSUME NEW i \in SlotIds
                PROVE  (Safe(slots[i]) /\ Safe(dslots[i]))'
    BY DEF SlotsSafe
  <2>1. slots'[i].valid => slots'[i].len <= Len(recs') /\ Intact(slots'[i], recs')
    BY <1>1, <1>2 DEF Inv, TypeOK, FileInv, SlotsSafe
  <2>. QED  BY <1>1, <2>1 DEF Safe
<1>4. Anchored'
  BY <1>1, <1>2 DEF Inv, FileInv, Anchored
<1>5. \A i \in SlotIds : slots'[i].valid /\ slots'[1 - i].valid /\ slots'[i].txn <= slots'[1 - i].txn
                          => slots'[i].len <= slots'[1 - i].len
  <2>1. \A i \in SlotIds : 1 - i \in SlotIds
    BY DEF SlotIds
  <2>. QED  BY <1>2, <2>1 DEF Inv, FileInv, Ordered
<1>6. Ordered' /\ BestCovers'
  BY <1>1, <1>5, BestLongest DEF Ordered, BestCovers
<1>7. FileInv' /\ Forget
  BY <1>3, <1>4, <1>6 DEF FileInv, PowerLoss
<1>. QED  BY <1>1, <1>7, ForgetStep DEF Inv

\* A rotted slot leaves the other one, which is intact.
LEMMA RotStep ==
    ASSUME Inv, NEW j \in SlotIds, Rot(j)
    PROVE  Inv'
<1>1. TornSlot \in Slot /\ ~TornSlot.valid
  BY DEF TornSlot, Slot
<1>2. /\ slots' \in [SlotIds -> Slot] /\ dslots' = slots' /\ UNCHANGED <<recs, drecs, pc, memory>>
      /\ \A i \in SlotIds : IF i = j THEN ~slots'[i].valid ELSE slots'[i] = slots[i]
  BY <1>1 DEF Rot, Inv, TypeOK
<1>3. SlotsSafe'
  <2>. SUFFICES ASSUME NEW i \in SlotIds
                PROVE  (Safe(slots[i]) /\ Safe(dslots[i]))'
    BY DEF SlotsSafe
  <2>. QED  BY <1>2 DEF Inv, FileInv, SlotsSafe, Safe
<1>4. Anchored'
  <2>1. 1 - j \in SlotIds /\ 1 - j # j /\ slots[1 - j].valid
    BY DEF SlotIds, Rot
  <2>. QED  BY <1>2, <2>1 DEF Anchored
<1>5. \A i \in SlotIds : slots'[i].valid /\ slots'[1 - i].valid /\ slots'[i].txn <= slots'[1 - i].txn
                          => slots'[i].len <= slots'[1 - i].len
  BY <1>2 DEF SlotIds
<1>6. Ordered' /\ BestCovers'
  BY <1>2, <1>5, BestLongest DEF Ordered, BestCovers
<1>7. TypeOK'
  BY <1>2 DEF Inv, TypeOK, memory
<1>8. MetaCurrent' /\ TreeStored' /\ SyncedData'
  BY <1>2 DEF Rot, MetaCurrent, TreeStored, SyncedData, Up
<1>. QED  BY <1>3, <1>4, <1>6, <1>7, <1>8 DEF Inv, FileInv

-----------------------------------------------------------------------------
(* Safety under every fault.                                               *)

\* The initial file satisfies the invariant.
LEMMA InitInv == Init => Inv
<1>. SUFFICES ASSUME Init PROVE Inv
  OBVIOUS
<1>1. InitialSlot \in Slot /\ InitialSlot.valid /\ InitialSlot.len = 0 /\ InitialSlot.root = 0
  BY DEF InitialSlot, Slot
<1>2. \A i \in SlotIds : slots[i] = InitialSlot /\ dslots[i] = InitialSlot
  BY DEF Init
<1>3. TypeOK
  BY <1>1 DEF Init, TypeOK, SlotIds, EmptyTree, NoPtr
<1>4. SlotsSafe
  <2>1. recs = <<>> /\ drecs = <<>>
    BY DEF Init
  <2>2. Intact(InitialSlot, recs)
    BY <1>1, <2>1 DEF Intact
  <2>3. Safe(InitialSlot)
    BY <1>1, <2>1, <2>2 DEF Safe
  <2>. QED  BY <1>2, <2>3 DEF SlotsSafe
<1>5. Best(slots) \in SlotIds /\ \A i \in SlotIds : 1 - i \in SlotIds
  BY DEF Best, SlotIds
<1>6. Anchored /\ Ordered /\ BestCovers
  BY <1>1, <1>2, <1>5 DEF Anchored, Ordered, BestCovers
<1>7. MetaCurrent /\ TreeStored /\ SyncedData
  BY <1>1, <1>2 DEF Init, MetaCurrent, TreeStored, SyncedData, NoPtr, SlotIds, InitialSlot
<1>. QED  BY <1>3, <1>4, <1>6, <1>7 DEF Inv, FileInv

\* The invariant depends on nothing outside the variables.
LEMMA StutterInv ==
    ASSUME Inv, UNCHANGED vars
    PROVE  Inv'
<1>1. FileInv' /\ TypeOK'
  BY FileSame DEF Inv, TypeOK, vars, file
<1>2. MetaCurrent' /\ TreeStored' /\ SyncedData'
  BY DEF Inv, MetaCurrent, TreeStored, AllStored, SyncedData, NewMeta, vars
<1>. QED  BY <1>1, <1>2 DEF Inv

\* Inv is an invariant of every behaviour, whatever faults are injected.
THEOREM Invariance == Spec => []Inv
<1>1. Inv /\ [Next]_vars => Inv'
  <2>. SUFFICES ASSUME Inv, [Next]_vars PROVE Inv'
    OBVIOUS
  <2>1. ASSUME NEW k \in Keys, NEW v \in Values, Set(k, v) PROVE Inv'
    BY <2>1, SetStep
  <2>2. ASSUME NEW k \in Keys, Delete(k) PROVE Inv'
    BY <2>2, DeleteStep
  <2>3. CASE Commit
    BY <2>3, CommitStep
  <2>4. ASSUME NEW k \in Keys, StoreValue(k) PROVE Inv'
    BY <2>4, StoreValueStep
  <2>5. CASE StoreRoot
    BY <2>5, StoreRootStep
  <2>6. CASE FlushData
    BY <2>6, FlushDataStep
  <2>7. CASE WriteSlot
    BY <2>7, WriteSlotStep
  <2>8. CASE FlushMeta
    BY <2>8, FlushMetaStep
  <2>9. CASE IOError
    BY <2>9, IOErrorStep
  <2>10. CASE OpenClean
    BY <2>10, OpenCleanStep
  <2>11. CASE OpenTruncate
    BY <2>11, OpenTruncateStep
  <2>12. CASE FinishOpen
    BY <2>12, FinishOpenStep
  <2>13. CASE Close
    BY <2>13, CloseStep
  <2>14. CASE Kill
    BY <2>14, KillStep
  <2>15. CASE PowerLoss
    BY <2>15, PowerLossStep
  <2>16. ASSUME NEW i \in SlotIds, Rot(i) PROVE Inv'
    BY <2>16, RotStep
  <2>17. CASE Refresh
    BY <2>17, RefreshStep
  <2>18. CASE UNCHANGED vars
    BY <2>18, StutterInv
  <2>. QED
    BY <2>1, <2>2, <2>3, <2>4, <2>5, <2>6, <2>7, <2>8, <2>9, <2>10, <2>11, <2>12,
       <2>13, <2>14, <2>15, <2>16, <2>17, <2>18 DEF Next
<1>. QED  BY <1>1, InitInv, PTL DEF Spec

\* The file, its durable image and the handle keep their types.
THEOREM TypeCorrect == Spec => []TypeOK
<1>1. Inv => TypeOK
  BY DEF Inv
<1>. QED  BY <1>1, Invariance, PTL

\* A crash never corrupts the database: after any mix of kills, power
\* losses, rotted slots and failed calls, _read_best_meta finds a valid slot
\* and read() finds every record under its root.
THEOREM CrashNeverCorrupts == Spec => []NeverCorrupt
<1>1. Inv => NeverCorrupt
  BY BestIntact DEF Inv, NeverCorrupt
<1>. QED  BY <1>1, Invariance, PTL

-----------------------------------------------------------------------------
(* Refinement: no I/O call fails and no slot rots.                         *)

CachedInv == Inv /\ CachedIsBest

\* One step keeps the cached slot the best one, as long as no call fails.
LEMMA CachedStep ==
    ASSUME "io" \notin Faults, CachedInv, [Next]_vars
    PROVE  CachedIsBest'
<1>. USE DEF CachedInv
<1>1. CASE \/ \E k \in Keys, v \in Values : Set(k, v)
           \/ \E k \in Keys : Delete(k) \/ StoreValue(k)
           \/ Commit \/ StoreRoot \/ Close \/ Kill \/ UNCHANGED vars
  <2>1. UNCHANGED <<slots, dslots>>
    BY <1>1 DEF Set, Delete, StoreValue, Commit, StoreRoot, Close, Kill, vars, file
  <2>2. \/ pc' = "down"
        \/ pc' = pc /\ meta' = meta
        \/ pc \in {"idle", "storing"} /\ pc' \in {"storing", "stored"} /\ meta' = meta
    BY <1>1 DEF Set, Delete, StoreValue, Commit, StoreRoot, Close, Kill, Forget, vars
  <2>. QED  BY <2>1, <2>2 DEF CachedIsBest
<1>2. CASE FlushData
  BY <1>2 DEF FlushData, Fsync, CachedIsBest
<1>3. CASE WriteSlot
  <2>1. slots = dslots /\ Best(slots) = meta.slot /\ meta.slot \in SlotIds
    BY <1>3 DEF WriteSlot, Inv, SyncedData, CachedIsBest, TypeOK
  <2>2. \A b \in SlotIds : slots'[b] # dslots[b] => meta.slot = 1 - b
    BY <1>3, <2>1 DEF WriteSlot, SlotIds, Inv, TypeOK
  <2>. QED  BY <1>3, <2>1, <2>2 DEF WriteSlot, CachedIsBest
<1>4. CASE FlushMeta
  <2>1. /\ slots[meta.slot].valid /\ slots[meta.slot].txn = meta.txn /\ meta.txn \in Nat
        /\ slots[1 - meta.slot].valid /\ slots[1 - meta.slot].txn = meta.txn + 1
        /\ meta.slot \in SlotIds
    <3>1. /\ meta \in [txn : Nat, slot : SlotIds] /\ slots[1 - meta.slot] = NewMeta
          /\ slots[meta.slot].valid /\ slots[meta.slot].txn = meta.txn
      BY <1>4, Zenon DEF FlushMeta, Inv, SyncedData, MetaCurrent, TypeOK
    <3>. QED  BY <3>1 DEF NewMeta
  <2>2. Best(slots) = 1 - meta.slot
    BY <2>1, BestIsNewer, Zenon
  <2>. QED  BY <1>4, <2>2 DEF FlushMeta, Fsync, CachedIsBest
<1>5. CASE Refresh \/ OpenClean \/ OpenTruncate
  <2>1. /\ slots' = slots /\ dslots' = dslots /\ meta' = [txn |-> slots[Best(slots)].txn, slot |-> Best(slots)]
        /\ pc' \in {"idle", "recovering"}
    BY <1>5 DEF Refresh, OpenClean, OpenTruncate, Adopt, file
  <2>2. meta'.slot = Best(slots)
    BY <2>1
  <2>. QED  BY <2>1, <2>2, Zenon DEF CachedIsBest
<1>6. CASE FinishOpen
  BY <1>6 DEF FinishOpen, Fsync, CachedIsBest
<1>7. CASE PowerLoss
  BY <1>7 DEF PowerLoss, Forget, CachedIsBest
<1>8. CASE \E i \in SlotIds : Rot(i)
  BY <1>8 DEF Rot, CachedIsBest
<1>9. ~IOError
  BY DEF IOError
<1>. QED  BY <1>1, <1>2, <1>3, <1>4, <1>5, <1>6, <1>7, <1>8, <1>9 DEF Next

\* Without failing I/O calls the slot a handle has cached is the newest one.
LEMMA CachedInvariance ==
    ASSUME "io" \notin Faults
    PROVE  Spec => []CachedInv
<1>1. Init => CachedIsBest
  BY DEF Init, CachedIsBest, Best, InitialSlot, SlotIds
<1>2. CachedInv /\ [Next]_vars => CachedIsBest'
  BY CachedStep
<1>3. Spec => []Inv
  BY Invariance
<1>. QED  BY <1>1, <1>2, <1>3, PTL DEF Spec, CachedInv

\* A slot that is safe reads the same from the synced records.
LEMMA SyncedView ==
    ASSUME TypeOK, NEW m \in Slot, m.valid, Safe(m)
    PROVE  View(m, drecs) = View(m, recs)
<1>1. Intact(m, recs) /\ m.len <= Len(drecs) /\ \A i \in 1..m.len : drecs[i] = recs[i]
  BY DEF Safe
<1>. QED  BY <1>1, ViewPrefix DEF TypeOK

\* After power loss the file shows the map it showed, or the one it had
\* when it was last synced.
LEMMA PowerLossMap ==
    ASSUME CachedInv, PowerLoss
    PROVE  Visible' \in {Visible, Durable} /\ Durable' = Visible'
<1>1. /\ slots' \in [SlotIds -> Slot] /\ dslots' = slots' /\ drecs' = recs'
      /\ \A i \in SlotIds : slots'[i] \in {slots[i], dslots[i], TornSlot}
      /\ \A i \in SlotIds : slots[i] = dslots[i] => slots'[i] = slots[i]
      /\ \A m \in Slot : m.valid /\ Safe(m) => View(m, recs') = View(m, recs)
  BY PowerLossFile DEF CachedInv, SurvivingSlots
<1>2. slots \in [SlotIds -> Slot] /\ dslots \in [SlotIds -> Slot] /\ SlotsSafe /\ Anchored
  BY DEF CachedInv, Inv, TypeOK, FileInv
<1>3. /\ Best(slots) \in SlotIds /\ slots[Best(slots)].valid
      /\ Best(dslots) \in SlotIds /\ dslots[Best(dslots)].valid
  BY <1>2, BestIsBest DEF Anchored
<1>4. Durable = View(dslots[Best(dslots)], recs)
  BY <1>2, <1>3, SyncedView DEF Durable, SlotsSafe, CachedInv, Inv
<1>5. Visible' \in {Visible, Durable}
  <2>1. CASE slots' = slots
    BY <1>1, <1>2, <1>3, <2>1 DEF Visible, SlotsSafe
  <2>2. CASE \E b \in SlotIds : slots[b] # dslots[b] /\ slots'[b] # slots[b]
    <3>1. PICK b \in SlotIds : slots[b] # dslots[b] /\ slots'[b] # slots[b]
      BY <2>2
    <3>2. Best(dslots) = 1 - b /\ 1 - b \in SlotIds
      BY <3>1 DEF CachedInv, CachedIsBest, SlotIds
    <3>3. slots[1 - b] = dslots[1 - b]
      <4>1. slots[1 - b] # dslots[1 - b] => Best(dslots) = 1 - (1 - b)
        BY <3>2, Zenon DEF CachedInv, CachedIsBest
      <4>2. 1 - (1 - b) # 1 - b
        BY SlotFlips, Zenon
      <4>. QED  BY <3>2, <4>1, <4>2, Zenon
    <3>4. slots'[1 - b] = dslots[1 - b] /\ (slots'[b] = dslots[b] \/ ~slots'[b].valid)
      <4>1. slots'[1 - b] = slots[1 - b] /\ slots'[b] \in {dslots[b], TornSlot}
        BY <1>1, <3>1, <3>2, <3>3, Zenon
      <4>. QED  BY <3>3, <4>1 DEF TornSlot
    <3>5. Best(slots') = 1 - b
      BY <1>1, <1>2, <1>3, <3>2, <3>4 DEF Best, SlotIds, Slot
    <3>6. Visible' = View(dslots[1 - b], recs')
      BY <3>4, <3>5 DEF Visible
    <3>. QED  BY <1>1, <1>2, <1>3, <1>4, <3>2, <3>6 DEF SlotsSafe
  <2>3. slots' = slots \/ \E b \in SlotIds : slots[b] # dslots[b] /\ slots'[b] # slots[b]
    BY <1>1, <1>2
  <2>. QED  BY <2>1, <2>2, <2>3
<1>. QED  BY <1>1, <1>5 DEF Visible, Durable

\* Every step of the engine is a step of the atomic map or changes none of
\* its three views.
LEMMA RefineStep ==
    ASSUME "io" \notin Faults, "rot" \notin Faults, CachedInv, [Next]_vars
    PROVE  [Atomic!Next]_(Atomic!storeVars)
<1>. USE DEF CachedInv, Inv
<1>. DEFINE Same == Visible' = Visible /\ Durable' = Durable
<1>1. ASSUME NEW k \in Keys, NEW v \in Values, Set(k, v)
      PROVE  Atomic!Set(k, v)
  BY <1>1 DEF Set, Atomic!Set, Visible, Durable, Working
<1>2. ASSUME NEW k \in Keys, Delete(k)
      PROVE  Atomic!Delete(k)
  BY <1>2 DEF Delete, Atomic!Delete, Visible, Durable, Working
<1>3. CASE Commit
  BY <1>3 DEF Commit, Atomic!storeVars, Visible, Durable, Working
<1>4. ASSUME NEW r \in Record, recs' = Append(recs, r), UNCHANGED <<slots, dslots, drecs>>
      PROVE  Same
  <2>1. /\ recs' \in Seq(Record) /\ Len(recs') = Len(recs) + 1
        /\ \A i \in 1..Len(recs) : recs'[i] = recs[i]
    <3>1. recs \in Seq(Record)
      BY Zenon DEF TypeOK
    <3>. QED  BY <1>4, <3>1
  <2>2. slots[Best(slots)].len \in Nat /\ slots[Best(slots)].len <= Len(recs)
    BY BestIntact DEF Intact, Slot
  <2>3. Visible' = Visible
    BY <1>4, <2>1, <2>2, FileTail DEF TypeOK
  <2>. QED  BY <1>4, <2>3 DEF Durable
<1>5. ASSUME NEW k \in Keys, StoreValue(k)
      PROVE  UNCHANGED Atomic!storeVars
  <2>1. ValueRec(tree[k]) \in Record
    BY DEF TypeOK, ValueRec, Record, NoPtr
  <2>2. Same
    BY <1>4, <1>5, <2>1 DEF StoreValue
  <2>. QED  BY <1>5, <2>2 DEF StoreValue, Atomic!storeVars, Working
<1>6. CASE StoreRoot
  <2>1. NodeRec(addr) \in Record
    BY DEF TypeOK, NodeRec, Record
  <2>2. CASE recs' = Append(recs, NodeRec(addr))
    <3>1. Same
      BY <1>4, <1>6, <2>1, <2>2 DEF StoreRoot
    <3>. QED  BY <1>6, <3>1 DEF StoreRoot, Atomic!storeVars, Working
  <2>3. CASE UNCHANGED recs
    BY <1>6, <2>3 DEF StoreRoot, Atomic!storeVars, Visible, Durable, Working
  <2>. QED  BY <1>6, <2>2, <2>3 DEF StoreRoot
<1>7. CASE FlushData \/ FlushMeta
  BY <1>7 DEF FlushData, FlushMeta, Fsync, Atomic!Next, Atomic!Sync, Visible, Durable, Working
<1>8. CASE WriteSlot
  <2>1. Best(slots') = 1 - meta.slot /\ slots'[1 - meta.slot] = NewMeta
    BY <1>8, WriteSlotStep DEF WriteSlot, TypeOK, SlotIds
  <2>2. View(NewMeta, recs) = tree
    BY <1>8, NewMetaView DEF WriteSlot
  <2>3. Visible' = tree
    BY <1>8, <2>1, <2>2 DEF WriteSlot, Visible
  <2>. QED  BY <1>8, <2>3 DEF WriteSlot, Atomic!Next, Atomic!Publish, Durable, Working
<1>9. CASE OpenClean
  BY <1>9 DEF OpenClean, Load, file, Atomic!storeVars, Visible, Durable, Working
<1>10. CASE OpenTruncate
  <2>1. Visible' = Visible
    BY <1>10, OpenTruncateStep
  <2>. QED  BY <1>10, <2>1 DEF OpenTruncate, Atomic!storeVars, Durable, Working
<1>11. CASE FinishOpen
  BY <1>11 DEF FinishOpen, Load, Fsync, Atomic!Next, Atomic!Sync, Visible, Durable, Working
<1>12. CASE Close
  BY <1>12 DEF Close, Forget, file, Atomic!Next, Atomic!Discard, Visible, Durable, Working
<1>13. CASE Kill
  <2>1. Visible' = Visible
    BY <1>13, KillStep
  <2>. QED  BY <1>13, <2>1 DEF Kill, Forget, Atomic!Next, Atomic!Discard, Durable, Working
<1>14. CASE PowerLoss
  <2>1. Visible' \in {Visible, Durable} /\ Durable' = Visible'
    BY <1>14, PowerLossMap
  <2>2. Working' = Visible'
    BY <1>14 DEF PowerLoss, Forget, Working
  <2>. QED  BY <2>1, <2>2 DEF Atomic!Next, Atomic!PowerLoss
<1>15. CASE UNCHANGED vars
  BY <1>15 DEF vars, Atomic!storeVars, Visible, Durable, Working
<1>16. ~IOError /\ \A i \in SlotIds : ~Rot(i)
  BY DEF IOError, Rot
<1>17. CASE \E k \in Keys, v \in Values : Set(k, v)
  BY <1>1, <1>17 DEF Atomic!Next
<1>18. CASE \E k \in Keys : Delete(k)
  BY <1>2, <1>18 DEF Atomic!Next
<1>19. CASE \E k \in Keys : StoreValue(k)
  BY <1>5, <1>19
<1>20. CASE Refresh
  BY <1>20 DEF Refresh, Atomic!storeVars, Visible, Durable, Working
<1>. QED
  BY <1>3, <1>6, <1>7, <1>8, <1>9, <1>10, <1>11, <1>12, <1>13, <1>14, <1>15, <1>16,
     <1>17, <1>18, <1>19, <1>20 DEF Next

\* The engine implements the atomic map: through every interleaving of
\* staging, commit steps, kills, power losses and recoveries a client sees
\* whole commits only, an acknowledged one is never lost, and what was
\* never published never appears.
THEOREM Refinement ==
    ASSUME "io" \notin Faults, "rot" \notin Faults
    PROVE  Spec => AtomicSpec
<1>1. Init => Atomic!Init
  BY SMTT(60) DEF Init, Atomic!Init, Atomic!Empty, Visible, Durable, Working, View, EmptyTree,
         Best, InitialSlot, SlotIds
<1>2. CachedInv /\ [Next]_vars => [Atomic!Next]_(Atomic!storeVars)
  BY RefineStep
<1>3. Spec => []CachedInv
  BY CachedInvariance
<1>. QED  BY <1>1, <1>2, <1>3, PTL DEF Spec, AtomicSpec, Atomic!Spec

\* commit() returns only once its map is durable (the second flush in
\* commit_root_address comes before its return), even after failed calls.
THEOREM AckedIsDurable == Spec => AckMeansDurable
<1>1. Inv /\ [Next]_vars => [FlushMeta => Durable' = tree]_vars
  <2>. SUFFICES ASSUME Inv, FlushMeta PROVE Durable' = tree
    OBVIOUS
  <2>1. /\ slots[meta.slot].valid /\ slots[meta.slot].txn = meta.txn /\ meta.txn \in Nat
        /\ slots[1 - meta.slot] = NewMeta /\ meta.slot \in SlotIds
    BY DEF FlushMeta, Inv, SyncedData, MetaCurrent, TypeOK
  <2>2. Best(slots) = 1 - meta.slot
    BY <2>1 DEF Best, SlotIds, NewMeta
  <2>3. View(NewMeta, recs) = tree
    BY NewMetaView DEF FlushMeta
  <2>. QED  BY <2>1, <2>2, <2>3 DEF FlushMeta, Fsync, Durable
<1>. QED  BY <1>1, Invariance, PTL DEF AckMeansDurable, Spec

\* A commit never writes over the newest durable meta block: the slot in
\* flight is 1 - self._meta.slot, and the cached slot is the newest one.
THEOREM NewestSpared ==
    ASSUME "io" \notin Faults
    PROVE  Spec => NewestSlotSpared
<1>1. CachedInv /\ [Next]_vars =>
         [WriteSlot => slots'[Best(dslots)] = dslots[Best(dslots)]]_vars
  <2>. SUFFICES ASSUME CachedInv, WriteSlot
                PROVE  slots'[Best(dslots)] = dslots[Best(dslots)]
    OBVIOUS
  <2>1. slots = dslots /\ Best(slots) = meta.slot /\ meta.slot \in SlotIds
    BY DEF WriteSlot, CachedInv, CachedIsBest, Inv, SyncedData, TypeOK
  <2>. QED  BY <2>1 DEF WriteSlot, CachedInv, Inv, TypeOK, SlotIds
<1>. QED  BY <1>1, CachedInvariance, PTL DEF NewestSlotSpared, Spec

-----------------------------------------------------------------------------
(* The distance between the two slots.                                     *)

\* Any two valid slots that a power loss may leave together are of
\* consecutive transactions, or both of a new file.
Consecutive ==
    \A x \in {slots[0], dslots[0]}, y \in {slots[1], dslots[1]} :
        x.valid /\ y.valid =>
            \/ x.txn = y.txn + 1
            \/ y.txn = x.txn + 1
            \/ x = InitialSlot /\ y = InitialSlot

\* Every step keeps it: a commit writes the slot next to the one whose
\* transaction it follows, and only when nothing else is unsynced.
LEMMA ConsecutiveStep ==
    ASSUME Inv, Consecutive, [Next]_vars
    PROVE  Consecutive'
<1>1. CASE WriteSlot
  <2>1. /\ slots = dslots /\ meta.slot \in SlotIds /\ meta.txn \in Nat
        /\ slots \in [SlotIds -> Slot] /\ slots[meta.slot].txn = meta.txn
    BY <1>1 DEF WriteSlot, Inv, SyncedData, MetaCurrent, TypeOK
  <2>2. /\ dslots' = dslots /\ slots'[meta.slot] = dslots[meta.slot]
        /\ slots'[1 - meta.slot] = NewMeta
    BY <1>1, <2>1 DEF WriteSlot, SlotIds
  <2>3. NewMeta.txn = dslots[meta.slot].txn + 1
    BY <2>1 DEF NewMeta
  <2>. QED  BY <2>1, <2>2, <2>3 DEF Consecutive, SlotIds
<1>2. CASE \/ \E k \in Keys, v \in Values : Set(k, v)
           \/ \E k \in Keys : Delete(k) \/ StoreValue(k)
           \/ Commit \/ StoreRoot \/ IOError \/ Refresh \/ OpenClean \/ OpenTruncate
           \/ Close \/ Kill \/ UNCHANGED vars
  <2>1. UNCHANGED <<slots, dslots>>
    BY <1>2, Zenon DEF Set, Delete, StoreValue, Commit, StoreRoot, IOError, Refresh, OpenClean,
                OpenTruncate, Close, Kill, vars, file
  <2>. QED  BY <2>1, Zenon DEF Consecutive
<1>3. CASE FlushData \/ FlushMeta \/ FinishOpen
  <2>1. slots' = slots /\ dslots' = slots
    BY <1>3 DEF FlushData, FlushMeta, FinishOpen, Fsync
  <2>. QED  BY <2>1 DEF Consecutive
<1>4. CASE PowerLoss
  <2>1. dslots' = slots' /\ \A i \in SlotIds : slots'[i] \in {slots[i], dslots[i], TornSlot}
    BY <1>4, PowerLossFile DEF SurvivingSlots, Inv
  <2>2. ~TornSlot.valid
    BY DEF TornSlot
  <2>. QED  BY <2>1, <2>2 DEF Consecutive, SlotIds
<1>5. ASSUME NEW i \in SlotIds, Rot(i) PROVE Consecutive'
  <2>1. /\ slots' = [slots EXCEPT ![i] = TornSlot] /\ dslots' = [dslots EXCEPT ![i] = TornSlot]
        /\ slots \in [SlotIds -> Slot] /\ dslots \in [SlotIds -> Slot]
    BY <1>5 DEF Rot, Inv, TypeOK
  <2>2. ~TornSlot.valid /\ (i = 0 \/ i = 1)
    BY DEF TornSlot, SlotIds
  <2>. QED  BY <2>1, <2>2 DEF Consecutive, SlotIds
<1>. QED  BY <1>1, <1>2, <1>3, <1>4, <1>5 DEF Next

\* When both slots are valid they hold consecutive commits, through failed
\* calls and retries, kills, power losses and rot: a slot that is lost costs
\* the newest commit and no more (commit_root_address alternates).
THEOREM FallbackWithinOne == Spec => []FallbackIsPrevious
<1>1. Init => Consecutive
  BY DEF Init, Consecutive, SlotIds
<1>2. Inv /\ Consecutive /\ [Next]_vars => Consecutive'
  BY ConsecutiveStep
<1>3. Inv /\ Consecutive => FallbackIsPrevious
  <2>. SUFFICES ASSUME Inv, Consecutive, slots[0].valid, slots[1].valid
                PROVE  \/ slots[Best(slots)].txn = slots[1 - Best(slots)].txn + 1
                       \/ slots[Best(slots)] = InitialSlot /\ slots[1 - Best(slots)] = InitialSlot
    BY DEF FallbackIsPrevious
  <2>1. \/ slots[0].txn = slots[1].txn + 1 \/ slots[1].txn = slots[0].txn + 1
        \/ slots[0] = InitialSlot /\ slots[1] = InitialSlot
    BY DEF Consecutive
  <2>2. slots[0].txn \in Nat /\ slots[1].txn \in Nat
    BY DEF Inv, TypeOK, SlotIds, Slot
  <2>3. CASE slots[0].txn >= slots[1].txn
    <3>1. Best(slots) = 0
      BY <2>3 DEF Best
    <3>. QED  BY <2>1, <2>2, <2>3, <3>1
  <2>4. CASE ~(slots[0].txn >= slots[1].txn)
    <3>1. Best(slots) = 1
      BY <2>4 DEF Best
    <3>. QED  BY <2>1, <2>2, <2>4, <3>1
  <2>. QED  BY <2>3, <2>4
<1>. QED  BY <1>1, <1>2, <1>3, Invariance, PTL DEF Spec

-----------------------------------------------------------------------------
(* The count of the keys.                                                  *)

Present(t) == {k \in Keys : t[k] # NoValue}

\* c is the number of keys of the map t, of which there are finitely many
\* however many Keys has.
Counted(t, c) == IsFiniteSet(Present(t)) /\ c = Cardinality(Present(t))

\* The count a meta block carries is that of the map under its root.
SlotCounted(m) == m.valid => Counted(View(m, recs), m.count)

SlotsCounted == \A i \in SlotIds : SlotCounted(slots[i]) /\ SlotCounted(dslots[i])

\* Every published count is right, the fallback's and the synced ones too,
\* and so is the count of the staged tree that the next commit publishes.
CountsRight == SlotsCounted /\ (pc \in Up => Counted(tree, count))

\* Storing a value under key k counts one more key if k was absent.
LEMMA CountSet ==
    ASSUME NEW t \in [Keys -> Values \cup {NoValue}], NEW c,
           NEW k \in Keys, NEW v \in Values, Counted(t, c)
    PROVE  Counted([t EXCEPT ![k] = v], IF t[k] = NoValue THEN c + 1 ELSE c)
<1>1. Present([t EXCEPT ![k] = v]) = Present(t) \cup {k}
  BY StorageAssumption DEF Present
<1>2. k \in Present(t) <=> t[k] # NoValue
  BY DEF Present
<1>3. /\ IsFiniteSet(Present(t) \cup {k})
      /\ Cardinality(Present(t) \cup {k}) = IF k \in Present(t) THEN Cardinality(Present(t))
                                            ELSE Cardinality(Present(t)) + 1
  BY FS_AddElement DEF Counted
<1>. QED  BY <1>1, <1>2, <1>3, Zenon DEF Counted

\* Deleting a key that is present counts one key less.
LEMMA CountDelete ==
    ASSUME NEW t \in [Keys -> Values \cup {NoValue}], NEW c,
           NEW k \in Keys, t[k] # NoValue, Counted(t, c)
    PROVE  Counted([t EXCEPT ![k] = NoValue], c - 1)
<1>1. Present([t EXCEPT ![k] = NoValue]) = Present(t) \ {k}
  BY DEF Present
<1>2. k \in Present(t)
  BY DEF Present
<1>3. /\ IsFiniteSet(Present(t) \ {k})
      /\ Cardinality(Present(t) \ {k}) = Cardinality(Present(t)) - 1
  BY <1>2, FS_RemoveElement DEF Counted
<1>. QED  BY <1>1, <1>3, Zenon DEF Counted

\* The empty map counts no keys.
LEMMA CountEmpty == Counted(EmptyTree, 0)
<1>1. Present(EmptyTree) = {}
  BY DEF Present, EmptyTree
<1>. QED  BY <1>1, FS_EmptySet DEF Counted

\* The counts of the slots stay right when the slots are the old ones, or
\* torn, and the records that each covers read as before.
LEMMA SlotsCountedKept ==
    ASSUME SlotsCounted,
           \A i \in SlotIds : /\ slots'[i] \in {slots[i], dslots[i], TornSlot}
                              /\ dslots'[i] \in {slots[i], dslots[i], TornSlot},
           \A i \in SlotIds : \A m \in {slots[i], dslots[i]} :
               m.valid => View(m, recs') = View(m, recs)
    PROVE  SlotsCounted'
<1>. SUFFICES ASSUME NEW i \in SlotIds, NEW m \in {slots[i], dslots[i], TornSlot}, m.valid
              PROVE  Counted(View(m, recs'), m.count)
  BY DEF SlotsCounted, SlotCounted
<1>1. m \in {slots[i], dslots[i]}
  BY DEF TornSlot
<1>2. View(m, recs') = View(m, recs)
  BY <1>1, Zenon
<1>3. Counted(View(m, recs), m.count)
  BY <1>1 DEF SlotsCounted, SlotCounted
<1>. QED  BY <1>2, <1>3

\* A record that no valid slot covers is not read under any of them.
LEMMA TailUnread ==
    ASSUME TypeOK, FileInv, recs' \in Seq(Record),
           SameUpTo(slots[Best(slots)].len, recs, recs'),
           NEW i \in SlotIds, NEW m \in {slots[i], dslots[i]}, m.valid
    PROVE  View(m, recs') = View(m, recs)
<1>1. m \in Slot /\ Intact(m, recs)
  <2>1. m \in Slot /\ Safe(m)
    BY Zenon DEF TypeOK, FileInv, SlotsSafe
  <2>. QED  BY <2>1, Zenon DEF Safe
<1>2. m.len <= slots[Best(slots)].len /\ slots[Best(slots)] \in Slot
  BY BestLen DEF TypeOK
<1>3. m.len <= Len(recs') /\ \A j \in 1..m.len : recs'[j] = recs[j]
  BY <1>1, <1>2 DEF Slot, SameUpTo
<1>. QED  BY <1>1, <1>3, ViewPrefix DEF TypeOK

\* Every step keeps the counts right.
LEMMA CountStep ==
    ASSUME Inv, CountsRight, [Next]_vars
    PROVE  CountsRight'
<1>0. /\ TypeOK /\ FileInv /\ SlotsCounted /\ tree \in [Keys -> Values \cup {NoValue}]
      /\ slots \in [SlotIds -> Slot] /\ dslots \in [SlotIds -> Slot]
  BY DEF Inv, CountsRight, TypeOK
<1>1. ASSUME UNCHANGED <<slots, dslots, recs>> PROVE SlotsCounted'
  BY <1>0, <1>1 DEF SlotsCounted, SlotCounted
<1>2. ASSUME NEW k \in Keys, NEW v \in Values, Set(k, v) PROVE CountsRight'
  <2>1. /\ pc \in Up /\ tree' = [tree EXCEPT ![k] = v]
        /\ count' = IF tree[k] = NoValue THEN count + 1 ELSE count
        /\ UNCHANGED <<slots, dslots, recs>>
    BY <1>2 DEF Set, Up
  <2>2. Counted(tree', count')
    BY <1>0, <2>1, CountSet, Zenon DEF CountsRight
  <2>. QED  BY <1>1, <2>1, <2>2 DEF CountsRight
<1>3. ASSUME NEW k \in Keys, Delete(k) PROVE CountsRight'
  <2>1. /\ pc \in Up /\ tree[k] # NoValue /\ tree' = [tree EXCEPT ![k] = NoValue]
        /\ count' = count - 1
        /\ UNCHANGED <<slots, dslots, recs>>
    BY <1>3 DEF Delete, Up
  <2>2. Counted(tree', count')
    BY <1>0, <2>1, CountDelete, Zenon DEF CountsRight
  <2>. QED  BY <1>1, <2>1, <2>2 DEF CountsRight
<1>4. CASE Commit \/ Refresh \/ UNCHANGED vars
  <2>1. UNCHANGED <<slots, dslots, recs, tree, count>> /\ (pc' \in Up => pc \in Up)
    BY <1>4 DEF Commit, Refresh, vars, Up
  <2>. QED  BY <1>1, <2>1 DEF CountsRight
<1>5. CASE (\E k \in Keys : StoreValue(k)) \/ StoreRoot \/ IOError
  <2>1. UNCHANGED <<slots, dslots, tree, count>> /\ pc \in Up
    BY <1>5 DEF StoreValue, StoreRoot, IOError, memory, Up
  <2>2. recs' = recs \/ \E r : recs' = Append(recs, r)
    BY <1>5 DEF StoreValue, StoreRoot, IOError
  <2>3. recs' \in Seq(Record)
    BY <1>5, StoreValueStep, StoreRootStep, IOErrorStep DEF Inv, TypeOK
  <2>4. slots[Best(slots)].len \in Nat /\ slots[Best(slots)].len <= Len(recs)
    BY <1>0, BestFits, Zenon
  <2>5. recs \in Seq(Record)
    BY <1>0, Zenon DEF TypeOK
  <2>6. SameUpTo(slots[Best(slots)].len, recs, recs')
    <3>1. CASE recs' = recs
      BY <2>4, <3>1, Zenon DEF SameUpTo
    <3>2. CASE recs' # recs
      <4>1. PICK r : recs' = Append(recs, r)
        BY <2>2, <3>2, Zenon
      <4>. QED  BY <2>4, <2>5, <4>1, AppendKeeps, Zenon
    <3>. QED  BY <3>1, <3>2, Zenon
  <2>7. SlotsCounted'
    BY <1>0, <2>1, <2>3, <2>6, TailUnread, SlotsCountedKept
  <2>. QED  BY <2>1, <2>7, Zenon DEF CountsRight
<1>6. CASE FlushData \/ FlushMeta
  <2>1. UNCHANGED <<slots, recs, tree, count>> /\ pc \in Up /\ dslots' = slots
    BY <1>6 DEF FlushData, FlushMeta, Fsync, Up
  <2>2. SlotsCounted'
    BY <1>0, <2>1, SlotsCountedKept
  <2>. QED  BY <2>1, <2>2, Zenon DEF CountsRight
<1>7. CASE WriteSlot
  <2>1. /\ slots' = [slots EXCEPT ![1 - meta.slot] = NewMeta]
        /\ UNCHANGED <<dslots, recs, tree, count>> /\ pc \in Up
        /\ pc \in {"stored", "flushed", "slotted"}
    BY <1>7 DEF WriteSlot, Up
  <2>2. View(NewMeta, recs) = tree /\ NewMeta.count = count
    <3>1. NewMeta.count = count
      BY DEF NewMeta
    <3>. QED  BY <2>1, <3>1, NewMetaView, Zenon
  <2>3. SlotCounted(NewMeta)
    BY <2>1, <2>2 DEF SlotCounted, CountsRight
  <2>4. \A i \in SlotIds : slots'[i] = slots[i] \/ slots'[i] = NewMeta
    BY <1>0, <2>1
  <2>5. \A i \in SlotIds : SlotCounted(slots[i])' /\ SlotCounted(dslots[i])'
    BY <1>0, <2>1, <2>3, <2>4 DEF SlotsCounted, SlotCounted
  <2>. QED  BY <2>1, <2>5 DEF CountsRight, SlotsCounted
<1>8. CASE OpenClean \/ FinishOpen
  <2>1. /\ UNCHANGED <<slots, recs>> /\ (dslots' = slots \/ dslots' = dslots)
        /\ tree' = View(slots[Best(slots)], recs) /\ count' = slots[Best(slots)].count
    BY <1>8 DEF OpenClean, FinishOpen, Fsync, Load, file
  <2>2. SlotsCounted'
    BY <1>0, <2>1, SlotsCountedKept
  <2>3. Counted(tree', count')
    BY <1>0, <2>1, BestIntact DEF SlotsCounted, SlotCounted
  <2>. QED  BY <2>2, <2>3, Zenon DEF CountsRight
<1>9. CASE OpenTruncate
  <2>1. /\ recs' = SubSeq(recs, 1, slots[Best(slots)].len)
        /\ UNCHANGED <<slots, dslots>> /\ pc' \notin Up
    BY <1>9 DEF OpenTruncate, Up
  <2>2. /\ slots[Best(slots)].len \in Nat /\ slots[Best(slots)].len <= Len(recs)
        /\ recs \in Seq(Record)
    BY <1>0, BestFits, Zenon DEF TypeOK
  <2>3. recs' \in Seq(Record)
    BY <1>9, OpenTruncateStep, Zenon DEF Inv, TypeOK
  <2>4. SameUpTo(slots[Best(slots)].len, recs, recs')
    BY <2>1, <2>2, CutKeeps, Zenon
  <2>5. SlotsCounted'
    BY <1>0, <2>1, <2>3, <2>4, TailUnread, SlotsCountedKept
  <2>. QED  BY <2>1, <2>5, Zenon DEF CountsRight
<1>10. CASE Close \/ Kill
  <2>1. UNCHANGED <<slots, dslots>> /\ pc' \notin Up
    BY <1>10 DEF Close, Kill, Forget, Up, file
  <2>2. /\ slots[Best(slots)].len \in Nat /\ slots[Best(slots)].len <= Len(recs)
        /\ recs \in Seq(Record)
    BY <1>0, BestFits, Zenon DEF TypeOK
  <2>3. \/ recs' = recs
        \/ /\ slots[Best(slots)].len < Len(recs)
           /\ recs' = [recs EXCEPT ![Len(recs)] = TornRec]
    BY <1>10, <2>2 DEF Close, Kill, file
  <2>4. recs' \in Seq(Record)
    BY <1>10, CloseStep, KillStep, Zenon DEF Inv, TypeOK
  <2>5. SameUpTo(slots[Best(slots)].len, recs, recs')
    <3>1. CASE recs' = recs
      BY <2>2, <3>1, Zenon DEF SameUpTo
    <3>2. CASE recs' # recs
      <4>1. slots[Best(slots)].len < Len(recs) /\ recs' = [recs EXCEPT ![Len(recs)] = TornRec]
        BY <2>3, <3>2, Zenon
      <4>. QED  BY <2>2, <4>1, TearKeeps, Zenon
    <3>. QED  BY <3>1, <3>2, Zenon
  <2>6. SlotsCounted'
    BY <1>0, <2>1, <2>4, <2>5, TailUnread, SlotsCountedKept
  <2>. QED  BY <2>1, <2>6, Zenon DEF CountsRight
<1>11. CASE PowerLoss
  <2>1. /\ dslots' = slots' /\ pc' \notin Up
        /\ \A i \in SlotIds : slots'[i] \in {slots[i], dslots[i], TornSlot}
    BY <1>11, PowerLossFile, Zenon DEF SurvivingSlots, PowerLoss, Forget, Up
  <2>2. \A i \in SlotIds : \A m \in {slots[i], dslots[i]} : m \in Slot /\ Safe(m)
    BY <1>0 DEF FileInv, SlotsSafe
  <2>3. \A i \in SlotIds : \A m \in {slots[i], dslots[i]} :
           m.valid => View(m, recs') = View(m, recs)
    BY <1>11, <2>2, PowerLossFile
  <2>4. SlotsCounted'
    BY <1>0, <2>1, <2>3, SlotsCountedKept
  <2>. QED  BY <2>1, <2>4, Zenon DEF CountsRight
<1>12. ASSUME NEW i \in SlotIds, Rot(i) PROVE CountsRight'
  <2>1. /\ slots' = [slots EXCEPT ![i] = TornSlot] /\ dslots' = [dslots EXCEPT ![i] = TornSlot]
        /\ recs' = recs /\ pc' \notin Up
    BY <1>12 DEF Rot, Up
  <2>2. \A j \in SlotIds : slots'[j] \in {slots[j], TornSlot} /\ dslots'[j] \in {dslots[j], TornSlot}
    BY <1>0, <2>1
  <2>3. SlotsCounted'
    BY <1>0, <2>1, <2>2, SlotsCountedKept
  <2>. QED  BY <2>1, <2>3, Zenon DEF CountsRight
<1>. QED  BY <1>2, <1>3, <1>4, <1>5, <1>6, <1>7, <1>8, <1>9, <1>10, <1>11, <1>12 DEF Next

\* The count published with a root is the number of keys under it, whatever
\* was overwritten, deleted, failed, lost or recovered: _insert_rec and
\* _delete_rec keep it step by step, and no fault pairs it with another root.
THEOREM CountIsRight == Spec => []CountMatches
<1>1. Init => CountsRight
  <2>. SUFFICES ASSUME Init PROVE CountsRight
    OBVIOUS
  <2>1. \A i \in SlotIds : slots[i] = InitialSlot /\ dslots[i] = InitialSlot
    BY DEF Init
  <2>2. View(InitialSlot, recs) = EmptyTree /\ InitialSlot.count = 0
    BY DEF View, EmptyTree, InitialSlot
  <2>3. tree = EmptyTree /\ count = 0
    BY Zenon DEF Init
  <2>. QED  BY <2>1, <2>2, <2>3, CountEmpty DEF CountsRight, SlotsCounted, SlotCounted
<1>2. Inv /\ CountsRight /\ [Next]_vars => CountsRight'
  BY CountStep
<1>3. Inv /\ CountsRight => CountMatches
  BY BestIntact, Zenon DEF Inv, CountsRight, SlotsCounted, SlotCounted, Counted, Present,
                           CountMatches, Visible
<1>. QED  BY <1>1, <1>2, <1>3, Invariance, PTL DEF Spec
=============================================================================
