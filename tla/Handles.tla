------------------------------ MODULE Handles ------------------------------
(***************************************************************************)
(* Several processes with a handle each on one database file: how they     *)
(* create and recover it, take its lock and cache its metadata.            *)
(*                                                                         *)
(* A commit appends one record, the map; a root is its position and 0 the  *)
(* empty tree.  Calls that hold the lock from the reading of the metadata  *)
(* to the end are one step.                                                *)
(***************************************************************************)
EXTENDS Integers, Sequences

CONSTANTS
    Processes, Free, Keys, Values, NoValue,
    MaxTxn, MaxRecs         \* bounds: transaction ids and records

ASSUME HandlesAssumption ==
    /\ Free \notin Processes
    /\ NoValue \notin Values
    /\ MaxTxn \in Nat /\ MaxRecs \in Nat

VARIABLES
    slots, recs,    \* the meta slots and the records
    created,        \* the file has its two slots
    lock,           \* the process that holds the file's lock
    handle,         \* per process, its handle
    astray          \* history: a process published or wiped over commits that
                    \* it had not read

vars == <<slots, recs, created, lock, handle, astray>>

SlotIds == {0, 1}
Map == [Keys -> Values \cup {NoValue}]
Empty == [k \in Keys |-> NoValue]

\* `map` is history: what the root stood for when it was published.
Slot == [txn : Nat, root : Nat, len : Nat, map : Map]
NewSlots == [i \in SlotIds |-> [txn |-> 0, root |-> 0, len |-> 0, map |-> Empty]]

\* _read_best_meta; the first of two equals.
Best(s) == IF s[1].txn > s[0].txn THEN 1 ELSE 0
Visible == slots[Best(slots)].map

\* A handle caches the transaction id and the slot it read last; its tree
\* has a root unless it is dirty.  `wrote` is history: the keys it staged.
Handle ==
    [pc : {"closed", "creating", "open", "stored"}, txn : Nat, slot : SlotIds,
     root : Nat, dirty : BOOLEAN, tree : Map, wrote : SUBSET Keys]
Closed ==
    [pc |-> "closed", txn |-> 0, slot |-> 0, root |-> 0, dirty |-> FALSE,
     tree |-> Empty, wrote |-> {}]

\* The handle of a process that has just read the slots s.
Reading(s) ==
    LET b == Best(s) IN
    [pc |-> "open", txn |-> s[b].txn, slot |-> b, root |-> s[b].root, dirty |-> FALSE,
     tree |-> s[b].map, wrote |-> {}]

Init ==
    /\ slots = NewSlots /\ recs = <<>>
    /\ created = FALSE
    /\ lock = Free
    /\ handle = [p \in Processes |-> Closed]
    /\ astray = FALSE

May(p) == lock \in {Free, p}
Now(p, h) == handle' = [handle EXCEPT ![p] = h]

-----------------------------------------------------------------------------
(* Opening and closing.                                                    *)

\* What no commit covers is cut off.
Recovered ==
    LET len == slots[Best(slots)].len IN IF Len(recs) > len THEN SubSeq(recs, 1, len) ELSE recs

\* Mutant: recovery does not wait for the lock.
RecoverUnlocked(p) ==
    /\ handle[p].pc = "closed"
    /\ created
    /\ recs' = Recovered
    /\ Now(p, Reading(slots))
    /\ UNCHANGED <<slots, created, lock, astray>>

\* _ensure_meta of a file with slots, under the lock.
Recover(p) ==
    /\ handle[p].pc = "closed"
    /\ created
    /\ lock = Free
    /\ recs' = Recovered
    /\ Now(p, Reading(slots))
    /\ UNCHANGED <<slots, created, lock, astray>>

\* It finds the file too short for its slots,
FindNew(p) ==
    /\ handle[p].pc = "closed"
    /\ ~created
    /\ Now(p, [Closed EXCEPT !.pc = "creating"])
    /\ UNCHANGED <<slots, recs, created, lock, astray>>

\* and writes them, without the lock and without looking again.
Create(p) ==
    /\ handle[p].pc = "creating"
    /\ slots' = NewSlots /\ recs' = <<>>
    /\ created' = TRUE
    /\ Now(p, Reading(NewSlots))
    /\ astray' = (astray \/ slots # NewSlots \/ recs # <<>>)
    /\ UNCHANGED lock

\* close(), or the process dies: the lock goes with the descriptor.
Close(p) ==
    /\ handle[p].pc # "closed"
    /\ Now(p, Closed)
    /\ lock' = IF lock = p THEN Free ELSE lock
    /\ UNCHANGED <<slots, recs, created, astray>>

-----------------------------------------------------------------------------
(* Reading, staging and committing.                                        *)

\* get, items, len and scan read the slots again, unless the handle is
\* locked.
Read(p) ==
    /\ handle[p].pc = "open"
    /\ lock # p
    /\ Now(p, Reading(slots))
    /\ UNCHANGED <<slots, recs, created, lock, astray>>

\* _refresh_tree_ref reads them twice, for the root and for the count, and
\* snapshot() and stats() only read them: the metadata alone are renewed.
ReadMeta(p) ==
    /\ handle[p].pc = "open"
    /\ Now(p, [handle[p] EXCEPT !.slot = Best(slots), !.txn = slots[Best(slots)].txn])
    /\ UNCHANGED <<slots, recs, created, lock, astray>>

Staged(h, k, v) ==
    IF v = NoValue /\ h.tree[k] = NoValue THEN h
    ELSE [h EXCEPT !.tree[k] = v, !.dirty = TRUE, !.wrote = @ \cup {k}]

\* Mutant: taking the lock does not refresh the tree.
StageStale(p, k, v) ==
    /\ handle[p].pc = "open"
    /\ May(p)
    /\ lock' = p
    /\ Now(p, Staged(handle[p], k, v))
    /\ UNCHANGED <<slots, recs, created, astray>>

\* set and delete: whoever takes the lock reads the slots first.  The
\* deletion of a missing key raises KeyError and keeps the lock, like an
\* updater that raises.
Stage(p, k, v) ==
    /\ handle[p].pc = "open"
    /\ May(p)
    /\ lock' = p
    /\ Now(p, Staged(IF lock = p THEN handle[p] ELSE Reading(slots), k, v))
    /\ UNCHANGED <<slots, recs, created, astray>>

\* A transaction's commit takes the lock and reads the slots in any case;
\* what was staged is gone.
TxLock(p) ==
    /\ handle[p].pc = "open"
    /\ May(p)
    /\ lock' = p
    /\ Now(p, Reading(slots))
    /\ UNCHANGED <<slots, recs, created, astray>>

\* On a conflict it releases the lock.
TxConflict(p) ==
    /\ handle[p].pc = "open"
    /\ lock = p
    /\ ~handle[p].dirty
    /\ lock' = Free
    /\ UNCHANGED <<slots, recs, created, handle, astray>>

\* commit() stores a dirty tree;
Store(p) ==
    LET h == handle[p] IN
    /\ h.pc = "open"
    /\ h.dirty => Len(recs) < MaxRecs
    /\ recs' = IF h.dirty THEN Append(recs, h.tree) ELSE recs
    /\ Now(p, [h EXCEPT !.pc = "stored", !.root = IF h.dirty THEN Len(recs) + 1 ELSE h.root])
    /\ UNCHANGED <<slots, created, lock, astray>>

\* The handle has read the newest commit, or has staged writes on it.
Current(h) ==
    LET best == slots[Best(slots)] IN
    /\ h.slot = Best(slots) /\ h.txn = best.txn
    /\ h.dirty \/ h.root = best.root

\* commit_root_address takes the lock, if it was not taken to stage
\* anything, and writes the slot that the handle did not read last; then
\* the slots are read again.
Publish(p) ==
    LET h == handle[p]
        meta == [txn |-> h.txn + 1, root |-> h.root, len |-> Len(recs), map |-> h.tree]
        published == [slots EXCEPT ![1 - h.slot] = meta]
    IN  /\ h.pc = "stored"
        /\ May(p)
        /\ h.txn < MaxTxn
        /\ slots' = published
        /\ Now(p, Reading(published))
        /\ lock' = Free
        /\ astray' = (astray \/ ~Current(h))
        /\ UNCHANGED <<recs, created>>

Step(p) ==
    \/ Recover(p)
    \/ FindNew(p)
    \/ Create(p)
    \/ Close(p)
    \/ Read(p)
    \/ ReadMeta(p)
    \/ \E k \in Keys, v \in Values \cup {NoValue} : Stage(p, k, v)
    \/ TxLock(p)
    \/ TxConflict(p)
    \/ Store(p)
    \/ Publish(p)

Next == \E p \in Processes : Step(p)

Spec == Init /\ [][Next]_vars

-----------------------------------------------------------------------------
(* Properties.                                                             *)

Holds(root, map) ==
    IF root = 0 THEN map = Empty ELSE root <= Len(recs) /\ recs[root] = map

\* Recovery, which cuts the file, never cuts what another process needs:
\* the trees of both slots, the tree a handle has read and may still read,
\* and the records of a commit that is under way (_ensure_meta, whose lock
\* is for this).  Unless a process has gone astray.
RootsReadable ==
    ~astray =>
        /\ \A i \in SlotIds : Holds(slots[i].root, slots[i].map)
        /\ \A p \in Processes : LET h == handle[p] IN
              h.pc \in {"open", "stored"} /\ (h.dirty => h.pc = "stored") => Holds(h.root, h.tree)

\* No lost update between processes: a commit of staged writes publishes
\* the newest map with these writes and nothing else, whatever the handle
\* had cached before it staged them (lock() and _refresh_tree_ref).
StagedCommitExtends ==
    [][\A p \in Processes : Publish(p) /\ lock = p /\ ~astray =>
          Visible' = [k \in Keys |-> IF k \in handle[p].wrote THEN handle[p].tree[k] ELSE Visible[k]]]_vars

\* What docs/storage-format.md says of every commit: it "always writes the
\* slot that does not hold the current transaction".
CurrentSlotSpared ==
    [][\A p \in Processes : Publish(p) => handle[p].slot = Best(slots)]_vars
=============================================================================
