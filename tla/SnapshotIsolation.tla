------------------------- MODULE SnapshotIsolation -------------------------
(***************************************************************************)
(* What the database promises the transactions and snapshots of its        *)
(* threads: each reads one version of the map, that of the moment it       *)
(* began, and its len(); what it writes is its own until it commits; and   *)
(* it commits, all at once, only if nobody has changed what it writes.     *)
(* Compaction does not exist at this level.                                *)
(***************************************************************************)
EXTENDS FiniteSets

CONSTANTS Keys, Values, NoValue, Deleted, Unwritten, Threads

VARIABLES
    store,          \* the committed map
    txs             \* per thread, its snapshot and what it wrote

Blank == [k \in Keys |-> NoValue]
NoChange == [k \in Keys |-> Unwritten]
Count(m) == Cardinality({k \in Keys : m[k] # NoValue})

Inactive == [active |-> FALSE, base |-> Blank, size |-> 0, writes |-> NoChange]
Started == [active |-> TRUE, base |-> store, size |-> Count(store), writes |-> NoChange]

\* A map under the writes of thread t.
Under(t, m) ==
    [k \in Keys |-> IF txs[t].writes[k] = Unwritten THEN m[k]
                    ELSE IF txs[t].writes[k] = Deleted THEN NoValue
                    ELSE txs[t].writes[k]]

Init ==
    /\ store = Blank
    /\ txs = [t \in Threads |-> Inactive]

\* What an action says of txs'[t] follows from its assignment to txs', and
\* spares TLC to compare the whole of txs in a step that is another action.
Begin(t) ==
    /\ ~txs[t].active /\ txs'[t].active
    /\ txs' = [txs EXCEPT ![t] = Started]
    /\ UNCHANGED store

Write(t, k, w) ==
    /\ txs[t].active
    /\ txs'[t].writes[k] = w
    /\ w = Deleted => Under(t, txs[t].base)[k] # NoValue
    /\ txs' = [txs EXCEPT ![t].writes[k] = w]
    /\ UNCHANGED store

Commit(t) ==
    /\ txs[t].active /\ ~txs'[t].active
    /\ \A k \in Keys : txs[t].writes[k] # Unwritten => store[k] = txs[t].base[k]
    /\ store' = Under(t, store)
    /\ txs' = [txs EXCEPT ![t] = Inactive]

\* A snapshot is closed, a transaction aborts or conflicts.
End(t) ==
    /\ txs[t].active /\ ~txs'[t].active
    /\ txs' = [txs EXCEPT ![t] = Inactive]
    /\ UNCHANGED store

Next ==
    \E t \in Threads :
        \/ Begin(t)
        \/ \E k \in Keys, w \in Values \cup {Deleted} : Write(t, k, w)
        \/ Commit(t)
        \/ End(t)

Spec == Init /\ [][Next]_<<store, txs>>
=============================================================================
