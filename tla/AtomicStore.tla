---------------------------- MODULE AtomicStore ----------------------------
(***************************************************************************)
(* What the storage engine promises a single client: a map that changes    *)
(* only as a whole.  `working` is what the client has staged, `visible`    *)
(* what anyone opening the file now would read, `durable` what a power     *)
(* loss is guaranteed to leave behind.  Staged changes reach `visible`     *)
(* only when the whole of `working` is published, and `durable` only by    *)
(* the whole of `visible` being synced; a fault returns the store to one   *)
(* of those two maps, never to a mixture and never to unpublished work.    *)
(***************************************************************************)
CONSTANTS Keys, Values, NoValue

VARIABLES durable, visible, working

storeVars == <<durable, visible, working>>

Empty == [k \in Keys |-> NoValue]

Init ==
    /\ durable = Empty
    /\ visible = Empty
    /\ working = Empty

Set(k, v) ==
    /\ working' = [working EXCEPT ![k] = v]
    /\ UNCHANGED <<durable, visible>>

Delete(k) ==
    /\ working[k] # NoValue
    /\ working' = [working EXCEPT ![k] = NoValue]
    /\ UNCHANGED <<durable, visible>>

\* The commit point for other readers: all staged changes appear at once.
Publish ==
    /\ visible' = working
    /\ UNCHANGED <<durable, working>>

\* An fsync: what is visible can no longer be lost.
Sync ==
    /\ durable' = visible
    /\ UNCHANGED <<visible, working>>

\* The client closes the store or dies: what it had staged is gone.
Discard ==
    /\ working' = visible
    /\ UNCHANGED <<durable, visible>>

\* The machine loses power: an unsynced publication survives or does not.
PowerLoss ==
    /\ durable' \in {visible, durable}
    /\ visible' = durable'
    /\ working' = durable'

Next ==
    \/ \E k \in Keys, v \in Values : Set(k, v)
    \/ \E k \in Keys : Delete(k)
    \/ Publish
    \/ Sync
    \/ Discard
    \/ PowerLoss

Spec == Init /\ [][Next]_storeVars
=============================================================================
