----------------------------- MODULE Database ------------------------------
(***************************************************************************)
(* The database handle (interface.py, DBDB) shared by the threads of one   *)
(* process: staged writes, snapshots (mvcc.py), optimistic transactions    *)
(* and compaction, beside other processes that commit to the same file.    *)
(*                                                                         *)
(* A file is the sequence of the maps committed to it, and the address of  *)
(* a root its place in that sequence: Storage shows that a commit is       *)
(* atomic and that what it publishes stays readable.  The threads share    *)
(* the handle's write mutex; the file lock keeps other processes out while *)
(* the handle holds it, and their commits are atomic here.                 *)
(***************************************************************************)
EXTENDS Integers, FiniteSets, Sequences

CONSTANTS
    Keys, Values, NoValue,
    Deleted, Unwritten,     \* overlay: _DELETED, and a key not in the overlay
    Threads, Free,          \* the mutex is a thread's or free
    NoTemp,                 \* there is no compaction file
    Features,               \* what else happens: see below
    MaxCommits,             \* bound: commits to one file
    MaxFiles,               \* bound: files a database goes through
    MaxStranded             \* bound: snapshots whose constructor raises

ASSUME DatabaseAssumption ==
    /\ NoValue \notin Values /\ Deleted \notin Values /\ Unwritten \notin Values
    /\ Deleted # Unwritten
    /\ Free \notin Threads
    /\ IsFiniteSet(Keys) /\ IsFiniteSet(Threads)
    /\ NoTemp \notin [Keys -> Values \cup {NoValue}]
    /\ Features \subseteq {"staging", "processes", "crashes", "errors"}
    /\ MaxCommits \in Nat /\ MaxFiles \in Nat \ {0} /\ MaxStranded \in Nat

VARIABLES
    files, path,    \* every file's committed maps, and the one the path names
    temp,           \* the map in the .compact.tmp file
    locked,         \* the handle has the file lock
    tree,           \* its map, staged writes included, while it has the lock
                    \* (Empty otherwise: every call reads the root again first)
    mutex,          \* _write_mutex
    open,           \* _open_snapshots
    stranded,       \* history: counted snapshots that nobody holds
    tx              \* per thread, its transaction and where it is

disk == <<files, path, temp>>
vars == <<files, path, temp, locked, tree, mutex, open, stranded, tx>>

Map == [Keys -> Values \cup {NoValue}]
Empty == [k \in Keys |-> NoValue]
Size(m) == Cardinality({k \in Keys : m[k] # NoValue})

\* The map under the root of the newest meta block.
Current == files[path][Len(files[path])]

NoWrites == [k \in Keys |-> Unwritten]
NoTx == [pc |-> "idle", file |-> 0, ver |-> 0, size |-> 0, reader |-> 0, overlay |-> NoWrites]

\* What a snapshot or a transaction of thread t reads.
Base(t) == files[tx[t].file][tx[t].ver]
Written(t) == {k \in Keys : tx[t].overlay[k] # Unwritten}

Init ==
    /\ files = [f \in 1..MaxFiles |-> IF f = 1 THEN <<Empty>> ELSE <<>>]
    /\ path = 1
    /\ temp = NoTemp
    /\ locked = FALSE
    /\ tree = Empty
    /\ mutex = Free
    /\ open = 0
    /\ stranded = 0
    /\ tx = [t \in Threads |-> NoTx]

Publish(m) == files' = [files EXCEPT ![path] = Append(@, m)]
Room == Len(files[path]) <= MaxCommits

At(t, where) == tx[t].pc = where
Goto(t, where) == tx' = [tx EXCEPT ![t].pc = where]

-----------------------------------------------------------------------------
(* snapshot(): the root and the count are two reads of the meta block.     *)

SnapshotRoot(t) ==
    /\ At(t, "idle")
    /\ mutex = Free
    /\ mutex' = t
    /\ tx' = [tx EXCEPT ![t] = [NoTx EXCEPT !.pc = "rooted", !.file = path,
                                            !.ver = Len(files[path])]]
    /\ UNCHANGED <<disk, locked, tree, open, stranded>>

\* Mutant: the count is that of the handle's tree, staged writes included.
SnapshotCountStaged(t) ==
    /\ At(t, "rooted")
    /\ open' = open + 1
    /\ mutex' = Free
    /\ tx' = [tx EXCEPT ![t].pc = "counted", ![t].size = Size(IF locked THEN tree ELSE Current)]
    /\ UNCHANGED <<disk, locked, tree, stranded>>

SnapshotCount(t) ==
    /\ At(t, "rooted")
    /\ open' = open + 1
    /\ mutex' = Free
    /\ tx' = [tx EXCEPT ![t].pc = "counted", ![t].size = Size(Current)]
    /\ UNCHANGED <<disk, locked, tree, stranded>>

\* Mutant: the count comes from the meta block the reader finds.
SnapshotOpenCounts(t) ==
    /\ At(t, "counted")
    /\ tx' = [tx EXCEPT ![t].pc = "open", ![t].reader = path, ![t].size = Size(Current)]
    /\ UNCHANGED <<disk, locked, tree, mutex, open, stranded>>

\* The reader opens the path by itself, after the mutex is released, and the
\* Snapshot is made from it.
SnapshotOpen(t) ==
    /\ At(t, "counted")
    /\ tx' = [tx EXCEPT ![t].pc = "open", ![t].reader = path]
    /\ UNCHANGED <<disk, locked, tree, mutex, open, stranded>>

\* Mutant: a snapshot that could not be opened stays counted.
SnapshotFailsCounted(t) ==
    /\ At(t, "counted")
    /\ mutex = Free
    /\ tx' = [tx EXCEPT ![t] = NoTx]
    /\ UNCHANGED <<disk, locked, tree, mutex, open, stranded>>

\* os.open or os.fdopen raises: the snapshot is no longer counted.
SnapshotFails(t) ==
    /\ At(t, "counted")
    /\ mutex = Free
    /\ open' = open - 1
    /\ tx' = [tx EXCEPT ![t] = NoTx]
    /\ UNCHANGED <<disk, locked, tree, mutex, stranded>>

\* The reader is open, but Snapshot(...), which reads the meta block through
\* it, raises outside the try: nobody has the snapshot, and it stays counted.
SnapshotRaises(t) ==
    /\ At(t, "counted")
    /\ stranded < MaxStranded
    /\ stranded' = stranded + 1
    /\ tx' = [tx EXCEPT ![t] = NoTx]
    /\ UNCHANGED <<disk, locked, tree, mutex, open>>

\* Mutant: the snapshot is uncounted by close() and again by its owner.
CloseTwice(t) ==
    /\ At(t, "closing")
    /\ mutex = Free
    /\ open' = open - 2
    /\ tx' = [tx EXCEPT ![t] = NoTx]
    /\ UNCHANGED <<disk, locked, tree, mutex, stranded>>

\* _close_base, which takes the mutex again to uncount the snapshot.
Close(t) ==
    /\ At(t, "closing")
    /\ mutex = Free
    /\ open' = IF open > 0 THEN open - 1 ELSE 0
    /\ tx' = [tx EXCEPT ![t] = NoTx]
    /\ UNCHANGED <<disk, locked, tree, mutex, stranded>>

-----------------------------------------------------------------------------
(* Transactions.                                                           *)

\* Transaction.__contains__: the overlay first, then the base.
InTx(t, k) ==
    IF k \in Written(t) THEN tx[t].overlay[k] # Deleted ELSE Base(t)[k] # NoValue

TxSet(t, k, v) ==
    /\ At(t, "open")
    /\ tx' = [tx EXCEPT ![t].overlay[k] = v]
    /\ UNCHANGED <<disk, locked, tree, mutex, open, stranded>>

TxDelete(t, k) ==
    /\ At(t, "open")
    /\ InTx(t, k)
    /\ tx' = [tx EXCEPT ![t].overlay[k] = Deleted]
    /\ UNCHANGED <<disk, locked, tree, mutex, open, stranded>>

\* abort(), which clears the overlay, or commit() with an empty one.
Finish(t) ==
    /\ At(t, "open")
    /\ tx' = [tx EXCEPT ![t].pc = "closing", ![t].overlay = NoWrites]
    /\ UNCHANGED <<disk, locked, tree, mutex, open, stranded>>

\* commit() enters its critical section: the mutex, the file lock, and the
\* committed root, whatever the handle had staged.
TxLock(t) ==
    /\ At(t, "open")
    /\ Written(t) # {}
    /\ mutex = Free
    /\ Room
    /\ mutex' = t
    /\ locked' = TRUE
    /\ tree' = Current
    /\ Goto(t, "committing")
    /\ UNCHANGED <<disk, open, stranded>>

\* Mutant: a key the base did not hold is not compared.
ConflictsOnExisting(t) ==
    {k \in Written(t) : Base(t)[k] # NoValue /\ Base(t)[k] # tree[k]}

\* _check_conflicts compares values.
Conflicts(t) == {k \in Written(t) : Base(t)[k] # tree[k]}

Leave(t) ==
    /\ locked' = FALSE
    /\ tree' = Empty
    /\ mutex' = Free
    /\ Goto(t, "closing")

\* Mutant: the conflicting transaction retries inside its critical section.
TxConflictSpins(t) ==
    /\ At(t, "committing")
    /\ Conflicts(t) # {}
    /\ tree' = Current
    /\ UNCHANGED <<disk, open, stranded, locked, mutex, tx>>

TxConflict(t) ==
    /\ At(t, "committing")
    /\ Conflicts(t) # {}
    /\ Leave(t)
    /\ UNCHANGED <<disk, open, stranded>>

\* The overlay applied to a map; deleting an absent key is no error.
Overlaid(t, m) ==
    [k \in Keys |-> IF k \notin Written(t) THEN m[k]
                    ELSE IF tx[t].overlay[k] = Deleted THEN NoValue
                    ELSE tx[t].overlay[k]]

TxPublish(t) ==
    /\ At(t, "committing")
    /\ Conflicts(t) = {}
    /\ Publish(Overlaid(t, tree))
    /\ Leave(t)
    /\ UNCHANGED <<path, temp, open, stranded>>

-----------------------------------------------------------------------------
(* Compaction.                                                             *)

\* What items() reads: staged writes included.
Items == IF locked THEN tree ELSE Current

\* What connect() finds in the temporary file, which it creates if need be.
Leftover == IF temp = NoTemp THEN Empty ELSE temp

\* The items, written over whatever that file already holds.
Copied == [k \in Keys |-> IF Items[k] # NoValue THEN Items[k] ELSE Leftover[k]]

\* Mutant: open snapshots do not keep compaction from starting.
CompactCopyAnyway(t) ==
    /\ At(t, "idle")
    /\ mutex = Free
    /\ path < MaxFiles
    /\ mutex' = t
    /\ temp' = Items
    /\ Goto(t, "compacting")
    /\ UNCHANGED <<files, path, locked, tree, open, stranded>>

\* The items are read and committed to the temporary file.
CompactCopy(t) ==
    /\ At(t, "idle")
    /\ mutex = Free
    /\ open = 0
    /\ path < MaxFiles
    /\ mutex' = t
    /\ temp' = Copied
    /\ Goto(t, "compacting")
    /\ UNCHANGED <<files, path, locked, tree, open, stranded>>

\* Writing or committing the copy raises: the temporary file stays, with or
\* without the items, and the mutex is free again.  (Once the handle is
\* closed an exception leaves it closed, and the program opens another: for
\* the files and for the threads, which are all idle then, that is Crash.)
CompactFails(t) ==
    /\ "errors" \in Features
    /\ At(t, "idle")
    /\ mutex = Free
    /\ open = 0
    /\ temp' \in {temp, Leftover, Copied}
    /\ UNCHANGED <<files, path, locked, tree, mutex, open, stranded, tx>>

\* The handle closes its file, and with it the lock and the staged writes.
CompactClose(t) ==
    /\ At(t, "compacting")
    /\ locked' = FALSE
    /\ tree' = Empty
    /\ Goto(t, "closed")
    /\ UNCHANGED <<disk, mutex, open, stranded>>

\* Mutant: the temporary file is put in place before its commit.
CompactReplaceEarly(t) ==
    /\ At(t, "closed")
    /\ path' = path + 1
    /\ files' = [files EXCEPT ![path + 1] = <<Empty>>]
    /\ temp' = NoTemp
    /\ mutex' = Free
    /\ tx' = [tx EXCEPT ![t] = NoTx]
    /\ UNCHANGED <<locked, tree, open, stranded>>

\* It moves the temporary file over the database and opens the result.
CompactReplace(t) ==
    /\ At(t, "closed")
    /\ path' = path + 1
    /\ files' = [files EXCEPT ![path + 1] = <<temp>>]
    /\ temp' = NoTemp
    /\ mutex' = Free
    /\ tx' = [tx EXCEPT ![t] = NoTx]
    /\ UNCHANGED <<locked, tree, open, stranded>>

-----------------------------------------------------------------------------
(* Staged writes, other processes, crashes.                                *)

\* Plain writes take no mutex: the program makes them between the calls
\* above, from one thread.
Quiet == \A t \in Threads : tx[t].pc \in {"idle", "open"}

\* db[k] = v or del db[k]: the first one takes the lock and reads the root.
Stage(k, v) ==
    /\ "staging" \in Features
    /\ Quiet
    /\ locked' = TRUE
    /\ tree' = [(IF locked THEN tree ELSE Current) EXCEPT ![k] = v]
    /\ UNCHANGED <<disk, mutex, open, stranded, tx>>

\* commit() of what is staged.
PlainCommit ==
    /\ Quiet
    /\ locked
    /\ Room
    /\ Publish(tree)
    /\ locked' = FALSE
    /\ tree' = Empty
    /\ UNCHANGED <<path, temp, mutex, open, stranded, tx>>

\* Another process opens the path, sets or deletes a key and commits.
OtherCommit(k, v) ==
    /\ "processes" \in Features
    /\ ~locked
    /\ Room
    /\ Publish([Current EXCEPT ![k] = v])
    /\ UNCHANGED <<path, temp, locked, tree, mutex, open, stranded, tx>>

\* The process dies and is started again.
Crash ==
    /\ "crashes" \in Features
    /\ locked' = FALSE
    /\ tree' = Empty
    /\ mutex' = Free
    /\ open' = 0
    /\ stranded' = 0
    /\ tx' = [t \in Threads |-> NoTx]
    /\ UNCHANGED disk

Step(t) ==
    \/ SnapshotRoot(t)
    \/ SnapshotCount(t)
    \/ SnapshotOpen(t)
    \/ SnapshotFails(t)
    \/ SnapshotRaises(t)
    \/ Close(t)
    \/ \E k \in Keys, v \in Values : TxSet(t, k, v)
    \/ \E k \in Keys : TxDelete(t, k)
    \/ Finish(t)
    \/ TxLock(t)
    \/ TxConflict(t)
    \/ TxPublish(t)
    \/ CompactCopy(t)
    \/ CompactClose(t)
    \/ CompactReplace(t)

Next ==
    \/ \E t \in Threads : Step(t)
    \/ \E k \in Keys, v \in Values \cup {NoValue} : Stage(k, v) \/ OtherCommit(k, v)
    \/ PlainCommit
    \/ Crash
    \/ \E t \in Threads : CompactFails(t)

\* A thread inside a call goes on: the interpreter runs every ready thread.
Fairness ==
    \A t \in Threads :
        /\ WF_vars(SnapshotCount(t))
        /\ WF_vars(TxConflict(t) \/ TxPublish(t))
        /\ WF_vars(CompactClose(t) \/ CompactReplace(t))

Spec == Init /\ [][Next]_vars /\ Fairness

-----------------------------------------------------------------------------
(* Properties.                                                             *)

TxType ==
    [pc : {"idle", "rooted", "counted", "open", "committing", "closing", "compacting", "closed"},
     file : 0..MaxFiles, ver : Nat, size : Nat, reader : 0..MaxFiles,
     overlay : [Keys -> Values \cup {Deleted, Unwritten}]]

\* Type correctness of the handle, its threads and the files.
TypeOK ==
    /\ files \in [1..MaxFiles -> Seq(Map)]
    /\ path \in 1..MaxFiles
    /\ temp \in Map \cup {NoTemp}
    /\ locked \in BOOLEAN
    /\ tree \in Map
    /\ mutex \in Threads \cup {Free}
    /\ open \in Nat
    /\ stranded \in Nat
    /\ tx \in [Threads -> TxType]

InSnapshot(t) == tx[t].pc \in {"counted", "open", "committing", "closing"}

\* A snapshot is of one version: its len() is the number of keys under the
\* root it pinned (snapshot() reads the two one after the other).
SnapshotConsistent == \A t \in Threads : InSnapshot(t) => tx[t].size = Size(Base(t))

\* Beside other processes the count may be of a later version than the root,
\* but it is of a committed version and never of an earlier one.
SnapshotCountRecent ==
    \A t \in Threads : InSnapshot(t) =>
        \E v \in tx[t].ver..Len(files[tx[t].file]) : tx[t].size = Size(files[tx[t].file][v])

\* A snapshot reads the file its root address belongs to: no compaction
\* replaces the file between pinning the root and opening the reader.
SnapshotPinned ==
    \A t \in Threads : tx[t].pc \in {"open", "committing"} => tx[t].reader = tx[t].file

\* _open_snapshots counts every snapshot from the moment it is pinned until
\* its owner has closed it, through aborts, conflicts and readers that cannot
\* be opened: none is uncounted early or twice, so compaction is never let in
\* under a reader.  Beyond those it counts exactly the snapshots whose
\* constructor raised, which the code never uncounts: from the first of them
\* compact() refuses until the process ends, and for no other reason.
SnapshotsCounted == open = Cardinality({t \in Threads : InSnapshot(t)}) + stranded

\* First committer wins: a transaction publishes over no value that another
\* commit put in place since its snapshot, and touches no other key.
FirstCommitterWins ==
    [][\A t \in Threads : TxPublish(t) =>
          \A k \in Keys :
              IF k \in Written(t) THEN Current[k] = Base(t)[k] ELSE Current'[k] = Current[k]]_vars

\* Compaction rewrites the committed map, no more and no less.
CompactionPreserves == [][path' # path => Current' = Current]_vars

\* What a snapshot's reader finds: the file it opened, at the root it was
\* given.  Its count is that of its version until it is read.
Read(t) ==
    IF tx[t].pc \in {"open", "committing"} THEN files[tx[t].reader][tx[t].ver] ELSE Base(t)
ReadSize(t) == IF At(t, "rooted") THEN Size(Base(t)) ELSE tx[t].size

Snapshots ==
    [t \in Threads |->
        IF tx[t].pc \in {"rooted", "counted", "open", "committing"}
        THEN [active |-> TRUE, base |-> Read(t), size |-> ReadSize(t), writes |-> tx[t].overlay]
        ELSE [active |-> FALSE, base |-> Empty, size |-> 0, writes |-> NoWrites]]

Isolation == INSTANCE SnapshotIsolation WITH store <- Current, txs <- Snapshots

\* The handle implements SnapshotIsolation for the threads of one process:
\* a snapshot stays the version it pinned through the commits and the
\* compactions of the others, and a commit is of one moment although it
\* checks and publishes in two (snapshot(), Transaction, compact()).
IsolationSpec == Isolation!Spec

\* The write mutex is always released: no path out of a critical section,
\* conflict or success, keeps it.
MutexReleased == mutex # Free ~> mutex = Free
=============================================================================
