--------------------------- MODULE DatabaseProofs --------------------------
(***************************************************************************)
(* Proofs about Database: snapshots are counted and pinned and the first   *)
(* committer wins, beside any staging, other processes and crashes; and    *)
(* what the readers and the writers see is SnapshotIsolation.              *)
(***************************************************************************)
EXTENDS Database, FiniteSetTheorems, TLAPS

\* The places in a call where a thread holds the write mutex.
Holding == {"rooted", "committing", "compacting", "closed"}

\* The places where a thread has a root.
Rooted == {"rooted", "counted", "open", "committing", "closing"}

\* The mutex is held by the thread that is at such a place, if any.
Exclusive == \A t \in Threads : mutex = t <=> tx[t].pc \in Holding

\* A root is a version of the file that the path names.
RootsValid ==
    /\ Len(files[path]) > 0
    /\ \A t \in Threads : tx[t].pc \in Rooted =>
          tx[t].file = path /\ tx[t].ver \in 1..Len(files[path])

\* A reader has opened the file its root is in.
ReadersPinned ==
    \A t \in Threads : tx[t].pc \in {"open", "committing"} => tx[t].reader = path

\* A compaction runs without any snapshot.
CompactsAlone ==
    \A u \in Threads : tx[u].pc \in {"compacting", "closed"} =>
        path < MaxFiles /\ temp \in Map /\ \A t \in Threads : ~InSnapshot(t)

\* A transaction that is committing has the lock and the committed tree.
CommitsCurrent == \A t \in Threads : At(t, "committing") => locked /\ tree = Current

InSnapshots == {t \in Threads : InSnapshot(t)}

Inv ==
    /\ TypeOK
    /\ Exclusive
    /\ RootsValid
    /\ ReadersPinned
    /\ CompactsAlone
    /\ CommitsCurrent
    /\ SnapshotsCounted

-----------------------------------------------------------------------------
(* Facts about single operators.                                           *)

\* A commit appends one version to the file the path names and changes no
\* other version (commit_root_address).
LEMMA PublishAppends ==
    ASSUME TypeOK, NEW m \in Map, Publish(m), path' = path
    PROVE  /\ files' \in [1..MaxFiles -> Seq(Map)]
           /\ Len(files'[path]) = Len(files[path]) + 1
           /\ \A v \in 1..Len(files[path]) : files'[path][v] = files[path][v]
           /\ Current' = m
<1>1. files[path] \in Seq(Map) /\ path \in 1..MaxFiles
  BY DEF TypeOK
<1>2. files'[path] = Append(files[path], m)
  BY <1>1 DEF Publish, TypeOK
<1>3. Append(files[path], m) \in Seq(Map)
  BY <1>1
<1>4. files' \in [1..MaxFiles -> Seq(Map)]
  BY <1>3 DEF Publish, TypeOK
<1>5. /\ Len(files'[path]) = Len(files[path]) + 1
      /\ \A v \in 1..Len(files[path]) : files'[path][v] = files[path][v]
      /\ files'[path][Len(files[path]) + 1] = m
  BY <1>1, <1>2
<1> QED
  BY <1>4, <1>5 DEF Current

\* The newest version of a file is a map.
LEMMA CurrentIsMap ==
    ASSUME TypeOK, RootsValid
    PROVE  Current \in Map
<1>1. files[path] \in Seq(Map) /\ Len(files[path]) \in Nat /\ Len(files[path]) > 0
  BY DEF TypeOK, RootsValid
<1>2. files[path][Len(files[path])] \in Map
  BY <1>1
<1> QED
  BY <1>2 DEF Current

\* What compaction finds in its temporary file, and what it writes there.
LEMMA CopiedIsMap ==
    ASSUME TypeOK, RootsValid
    PROVE  Leftover \in Map /\ Copied \in Map
<1>1. tree \in Map /\ temp \in Map \cup {NoTemp} /\ Empty \in Map /\ Current \in Map
  BY CurrentIsMap DEF TypeOK, Empty, Map
<1>2. Leftover \in Map /\ Items \in Map
  BY <1>1 DEF Leftover, Items
<1> QED
  BY <1>2 DEF Copied, Map

\* The number of keys of a map is a natural number.
LEMMA SizeIsNat ==
    ASSUME NEW m
    PROVE  Size(m) \in Nat
<1>1. {k \in Keys : m[k] # NoValue} \in SUBSET Keys
  OBVIOUS
<1>2. IsFiniteSet({k \in Keys : m[k] # NoValue})
  BY <1>1, FS_Subset, DatabaseAssumption
<1> QED
  BY <1>2, FS_CardinalityType DEF Size

\* The snapshots are finitely many, so counting them is counting.
LEMMA SnapshotsFinite ==
    /\ IsFiniteSet(InSnapshots)
    /\ Cardinality(InSnapshots) \in Nat
    /\ Cardinality(InSnapshots) = 0 <=> InSnapshots = {}
<1>1. IsFiniteSet(InSnapshots)
  BY FS_Subset, DatabaseAssumption DEF InSnapshots
<1> QED
  BY <1>1, FS_CardinalityType, FS_EmptySet

\* What a transaction leaves of a map is a map.
LEMMA OverlaidIsMap ==
    ASSUME TypeOK, NEW t \in Threads, NEW m \in Map
    PROVE  Overlaid(t, m) \in Map
<1>1. tx[t].overlay \in [Keys -> Values \cup {Deleted, Unwritten}]
  BY DEF TypeOK, TxType
<1> QED
  BY <1>1 DEF Overlaid, Map, Written

\* A thread without a transaction is well typed.
LEMMA NoTxTyped == NoTx \in TxType
<1>1. NoWrites \in [Keys -> Values \cup {Deleted, Unwritten}]
  BY DEF NoWrites
<1> QED
  BY <1>1, DatabaseAssumption DEF NoTx, TxType

\* A step of thread t replaces its record and no other.
LEMMA OneMoves ==
    ASSUME TypeOK, NEW t \in Threads, NEW r \in TxType, tx' = [tx EXCEPT ![t] = r]
    PROVE  /\ tx' \in [Threads -> TxType]
           /\ tx'[t] = r
           /\ \A u \in Threads \ {t} : tx'[u] = tx[u]
  BY DEF TypeOK

\* A thread that goes on keeps its root, its reader and its writes.
LEMMA Goes ==
    ASSUME TypeOK, NEW t \in Threads,
           NEW where \in {"open", "committing", "closing", "compacting", "closed"},
           Goto(t, where)
    PROVE  /\ tx' \in [Threads -> TxType]
           /\ tx'[t].pc = where /\ tx'[t].file = tx[t].file /\ tx'[t].ver = tx[t].ver
           /\ tx'[t].reader = tx[t].reader /\ tx'[t].size = tx[t].size
           /\ tx'[t].overlay = tx[t].overlay
           /\ \A u \in Threads \ {t} : tx'[u] = tx[u]
<1> DEFINE r == [tx[t] EXCEPT !.pc = where]
<1>1. tx[t] \in TxType
  BY DEF TypeOK
<1>2. r \in TxType /\ tx' = [tx EXCEPT ![t] = r]
  BY <1>1 DEF TxType, Goto
<1> QED
  BY <1>1, <1>2, OneMoves, ZenonT(30) DEF TxType

\* A thread that aborts keeps its root and its reader until it closes.
LEMMA FinishIs ==
    ASSUME TypeOK, NEW t \in Threads, Finish(t)
    PROVE  \E r \in TxType :
             /\ tx' = [tx EXCEPT ![t] = r] /\ r.pc = "closing" /\ tx'[t] = r
             /\ r.file = tx[t].file /\ r.ver = tx[t].ver
             /\ r.size = tx[t].size /\ r.reader = tx[t].reader
<1> DEFINE r == [tx[t] EXCEPT !.pc = "closing", !.overlay = NoWrites]
<1>1. tx[t] \in TxType /\ NoWrites \in [Keys -> Values \cup {Deleted, Unwritten}]
  BY DEF TypeOK, NoWrites
<1>2. /\ r \in TxType /\ r.pc = "closing" /\ r.file = tx[t].file /\ r.ver = tx[t].ver
      /\ r.size = tx[t].size /\ r.reader = tx[t].reader
  BY <1>1, ZenonT(30) DEF TxType
<1>3. tx' = [tx EXCEPT ![t] = r]
  BY DEF Finish
<1>4. tx'[t] = r
  BY <1>2, <1>3, OneMoves, ZenonT(30)
<1> QED
  BY <1>2, <1>3, <1>4, ZenonT(30)

-----------------------------------------------------------------------------
(* Every action preserves the invariant.                                   *)

\* The initial handle has no snapshot, no lock and an empty file.
LEMMA InitInv == Init => Inv
<1> SUFFICES ASSUME Init PROVE Inv
  OBVIOUS
<1>1. <<Empty>> \in Seq(Map) /\ <<>> \in Seq(Map)
  BY DEF Empty, Map
<1>2. TypeOK
  <2>1. files \in [1..MaxFiles -> Seq(Map)] /\ path \in 1..MaxFiles
    BY <1>1, DatabaseAssumption DEF Init
  <2>2. NoWrites \in [Keys -> Values \cup {Deleted, Unwritten}] /\ Empty \in Map
    BY DEF NoWrites, Empty, Map
  <2>3. tx \in [Threads -> TxType]
    BY NoTxTyped DEF Init
  <2> QED
    BY <2>1, <2>2, <2>3, ZenonT(30) DEF Init, TypeOK
<1>3. Len(files[path]) > 0
  BY DatabaseAssumption DEF Init
<1>4. \A t \in Threads : tx[t].pc = "idle"
  BY DEF Init, NoTx
<1>5. InSnapshots = {}
  BY <1>4 DEF InSnapshots, InSnapshot
<1>6. SnapshotsCounted
  <2>1. Cardinality(InSnapshots) = 0
    BY <1>5, FS_EmptySet, ZenonT(30)
  <2>2. open = 0 /\ stranded = 0
    BY DEF Init
  <2>3. open = Cardinality(InSnapshots) + stranded
    BY <2>1, <2>2
  <2> QED
    BY <2>3, ZenonT(30) DEF SnapshotsCounted, InSnapshots
<1> QED
  BY <1>2, <1>3, <1>4, <1>6, DatabaseAssumption DEF Inv, Exclusive, RootsValid, ReadersPinned,
     CompactsAlone, CommitsCurrent, At, Holding, Rooted, Init

\* Pinning the root takes the mutex; the root is the newest version.
LEMMA SnapshotRootInv ==
    ASSUME Inv, NEW t \in Threads, SnapshotRoot(t)
    PROVE  Inv'
<1> USE DatabaseAssumption DEF At
<1>1. /\ tx' = [tx EXCEPT ![t] = [NoTx EXCEPT !.pc = "rooted", !.file = path,
                                              !.ver = Len(files[path])]]
      /\ UNCHANGED <<files, path, temp, locked, tree, open, stranded>>
      /\ mutex = Free /\ mutex' = t /\ tx[t].pc = "idle"
  BY DEF SnapshotRoot, disk
<1>2. TypeOK /\ files[path] \in Seq(Map) /\ path \in 1..MaxFiles
  BY DEF Inv, TypeOK
<1> DEFINE r == [NoTx EXCEPT !.pc = "rooted", !.file = path, !.ver = Len(files[path])]
<1>3. r \in TxType
  <2>1. path \in 0..MaxFiles /\ Len(files[path]) \in Nat
    BY <1>2
  <2> QED
    BY <2>1, NoTxTyped, ZenonT(30) DEF TxType
<1>4. tx' \in [Threads -> TxType] /\ tx'[t] = r /\ \A u \in Threads \ {t} : tx'[u] = tx[u]
  BY <1>1, <1>2, <1>3, OneMoves, ZenonT(30)
<1>5. TypeOK'
  BY <1>1, <1>2, <1>4 DEF TypeOK
<1>6. tx'[t].pc = "rooted" /\ tx'[t].file = path /\ tx'[t].ver = Len(files[path])
  BY <1>4 DEF NoTx
<1>7. Exclusive'
  BY <1>1, <1>4, <1>6 DEF Inv, Exclusive, Holding
<1>8. RootsValid' /\ ReadersPinned'
  BY <1>1, <1>2, <1>4, <1>6 DEF Inv, RootsValid, ReadersPinned, Rooted
<1>9. \A u \in Threads : InSnapshot(u)' <=> InSnapshot(u)
  BY <1>1, <1>4, <1>6 DEF InSnapshot
<1>10. CompactsAlone' /\ CommitsCurrent'
  BY <1>1, <1>4, <1>6, <1>9 DEF Inv, CompactsAlone, CommitsCurrent, Current
<1>11. SnapshotsCounted'
  BY <1>1, <1>9 DEF Inv, SnapshotsCounted
<1> QED
  BY <1>5, <1>7, <1>8, <1>10, <1>11 DEF Inv

\* Counting the keys releases the mutex and counts the snapshot.
LEMMA SnapshotCountInv ==
    ASSUME Inv, NEW t \in Threads, SnapshotCount(t)
    PROVE  Inv'
<1> USE DatabaseAssumption DEF At
<1>1. /\ tx' = [tx EXCEPT ![t].pc = "counted", ![t].size = Size(Current)]
      /\ UNCHANGED <<files, path, temp, locked, tree, stranded>>
      /\ mutex' = Free /\ tx[t].pc = "rooted" /\ open' = open + 1
  BY DEF SnapshotCount, disk
<1>2. TypeOK /\ mutex = t
  BY <1>1 DEF Inv, Exclusive, Holding
<1> DEFINE r == [tx[t] EXCEPT !.pc = "counted", !.size = Size(Current)]
<1>r. tx[t] \in TxType /\ r \in TxType /\ tx' = [tx EXCEPT ![t] = r]
  <2>1. tx[t] \in TxType /\ Size(Current) \in Nat
    BY <1>2, SizeIsNat, ZenonT(30) DEF TypeOK
  <2> QED
    BY <1>1, <2>1, ZenonT(30) DEF TxType
<1>3. TypeOK'
  BY <1>1, <1>2, <1>r, OneMoves DEF TypeOK
<1>4. /\ tx'[t].pc = "counted" /\ tx'[t].file = tx[t].file /\ tx'[t].ver = tx[t].ver
      /\ \A u \in Threads \ {t} : tx'[u] = tx[u]
  <2>1. tx'[t] = r /\ \A u \in Threads \ {t} : tx'[u] = tx[u]
    BY <1>2, <1>r, OneMoves, ZenonT(30)
  <2>2. r.pc = "counted" /\ r.file = tx[t].file /\ r.ver = tx[t].ver
    BY <1>r, ZenonT(30) DEF TxType
  <2> QED
    BY <2>1, <2>2, ZenonT(30)
<1>5. Exclusive'
  BY <1>1, <1>2, <1>4, ZenonT(30) DEF Inv, Exclusive, Holding
<1>6. RootsValid' /\ ReadersPinned'
  BY <1>1, <1>4, ZenonT(60) DEF Inv, RootsValid, ReadersPinned, Rooted
<1>7. \A u \in Threads : tx[u].pc \notin {"compacting", "closed"}
  BY <1>1, <1>2 DEF Inv, Exclusive, Holding
<1>8. CompactsAlone' /\ CommitsCurrent'
  BY <1>1, <1>4, <1>7, ZenonT(30) DEF Inv, CompactsAlone, CommitsCurrent, Current
<1>9. InSnapshots' = InSnapshots \cup {t} /\ t \notin InSnapshots
  BY <1>1, <1>4, ZenonT(30) DEF InSnapshots, InSnapshot
<1>10. SnapshotsCounted'
  <2>1. Cardinality(InSnapshots') = Cardinality(InSnapshots) + 1
    BY <1>9, SnapshotsFinite, FS_AddElement, ZenonT(30)
  <2>2. open = Cardinality(InSnapshots) + stranded /\ stranded \in Nat
    BY <1>2, ZenonT(30) DEF Inv, SnapshotsCounted, InSnapshots, TypeOK
  <2>3. open' = Cardinality(InSnapshots') + stranded'
    BY <1>1, <2>1, <2>2, SnapshotsFinite
  <2> QED
    BY <2>3, ZenonT(30) DEF SnapshotsCounted, InSnapshots
<1> QED
  BY <1>3, <1>5, <1>6, <1>8, <1>10 DEF Inv

\* The reader opens the path while its snapshot is counted: no compaction
\* can be under way, and the path still names the root's file.
LEMMA SnapshotOpenInv ==
    ASSUME Inv, NEW t \in Threads, SnapshotOpen(t)
    PROVE  Inv'
<1> USE DatabaseAssumption DEF At
<1>1. /\ tx' = [tx EXCEPT ![t].pc = "open", ![t].reader = path]
      /\ UNCHANGED <<files, path, temp, locked, tree, mutex, open, stranded>>
      /\ tx[t].pc = "counted"
  BY DEF SnapshotOpen, disk
<1>2. TypeOK
  BY DEF Inv
<1> DEFINE r == [tx[t] EXCEPT !.pc = "open", !.reader = path]
<1>r. tx[t] \in TxType /\ r \in TxType /\ tx' = [tx EXCEPT ![t] = r]
  <2>1. tx[t] \in TxType /\ path \in 0..MaxFiles
    BY <1>2 DEF TypeOK
  <2> QED
    BY <1>1, <2>1, ZenonT(30) DEF TxType
<1>3. TypeOK'
  BY <1>1, <1>2, <1>r, OneMoves DEF TypeOK
<1>4. /\ tx'[t].pc = "open" /\ tx'[t].file = tx[t].file /\ tx'[t].ver = tx[t].ver
      /\ tx'[t].reader = path
      /\ \A u \in Threads \ {t} : tx'[u] = tx[u]
  <2>1. tx'[t] = r /\ \A u \in Threads \ {t} : tx'[u] = tx[u]
    BY <1>2, <1>r, OneMoves, ZenonT(30)
  <2>2. r.pc = "open" /\ r.file = tx[t].file /\ r.ver = tx[t].ver /\ r.reader = path
    BY <1>r, ZenonT(30) DEF TxType
  <2> QED
    BY <2>1, <2>2, ZenonT(30)
<1>5. Exclusive'
  BY <1>1, <1>4, ZenonT(30) DEF Inv, Exclusive, Holding
<1>6. RootsValid' /\ ReadersPinned'
  BY <1>1, <1>4, ZenonT(60) DEF Inv, RootsValid, ReadersPinned, Rooted
<1>7. \A u \in Threads : InSnapshot(u)' <=> InSnapshot(u)
  BY <1>1, <1>4, ZenonT(30) DEF InSnapshot
<1>8. CompactsAlone' /\ CommitsCurrent'
  BY <1>1, <1>4, <1>7, ZenonT(30) DEF Inv, CompactsAlone, CommitsCurrent, Current
<1>9. SnapshotsCounted'
  BY <1>1, <1>7, ZenonT(30) DEF Inv, SnapshotsCounted
<1> QED
  BY <1>3, <1>5, <1>6, <1>8, <1>9 DEF Inv

\* A thread that leaves its snapshot uncounts it: os.open failed, or
\* _close_base.
LEMMA LeaveSnapshotInv ==
    ASSUME Inv, NEW t \in Threads, SnapshotFails(t) \/ Close(t)
    PROVE  Inv'
<1> USE DatabaseAssumption DEF At
<1>1. /\ tx' = [tx EXCEPT ![t] = NoTx]
      /\ UNCHANGED <<files, path, temp, locked, tree, mutex, stranded>>
      /\ tx[t].pc \in {"counted", "closing"}
      /\ open' = open - 1 \/ open' = IF open > 0 THEN open - 1 ELSE 0
  BY DEF SnapshotFails, Close, disk
<1>2. TypeOK /\ open \in Nat
  BY DEF Inv, TypeOK
<1>3. t \in InSnapshots
  BY <1>1 DEF InSnapshots, InSnapshot
<1>4. open > 0
  <2>1. open = Cardinality(InSnapshots) + stranded /\ stranded \in Nat
    BY <1>2, ZenonT(30) DEF Inv, SnapshotsCounted, InSnapshots, TypeOK
  <2> QED
    BY <1>3, <2>1, SnapshotsFinite
<1>5. open' = open - 1
  BY <1>1, <1>2, <1>4
<1>6. tx' \in [Threads -> TxType] /\ tx'[t] = NoTx /\ \A u \in Threads \ {t} : tx'[u] = tx[u]
  BY <1>1, <1>2, NoTxTyped, OneMoves, ZenonT(30)
<1>7. TypeOK'
  BY <1>1, <1>2, <1>4, <1>5, <1>6 DEF TypeOK
<1>8. tx'[t].pc = "idle" /\ \A u \in Threads \ {t} : tx'[u] = tx[u]
  BY <1>6 DEF NoTx
<1>9. Exclusive'
  BY <1>1, <1>8 DEF Inv, Exclusive, Holding
<1>10. RootsValid' /\ ReadersPinned'
  BY <1>1, <1>8 DEF Inv, RootsValid, ReadersPinned, Rooted
<1>11. CompactsAlone' /\ CommitsCurrent'
  BY <1>1, <1>8 DEF Inv, CompactsAlone, CommitsCurrent, Current, InSnapshot
<1>12. InSnapshots' = InSnapshots \ {t}
  BY <1>1, <1>8 DEF InSnapshots, InSnapshot
<1>13. SnapshotsCounted'
  <2>1. Cardinality(InSnapshots') = Cardinality(InSnapshots) - 1
    BY <1>3, <1>12, SnapshotsFinite, FS_RemoveElement, ZenonT(30)
  <2>2. open = Cardinality(InSnapshots) + stranded /\ stranded \in Nat
    BY <1>2, ZenonT(30) DEF Inv, SnapshotsCounted, InSnapshots, TypeOK
  <2>3. open' = Cardinality(InSnapshots') + stranded'
    BY <1>1, <1>5, <2>1, <2>2, SnapshotsFinite
  <2> QED
    BY <2>3, ZenonT(30) DEF SnapshotsCounted, InSnapshots
<1> QED
  BY <1>7, <1>9, <1>10, <1>11, <1>13 DEF Inv

\* A thread whose Snapshot could not be made has none, and what it counted
\* stays counted.
LEMMA SnapshotRaisesInv ==
    ASSUME Inv, NEW t \in Threads, SnapshotRaises(t)
    PROVE  Inv'
<1> USE DatabaseAssumption DEF At
<1>1. /\ tx' = [tx EXCEPT ![t] = NoTx]
      /\ UNCHANGED <<files, path, temp, locked, tree, mutex, open>>
      /\ tx[t].pc = "counted" /\ stranded' = stranded + 1
  BY DEF SnapshotRaises, disk
<1>2. TypeOK /\ open \in Nat /\ stranded \in Nat
  BY DEF Inv, TypeOK
<1>3. t \in InSnapshots
  BY <1>1 DEF InSnapshots, InSnapshot
<1>4. tx' \in [Threads -> TxType] /\ tx'[t] = NoTx /\ \A u \in Threads \ {t} : tx'[u] = tx[u]
  BY <1>1, <1>2, NoTxTyped, OneMoves, ZenonT(30)
<1>5. TypeOK'
  <2>1. stranded' \in Nat
    BY <1>1, <1>2
  <2> QED
    BY <1>1, <1>2, <1>4, <2>1, ZenonT(30) DEF TypeOK
<1>6. tx'[t].pc = "idle" /\ \A u \in Threads \ {t} : tx'[u] = tx[u]
  BY <1>4 DEF NoTx
<1>7. Exclusive'
  BY <1>1, <1>6 DEF Inv, Exclusive, Holding
<1>8. RootsValid' /\ ReadersPinned'
  BY <1>1, <1>6 DEF Inv, RootsValid, ReadersPinned, Rooted
<1>9. CompactsAlone' /\ CommitsCurrent'
  BY <1>1, <1>6 DEF Inv, CompactsAlone, CommitsCurrent, Current, InSnapshot
<1>10. InSnapshots' = InSnapshots \ {t}
  BY <1>1, <1>6 DEF InSnapshots, InSnapshot
<1>11. SnapshotsCounted'
  <2>1. Cardinality(InSnapshots') = Cardinality(InSnapshots) - 1
    BY <1>3, <1>10, SnapshotsFinite, FS_RemoveElement, ZenonT(30)
  <2>2. open = Cardinality(InSnapshots) + stranded
    BY ZenonT(30) DEF Inv, SnapshotsCounted, InSnapshots
  <2>3. open' = Cardinality(InSnapshots') + stranded'
    BY <1>1, <1>2, <2>1, <2>2, SnapshotsFinite
  <2> QED
    BY <2>3, ZenonT(30) DEF SnapshotsCounted, InSnapshots
<1> QED
  BY <1>5, <1>7, <1>8, <1>9, <1>11 DEF Inv

\* Writing to the overlay, aborting and committing nothing are private.
LEMMA BodyInv ==
    ASSUME Inv, NEW t \in Threads,
           \/ \E k \in Keys, v \in Values : TxSet(t, k, v)
           \/ \E k \in Keys : TxDelete(t, k)
           \/ Finish(t)
    PROVE  Inv'
<1> USE DatabaseAssumption DEF At
<1>1. /\ UNCHANGED <<files, path, temp, locked, tree, mutex, open, stranded>>
      /\ tx[t].pc = "open"
  BY DEF TxSet, TxDelete, Finish, disk
<1>2. TypeOK
  BY DEF Inv
<1>r. PICK r \in TxType :
        /\ tx' = [tx EXCEPT ![t] = r]
        /\ r.pc \in {"open", "closing"} /\ r.file = tx[t].file
        /\ r.ver = tx[t].ver /\ r.reader = tx[t].reader
  <2>0. tx[t] \in TxType
    BY <1>2 DEF TypeOK
  <2>1. ASSUME NEW k \in Keys, NEW w \in Values \cup {Deleted}, tx' = [tx EXCEPT ![t].overlay[k] = w]
        PROVE  \E r \in TxType :
                 /\ tx' = [tx EXCEPT ![t] = r] /\ r.pc = tx[t].pc /\ r.file = tx[t].file
                 /\ r.ver = tx[t].ver /\ r.reader = tx[t].reader
    <3> DEFINE r == [tx[t] EXCEPT !.overlay[k] = w]
    <3>1. r \in TxType /\ tx' = [tx EXCEPT ![t] = r] /\ r.pc = tx[t].pc
          /\ r.file = tx[t].file /\ r.ver = tx[t].ver /\ r.reader = tx[t].reader
      BY <2>0, <2>1 DEF TxType
    <3> QED
      BY <3>1, ZenonT(30)
  <2>2. CASE Finish(t)
    BY <1>2, <2>2, FinishIs, ZenonT(30)
  <2> QED
    BY <1>1, <2>1, <2>2 DEF TxSet, TxDelete
<1>3. /\ TypeOK'
      /\ tx'[t].pc \in {"open", "closing"} /\ tx'[t].file = tx[t].file
      /\ tx'[t].ver = tx[t].ver /\ tx'[t].reader = tx[t].reader
      /\ \A u \in Threads \ {t} : tx'[u] = tx[u]
  BY <1>1, <1>2, <1>r, OneMoves DEF TypeOK
<1>4. Exclusive'
  BY <1>1, <1>3 DEF Inv, Exclusive, Holding
<1>5. RootsValid' /\ ReadersPinned'
  BY <1>1, <1>3 DEF Inv, RootsValid, ReadersPinned, Rooted
<1>6. \A u \in Threads : InSnapshot(u)' <=> InSnapshot(u)
  BY <1>1, <1>3 DEF InSnapshot
<1>7. CompactsAlone' /\ CommitsCurrent'
  BY <1>1, <1>3, <1>6 DEF Inv, CompactsAlone, CommitsCurrent, Current
<1>8. SnapshotsCounted'
  BY <1>1, <1>6 DEF Inv, SnapshotsCounted
<1> QED
  BY <1>3, <1>4, <1>5, <1>7, <1>8 DEF Inv

\* The critical section of a commit begins with the mutex, the lock and the
\* committed tree.
LEMMA TxLockInv ==
    ASSUME Inv, NEW t \in Threads, TxLock(t)
    PROVE  Inv'
<1> USE DatabaseAssumption DEF At
<1>1. /\ Goto(t, "committing") /\ tx[t].pc = "open"
      /\ UNCHANGED <<files, path, temp, open, stranded>>
      /\ mutex = Free /\ mutex' = t /\ locked' = TRUE /\ tree' = Current
  BY DEF TxLock, disk
<1>2. TypeOK /\ Current \in Map
  BY CurrentIsMap DEF Inv
<1>3. /\ tx' \in [Threads -> TxType] /\ tx'[t].pc = "committing" /\ tx'[t].file = tx[t].file
      /\ tx'[t].ver = tx[t].ver /\ tx'[t].reader = tx[t].reader
      /\ \A u \in Threads \ {t} : tx'[u] = tx[u]
  BY <1>1, <1>2, Goes
<1>4. TypeOK'
  BY <1>1, <1>2, <1>3 DEF TypeOK
<1>5. Exclusive'
  BY <1>1, <1>3 DEF Inv, Exclusive, Holding
<1>6. RootsValid' /\ ReadersPinned'
  BY <1>1, <1>3 DEF Inv, RootsValid, ReadersPinned, Rooted
<1>7. \A u \in Threads : InSnapshot(u)' <=> InSnapshot(u)
  BY <1>1, <1>3 DEF InSnapshot
<1>8. CompactsAlone' /\ CommitsCurrent'
  BY <1>1, <1>3, <1>7 DEF Inv, CompactsAlone, CommitsCurrent, Current
<1>9. SnapshotsCounted'
  BY <1>1, <1>7 DEF Inv, SnapshotsCounted
<1> QED
  BY <1>4, <1>5, <1>6, <1>8, <1>9 DEF Inv

\* A commit that conflicts and one that succeeds leave the critical section
\* alike; the second appends a version, which invalidates no root.
LEMMA TxEndInv ==
    ASSUME Inv, NEW t \in Threads, TxConflict(t) \/ TxPublish(t)
    PROVE  Inv'
<1> USE DatabaseAssumption DEF At
<1>1. /\ Goto(t, "closing") /\ tx[t].pc = "committing"
      /\ UNCHANGED <<path, temp, open, stranded>>
      /\ mutex' = Free /\ locked' = FALSE /\ tree' = Empty
  BY DEF TxConflict, TxPublish, Leave, disk
<1>2. TypeOK /\ mutex = t /\ Empty \in Map
  BY <1>1 DEF Inv, Exclusive, Holding, Empty, Map
<1>3. /\ tx' \in [Threads -> TxType] /\ tx'[t].pc = "closing" /\ tx'[t].file = tx[t].file
      /\ tx'[t].ver = tx[t].ver /\ tx'[t].reader = tx[t].reader
      /\ \A u \in Threads \ {t} : tx'[u] = tx[u]
  BY <1>1, <1>2, Goes
<1>4. /\ files' \in [1..MaxFiles -> Seq(Map)]
      /\ Len(files'[path]) \in Nat /\ Len(files[path]) \in Nat
      /\ Len(files'[path]) >= Len(files[path])
  <2>1. files[path] \in Seq(Map)
    BY <1>2 DEF TypeOK
  <2>2. CASE TxConflict(t)
    BY <1>2, <2>1, <2>2 DEF TxConflict, disk, TypeOK
  <2>3. CASE TxPublish(t)
    <3>1. Overlaid(t, tree) \in Map
      BY <1>2, OverlaidIsMap DEF TypeOK
    <3> QED
      BY <1>1, <1>2, <2>1, <2>3, <3>1, PublishAppends DEF TxPublish
  <2> QED
    BY <2>2, <2>3
<1>5. TypeOK'
  BY <1>1, <1>2, <1>3, <1>4, ZenonT(30) DEF TypeOK
<1>6. Exclusive'
  BY <1>1, <1>2, <1>3 DEF Inv, Exclusive, Holding
<1>7. RootsValid' /\ ReadersPinned'
  <2>1. \A v \in 1..Len(files[path]) : v \in 1..Len(files'[path])
    BY <1>4
  <2>2. Len(files'[path]) > 0
    BY <1>4 DEF Inv, RootsValid
  <2>3. \A u \in Threads : tx'[u].pc \in Rooted =>
            tx[u].pc \in Rooted /\ tx'[u].file = tx[u].file /\ tx'[u].ver = tx[u].ver
    BY <1>1, <1>3, ZenonT(30) DEF Rooted
  <2>4. RootsValid'
    BY <1>1, <2>1, <2>2, <2>3, ZenonT(30) DEF Inv, RootsValid
  <2>5. ReadersPinned'
    BY <1>1, <1>3 DEF Inv, ReadersPinned
  <2> QED
    BY <2>4, <2>5
<1>8. \A u \in Threads : InSnapshot(u)' <=> InSnapshot(u)
  BY <1>1, <1>3 DEF InSnapshot
<1>9. \A u \in Threads : tx'[u].pc # "committing"
  BY <1>1, <1>2, <1>3 DEF Inv, Exclusive, Holding
<1>10. CompactsAlone' /\ CommitsCurrent'
  BY <1>1, <1>3, <1>8, <1>9, ZenonT(30) DEF Inv, CompactsAlone, CommitsCurrent
<1>11. SnapshotsCounted'
  BY <1>1, <1>8 DEF Inv, SnapshotsCounted
<1> QED
  BY <1>5, <1>6, <1>7, <1>10, <1>11 DEF Inv

\* Compaction starts when no snapshot is counted, so when there is none.
LEMMA CompactCopyInv ==
    ASSUME Inv, NEW t \in Threads, CompactCopy(t)
    PROVE  Inv'
<1> USE DatabaseAssumption DEF At
<1>1. /\ Goto(t, "compacting") /\ tx[t].pc = "idle"
      /\ UNCHANGED <<files, path, locked, tree, open, stranded>>
      /\ mutex = Free /\ mutex' = t /\ open = 0 /\ path < MaxFiles
  BY DEF CompactCopy
<1>2. TypeOK /\ Current \in Map
  BY CurrentIsMap DEF Inv
<1>3. temp' \in Map
  BY CopiedIsMap DEF CompactCopy, Inv
<1>4. /\ tx' \in [Threads -> TxType] /\ tx'[t].pc = "compacting"
      /\ \A u \in Threads \ {t} : tx'[u] = tx[u]
  BY <1>1, <1>2, Goes
<1>5. TypeOK'
  BY <1>1, <1>2, <1>3, <1>4 DEF TypeOK
<1>6. Exclusive'
  BY <1>1, <1>4 DEF Inv, Exclusive, Holding
<1>7. RootsValid' /\ ReadersPinned'
  BY <1>1, <1>4 DEF Inv, RootsValid, ReadersPinned, Rooted
<1>8. \A u \in Threads : InSnapshot(u)' <=> InSnapshot(u)
  BY <1>1, <1>4 DEF InSnapshot
<1>9. \A u \in Threads : ~InSnapshot(u)
  <2>1. open = Cardinality(InSnapshots) + stranded /\ stranded \in Nat
    BY <1>2, ZenonT(30) DEF Inv, SnapshotsCounted, InSnapshots, TypeOK
  <2>2. InSnapshots = {}
    BY <1>1, <2>1, SnapshotsFinite
  <2> QED
    BY <2>2 DEF InSnapshots
<1>10. CompactsAlone' /\ CommitsCurrent'
  BY <1>1, <1>3, <1>4, <1>8, <1>9 DEF Inv, CompactsAlone, CommitsCurrent, Current
<1>11. SnapshotsCounted'
  BY <1>1, <1>8, ZenonT(30) DEF Inv, SnapshotsCounted
<1> QED
  BY <1>5, <1>6, <1>7, <1>10, <1>11 DEF Inv

\* A compaction that raises changes the temporary file alone.
LEMMA CompactFailsInv ==
    ASSUME Inv, NEW t \in Threads, CompactFails(t)
    PROVE  Inv'
<1>1. /\ UNCHANGED <<files, path, locked, tree, mutex, open, stranded, tx>>
      /\ mutex = Free /\ temp' \in {temp, Leftover, Copied}
  BY DEF CompactFails
<1>2. TypeOK'
  BY <1>1, CopiedIsMap DEF Inv, TypeOK
<1>3. \A u \in Threads : tx[u].pc \notin {"compacting", "closed"}
  BY <1>1, DatabaseAssumption DEF Inv, Exclusive, Holding
<1>4. CompactsAlone'
  BY <1>1, <1>3 DEF CompactsAlone
<1>5. Exclusive' /\ RootsValid' /\ ReadersPinned' /\ CommitsCurrent' /\ SnapshotsCounted'
  BY <1>1 DEF Inv, Exclusive, RootsValid, ReadersPinned, CommitsCurrent, SnapshotsCounted,
     InSnapshot, Current, At
<1> QED
  BY <1>2, <1>4, <1>5 DEF Inv

\* Closing the handle inside a compaction drops the lock and the tree.
LEMMA CompactCloseInv ==
    ASSUME Inv, NEW t \in Threads, CompactClose(t)
    PROVE  Inv'
<1> USE DatabaseAssumption DEF At
<1>1. /\ Goto(t, "closed") /\ tx[t].pc = "compacting"
      /\ UNCHANGED <<files, path, temp, mutex, open, stranded>>
      /\ locked' = FALSE /\ tree' = Empty
  BY DEF CompactClose, disk
<1>2. TypeOK /\ Empty \in Map /\ mutex = t
  BY <1>1 DEF Inv, Exclusive, Holding, Empty, Map
<1>3. /\ tx' \in [Threads -> TxType] /\ tx'[t].pc = "closed"
      /\ \A u \in Threads \ {t} : tx'[u] = tx[u]
  BY <1>1, <1>2, Goes
<1>4. TypeOK'
  BY <1>1, <1>2, <1>3, ZenonT(30) DEF TypeOK
<1>5. Exclusive'
  BY <1>1, <1>3 DEF Inv, Exclusive, Holding
<1>6. RootsValid' /\ ReadersPinned'
  BY <1>1, <1>3 DEF Inv, RootsValid, ReadersPinned, Rooted
<1>7. \A u \in Threads : InSnapshot(u)' <=> InSnapshot(u)
  BY <1>1, <1>3 DEF InSnapshot
<1>8. \A u \in Threads : tx'[u].pc # "committing"
  BY <1>1, <1>2, <1>3, ZenonT(30) DEF Inv, Exclusive, Holding
<1>9. CompactsAlone' /\ CommitsCurrent'
  BY <1>1, <1>3, <1>7, <1>8, ZenonT(30) DEF Inv, CompactsAlone, CommitsCurrent
<1>10. SnapshotsCounted'
  BY <1>1, <1>7 DEF Inv, SnapshotsCounted
<1> QED
  BY <1>4, <1>5, <1>6, <1>9, <1>10 DEF Inv

\* The path is switched while no thread has a root.
LEMMA CompactReplaceInv ==
    ASSUME Inv, NEW t \in Threads, CompactReplace(t)
    PROVE  Inv'
<1> USE DatabaseAssumption DEF At
<1>1. /\ tx' = [tx EXCEPT ![t] = NoTx] /\ tx[t].pc = "closed"
      /\ path' = path + 1 /\ files' = [files EXCEPT ![path + 1] = <<temp>>]
      /\ temp' = NoTemp /\ mutex' = Free /\ UNCHANGED <<locked, tree, open, stranded>>
  BY DEF CompactReplace
<1>2. TypeOK /\ mutex = t /\ path < MaxFiles /\ temp \in Map
  BY <1>1 DEF Inv, Exclusive, Holding, CompactsAlone
<1>3. tx' \in [Threads -> TxType] /\ tx'[t] = NoTx /\ \A u \in Threads \ {t} : tx'[u] = tx[u]
  BY <1>1, <1>2, NoTxTyped, OneMoves, ZenonT(30)
<1>4. path' \in 1..MaxFiles /\ <<temp>> \in Seq(Map)
  BY <1>1, <1>2 DEF TypeOK
<1>5. files' \in [1..MaxFiles -> Seq(Map)] /\ files'[path'] = <<temp>>
  BY <1>1, <1>2, <1>4 DEF TypeOK
<1>6. TypeOK'
  BY <1>1, <1>2, <1>3, <1>4, <1>5 DEF TypeOK
<1>7. tx'[t].pc = "idle"
  BY <1>3 DEF NoTx
<1>8. Exclusive'
  BY <1>1, <1>2, <1>3, <1>7 DEF Inv, Exclusive, Holding
<1>9. \A u \in Threads : tx'[u].pc = "idle"
  <2>1. \A u \in Threads : ~InSnapshot(u)
    BY <1>1 DEF Inv, CompactsAlone
  <2>2. \A u \in Threads \ {t} : tx[u].pc \notin Holding
    BY <1>2 DEF Inv, Exclusive
  <2>3. \A u \in Threads : tx[u] \in TxType
    BY <1>2 DEF TypeOK
  <2>4. \A u \in Threads \ {t} : tx[u].pc = "idle"
    BY <2>1, <2>2, <2>3 DEF InSnapshot, Holding, TxType
  <2> QED
    BY <1>3, <1>7, <2>4
<1>10. RootsValid' /\ ReadersPinned' /\ CompactsAlone' /\ CommitsCurrent'
  BY <1>5, <1>9 DEF RootsValid, ReadersPinned, CompactsAlone, CommitsCurrent, Rooted
<1>11. \A u \in Threads : InSnapshot(u)' <=> InSnapshot(u)
  BY <1>1, <1>3, <1>7 DEF InSnapshot
<1>12. SnapshotsCounted'
  BY <1>1, <1>11 DEF Inv, SnapshotsCounted
<1> QED
  BY <1>6, <1>8, <1>10, <1>12 DEF Inv

\* A plain write is staged outside the critical sections, a plain commit and
\* one of another process append a version: no thread moves.
LEMMA PlainInv ==
    ASSUME Inv,
           \/ PlainCommit
           \/ \E k \in Keys, v \in Values \cup {NoValue} : Stage(k, v) \/ OtherCommit(k, v)
    PROVE  Inv'
<1> USE DatabaseAssumption DEF At
<1>1. UNCHANGED <<path, temp, mutex, open, stranded, tx>>
  BY ZenonT(30) DEF PlainCommit, Stage, OtherCommit, disk
<1>2. TypeOK /\ Current \in Map /\ Empty \in Map /\ files[path] \in Seq(Map)
  BY CurrentIsMap DEF Inv, TypeOK, Empty, Map
<1>3. /\ files' \in [1..MaxFiles -> Seq(Map)]
      /\ Len(files'[path]) \in Nat /\ Len(files[path]) \in Nat
      /\ Len(files'[path]) >= Len(files[path])
      /\ locked' \in BOOLEAN /\ tree' \in Map
      /\ \A t \in Threads : tx[t].pc # "committing"
  <2>1. CASE PlainCommit
    <3>1. tree \in Map /\ Publish(tree) /\ locked' = FALSE /\ tree' = Empty /\ Quiet
      BY <1>2, <2>1 DEF PlainCommit, TypeOK
    <3>2. /\ files' \in [1..MaxFiles -> Seq(Map)]
          /\ Len(files'[path]) = Len(files[path]) + 1
      BY <1>1, <1>2, <3>1, PublishAppends
    <3>3. \A t \in Threads : tx[t].pc # "committing"
      BY <3>1 DEF Quiet
    <3>4. /\ Len(files[path]) \in Nat /\ Len(files'[path]) \in Nat
          /\ Len(files'[path]) >= Len(files[path])
      BY <1>2, <3>2
    <3> QED
      BY <1>2, <3>1, <3>2, <3>3, <3>4, ZenonT(30)
  <2>2. ASSUME NEW k \in Keys, NEW v \in Values \cup {NoValue}, Stage(k, v)
        PROVE  /\ files' = files /\ locked' \in BOOLEAN /\ tree' \in Map
               /\ \A t \in Threads : tx[t].pc # "committing"
    <3>1. PICK m \in Map : tree' = [m EXCEPT ![k] = v]
      BY <1>2, <2>2, ZenonT(30) DEF Stage, TypeOK
    <3>2. tree' \in Map
      BY <3>1, ZenonT(30) DEF Map
    <3> QED
      BY <2>2, <3>2 DEF Stage, Quiet, disk
  <2>3. ASSUME NEW k \in Keys, NEW v \in Values \cup {NoValue}, OtherCommit(k, v)
        PROVE  /\ files' \in [1..MaxFiles -> Seq(Map)]
               /\ Len(files'[path]) \in Nat
               /\ Len(files'[path]) >= Len(files[path])
               /\ locked' \in BOOLEAN /\ tree' \in Map
               /\ \A t \in Threads : tx[t].pc # "committing"
    <3>1. [Current EXCEPT ![k] = v] \in Map
      BY <1>2 DEF Map
    <3>2. ~locked /\ UNCHANGED <<locked, tree>> /\ Publish([Current EXCEPT ![k] = v])
      BY <2>3 DEF OtherCommit
    <3>3. locked' \in BOOLEAN /\ tree' \in Map /\ \A t \in Threads : tx[t].pc # "committing"
      BY <1>2, <3>2 DEF TypeOK, Inv, CommitsCurrent
    <3> QED
      BY <1>1, <1>2, <3>1, <3>2, <3>3, PublishAppends
  <2> QED
    BY <1>2, <2>1, <2>2, <2>3 DEF TypeOK
<1>4. TypeOK'
  BY <1>1, <1>2, <1>3 DEF TypeOK
<1>5. Exclusive' /\ ReadersPinned' /\ CommitsCurrent'
  BY <1>1, <1>3 DEF Inv, Exclusive, ReadersPinned, CommitsCurrent
<1>6. RootsValid'
  <2>1. \A v \in 1..Len(files[path]) : v \in 1..Len(files'[path])
    BY <1>3
  <2>2. Len(files'[path]) > 0
    BY <1>3 DEF Inv, RootsValid
  <2> QED
    BY <1>1, <2>1, <2>2 DEF Inv, RootsValid
<1>7. \A u \in Threads : InSnapshot(u)' <=> InSnapshot(u)
  BY <1>1 DEF InSnapshot
<1>8. CompactsAlone' /\ SnapshotsCounted'
  BY <1>1, <1>7 DEF Inv, CompactsAlone, SnapshotsCounted
<1> QED
  BY <1>4, <1>5, <1>6, <1>8 DEF Inv

\* A restarted process has no thread in a call.
LEMMA CrashInv == Inv /\ Crash => Inv'
<1> SUFFICES ASSUME Inv, Crash PROVE Inv'
  OBVIOUS
<1>1. /\ UNCHANGED <<files, path, temp>> /\ tx' = [t \in Threads |-> NoTx]
      /\ mutex' = Free /\ locked' = FALSE /\ tree' = Empty /\ open' = 0 /\ stranded' = 0
  BY DEF Crash, disk
<1>2. TypeOK'
  BY <1>1, NoTxTyped, ZenonT(30) DEF Inv, TypeOK, Empty, Map
<1>3. \A t \in Threads : tx'[t].pc = "idle"
  BY <1>1, ZenonT(30) DEF NoTx
<1>4. /\ Exclusive' /\ RootsValid' /\ ReadersPinned' /\ CompactsAlone' /\ CommitsCurrent'
  BY <1>1, <1>3, DatabaseAssumption
     DEF Inv, Exclusive, RootsValid, ReadersPinned, CompactsAlone, CommitsCurrent, At, Holding, Rooted
<1>5. InSnapshots' = {}
  BY <1>3 DEF InSnapshots, InSnapshot
<1>6. SnapshotsCounted'
  <2>1. Cardinality(InSnapshots') = 0
    BY <1>5, FS_EmptySet, ZenonT(30)
  <2>2. open' = Cardinality(InSnapshots') + stranded'
    BY <1>1, <2>1
  <2> QED
    BY <2>2, ZenonT(30) DEF SnapshotsCounted, InSnapshots
<1> QED
  BY <1>2, <1>4, <1>6 DEF Inv

\* No step breaks the invariant.
LEMMA NextInv == Inv /\ [Next]_vars => Inv'
<1> SUFFICES ASSUME Inv, [Next]_vars PROVE Inv'
  OBVIOUS
<1>1. ASSUME NEW t \in Threads, Step(t)
      PROVE  Inv'
  BY <1>1, SnapshotRootInv, SnapshotCountInv, SnapshotOpenInv, LeaveSnapshotInv, SnapshotRaisesInv, BodyInv,
     TxLockInv, TxEndInv, CompactCopyInv, CompactCloseInv, CompactReplaceInv, ZenonT(30) DEF Step
<1>2. CASE UNCHANGED vars
  BY <1>2 DEF vars, Inv, TypeOK, Exclusive, RootsValid, ReadersPinned, CompactsAlone,
     CommitsCurrent, SnapshotsCounted, InSnapshot, Current, At
<1> QED
  BY <1>1, <1>2, PlainInv, CrashInv, CompactFailsInv DEF Next

\* The invariant of the handle holds with any staging, other processes and
\* crashes.
THEOREM Invariance == Spec => []Inv
  BY InitInv, NextInv, PTL DEF Spec

\* Every state of the handle is well typed.
THEOREM TypeCorrect == Spec => []TypeOK
<1>1. Inv => TypeOK
  BY DEF Inv
<1> QED
  BY <1>1, Invariance, PTL

\* The count that compaction tests is the number of snapshots that are not
\* closed yet and of those whose constructor raised, after every abort,
\* conflict, failure to open and restart: it lets no compaction in under a
\* reader, and only a constructor that raised keeps it out without one.
THEOREM CountIsExact == Spec => []SnapshotsCounted
<1>1. Inv => SnapshotsCounted
  BY DEF Inv
<1> QED
  BY <1>1, Invariance, PTL

\* A reader always has the file its root address belongs to open.
THEOREM ReadersKeepTheirFile == Spec => []SnapshotPinned
<1>1. Inv => SnapshotPinned
  BY DEF Inv, SnapshotPinned, RootsValid, ReadersPinned, Rooted
<1> QED
  BY <1>1, Invariance, PTL

\* A transaction publishes only over the values of its snapshot.
THEOREM NoLostUpdate == Spec => FirstCommitterWins
<1>1. ASSUME Inv, [Next]_vars
      PROVE  [\A t \in Threads : TxPublish(t) =>
                 \A k \in Keys : IF k \in Written(t) THEN Current[k] = Base(t)[k]
                                                     ELSE Current'[k] = Current[k]]_vars
  <2> SUFFICES ASSUME NEW t \in Threads, TxPublish(t), NEW k \in Keys
               PROVE  IF k \in Written(t) THEN Current[k] = Base(t)[k]
                                          ELSE Current'[k] = Current[k]
    OBVIOUS
  <2>1. TypeOK /\ tree = Current /\ tree \in Map
    BY <1>1 DEF TxPublish, Inv, CommitsCurrent, TypeOK
  <2>2. Current' = Overlaid(t, tree)
    BY <2>1, OverlaidIsMap, PublishAppends DEF TxPublish
  <2> QED
    BY <2>1, <2>2 DEF TxPublish, Conflicts, Overlaid
<1> QED
  BY <1>1, Invariance, PTL DEF Spec, FirstCommitterWins

-----------------------------------------------------------------------------
(* What a snapshot was given stays what it was given.                      *)

\* The file the path names, with every version it had.
Kept ==
    /\ path' = path
    /\ Len(files[path]) \in Nat /\ Len(files'[path]) \in Nat
    /\ Len(files'[path]) >= Len(files[path])
    /\ \A v \in 1..Len(files[path]) : files'[path][v] = files[path][v]

\* A step keeps every version, unless it replaces the file; and then no
\* thread has a snapshot.
LEMMA VersionsKept ==
    ASSUME Inv, [Next]_vars
    PROVE  \/ Kept
           \/ /\ \E t \in Threads : CompactReplace(t)
              /\ \A t \in Threads : ~InSnapshot(t)
<1>1. TypeOK /\ files[path] \in Seq(Map) /\ Current \in Map
  BY CurrentIsMap DEF Inv, TypeOK
<1>2. UNCHANGED <<files, path>> => Kept
  BY <1>1 DEF Kept
<1>3. ASSUME NEW m \in Map, Publish(m), path' = path
      PROVE  Kept
  BY <1>1, <1>3, PublishAppends DEF Kept
<1>4. ASSUME NEW t \in Threads, Step(t), ~CompactReplace(t)
      PROVE  Kept
  <2>1. CASE TxPublish(t)
    BY <1>1, <1>3, <2>1, OverlaidIsMap DEF TxPublish, TypeOK
  <2>2. CASE ~TxPublish(t)
    <3>1. UNCHANGED <<files, path>>
      BY <1>4, <2>2 DEF Step, SnapshotRoot, SnapshotCount, SnapshotOpen, SnapshotFails, SnapshotRaises,
         Close, TxSet, TxDelete, Finish, TxLock, TxConflict, CompactCopy, CompactClose, disk
    <3> QED
      BY <1>2, <3>1
  <2> QED
    BY <2>1, <2>2
<1>5. ASSUME NEW t \in Threads, CompactReplace(t)
      PROVE  \A u \in Threads : ~InSnapshot(u)
  BY <1>5 DEF CompactReplace, Inv, CompactsAlone, At
<1>6. CASE PlainCommit
  BY <1>1, <1>3, <1>6 DEF PlainCommit, TypeOK
<1>7. ASSUME NEW k \in Keys, NEW v \in Values \cup {NoValue}, Stage(k, v) \/ OtherCommit(k, v)
      PROVE  Kept
  <2>1. CASE Stage(k, v)
    BY <1>2, <2>1 DEF Stage, disk
  <2>2. CASE OtherCommit(k, v)
    <3>1. [Current EXCEPT ![k] = v] \in Map
      BY <1>1 DEF Map
    <3> QED
      BY <1>3, <2>2, <3>1 DEF OtherCommit
  <2> QED
    BY <1>7, <2>1, <2>2
<1>8. CASE Crash \/ (\E t \in Threads : CompactFails(t)) \/ UNCHANGED vars
  BY <1>2, <1>8, ZenonT(30) DEF Crash, CompactFails, disk, vars
<1> QED
  BY <1>4, <1>5, <1>6, <1>7, <1>8 DEF Next

\* A thread in a snapshot has just counted its keys, or had the snapshot
\* before, with the same root and count.
LEMMA SnapshotKept ==
    ASSUME Inv, [Next]_vars, NEW t \in Threads, InSnapshot(t)'
    PROVE  \/ SnapshotCount(t)
           \/ /\ InSnapshot(t)
              /\ tx'[t].file = tx[t].file /\ tx'[t].ver = tx[t].ver /\ tx'[t].size = tx[t].size
<1>1. TypeOK /\ tx[t] \in TxType
  BY DEF Inv, TypeOK
<1>2. ASSUME tx'[t] = tx[t]
      PROVE  InSnapshot(t)
  BY <1>2, ZenonT(30) DEF InSnapshot
<1>3. ASSUME NEW u \in Threads, u # t, Step(u)
      PROVE  tx'[t] = tx[t]
  <2>1. CASE \/ SnapshotRoot(u) \/ SnapshotFails(u) \/ SnapshotRaises(u) \/ Close(u)
             \/ CompactReplace(u)
    BY <1>1, <1>3, <2>1 DEF SnapshotRoot, SnapshotFails, SnapshotRaises, Close, CompactReplace, TypeOK
  <2>2. CASE SnapshotCount(u) \/ SnapshotOpen(u)
    BY <1>1, <1>3, <2>2 DEF SnapshotCount, SnapshotOpen, TypeOK
  <2>3. CASE (\E k \in Keys, v \in Values : TxSet(u, k, v)) \/ \E k \in Keys : TxDelete(u, k)
    BY <1>1, <1>3, <2>3 DEF TxSet, TxDelete, TypeOK
  <2>4. CASE Finish(u) \/ TxLock(u) \/ TxConflict(u) \/ TxPublish(u)
    BY <1>1, <1>3, <2>4 DEF Finish, TxLock, TxConflict, TxPublish, Leave, Goto, TypeOK
  <2>5. CASE CompactCopy(u) \/ CompactClose(u)
    BY <1>1, <1>3, <2>5 DEF CompactCopy, CompactClose, Goto, TypeOK
  <2> QED
    BY <1>3, <2>1, <2>2, <2>3, <2>4, <2>5 DEF Step
<1>5. ASSUME NEW w \in {"committing", "closing"}, Goto(t, w)
      PROVE  tx'[t].file = tx[t].file /\ tx'[t].ver = tx[t].ver /\ tx'[t].size = tx[t].size
  BY <1>1, <1>5, Goes, ZenonT(30)
<1>6. ASSUME Step(t), ~SnapshotCount(t)
      PROVE  /\ InSnapshot(t)
             /\ tx'[t].file = tx[t].file /\ tx'[t].ver = tx[t].ver /\ tx'[t].size = tx[t].size
  <2>1. CASE SnapshotRoot(t)
    <3>1. tx'[t].pc = "rooted"
      BY <1>1, <2>1 DEF SnapshotRoot, TypeOK, NoTx
    <3> QED
      BY <3>1 DEF InSnapshot
  <2>2. CASE SnapshotFails(t) \/ SnapshotRaises(t) \/ Close(t) \/ CompactReplace(t)
    <3>1. tx'[t].pc = "idle"
      BY <1>1, <2>2 DEF SnapshotFails, SnapshotRaises, Close, CompactReplace, TypeOK, NoTx
    <3> QED
      BY <3>1 DEF InSnapshot
  <2>3. CASE SnapshotOpen(t)
    <3>1. tx' = [tx EXCEPT ![t].pc = "open", ![t].reader = path] /\ tx[t].pc = "counted"
      BY <2>3 DEF SnapshotOpen, At
    <3> QED
      BY <1>1, <3>1 DEF TypeOK, TxType, InSnapshot
  <2>4. CASE (\E k \in Keys, v \in Values : TxSet(t, k, v)) \/ \E k \in Keys : TxDelete(t, k)
    <3>1. PICK k \in Keys, w \in Values \cup {Deleted} : tx' = [tx EXCEPT ![t].overlay[k] = w] /\ tx[t].pc = "open"
      BY <2>4, ZenonT(30) DEF TxSet, TxDelete, At
    <3> QED
      BY <1>1, <3>1 DEF TypeOK, TxType, InSnapshot
  <2>5. CASE TxConflict(t) \/ TxPublish(t)
    BY <1>5, <2>5 DEF TxConflict, TxPublish, Leave, At, InSnapshot
  <2>8. CASE Finish(t)
    <3>1. tx[t].pc = "open"
      BY <2>8 DEF Finish, At
    <3> QED
      BY <1>1, <2>8, <3>1, FinishIs, ZenonT(30) DEF InSnapshot
  <2>6. CASE TxLock(t)
    BY <1>5, <2>6 DEF TxLock, At, InSnapshot
  <2>7. CASE CompactCopy(t) \/ CompactClose(t)
    <3>1. tx'[t].pc \in {"compacting", "closed"}
      <4>1. Goto(t, "compacting") \/ Goto(t, "closed")
        BY <2>7, ZenonT(30) DEF CompactCopy, CompactClose
      <4> QED
        BY <1>1, <4>1, Goes, ZenonT(30)
    <3> QED
      BY <3>1 DEF InSnapshot
  <2> QED
    BY <1>6, <2>1, <2>2, <2>3, <2>4, <2>5, <2>6, <2>7, <2>8, ZenonT(30) DEF Step
<1>7. CASE Crash
  BY <1>7 DEF Crash, NoTx, InSnapshot
<1>8. CASE ~Crash /\ ~\E u \in Threads : Step(u)
  <2>1. tx' = tx
    BY <1>8, ZenonT(30) DEF Next, Stage, OtherCommit, PlainCommit, CompactFails, vars
  <2> QED
    BY <1>2, <2>1
<1> QED
  BY <1>2, <1>3, <1>6, <1>7, <1>8

\* Beside other processes too, the count of a snapshot is that of a version
\* not older than its root.
THEOREM CountIsRecent == Spec => []SnapshotCountRecent
<1>1. Init => SnapshotCountRecent
  BY DEF Init, SnapshotCountRecent, InSnapshot, NoTx
<1>2. ASSUME Inv, SnapshotCountRecent, [Next]_vars
      PROVE  SnapshotCountRecent'
  <2> SUFFICES ASSUME NEW t \in Threads, InSnapshot(t)'
               PROVE  \E v \in tx'[t].ver..Len(files'[tx'[t].file]) :
                          tx'[t].size = Size(files'[tx'[t].file][v])
    BY ZenonT(30) DEF SnapshotCountRecent, Size
  <2>1. TypeOK /\ tx[t] \in TxType /\ files[path] \in Seq(Map)
    BY <1>2, ZenonT(30) DEF Inv, TypeOK
  <2>2. CASE SnapshotCount(t)
    <3>1. /\ tx'[t].file = tx[t].file /\ tx'[t].ver = tx[t].ver
          /\ tx'[t].size = Size(Current) /\ files' = files /\ tx[t].pc = "rooted"
      BY <2>1, <2>2 DEF SnapshotCount, TypeOK, TxType, disk, At
    <3>2. tx[t].file = path /\ tx[t].ver \in 1..Len(files[path]) /\ Len(files[path]) \in Nat
      BY <1>2, <2>1, <3>1 DEF Inv, RootsValid, Rooted
    <3>3. Len(files[path]) \in tx[t].ver..Len(files[path])
      BY <3>2
    <3> QED
      BY <3>1, <3>2, <3>3 DEF Current
  <2>3. CASE ~SnapshotCount(t)
    <3>1. /\ InSnapshot(t)
          /\ tx'[t].file = tx[t].file /\ tx'[t].ver = tx[t].ver /\ tx'[t].size = tx[t].size
      BY <1>2, <2>3, SnapshotKept
    <3>2. Kept
      BY <1>2, <3>1, VersionsKept
    <3>3. tx[t].file = path /\ tx[t].ver \in 1..Len(files[path])
      BY <1>2, <3>1 DEF Inv, RootsValid, Rooted, InSnapshot
    <3>4. PICK v \in tx[t].ver..Len(files[path]) : tx[t].size = Size(files[path][v])
      BY <1>2, <3>1, <3>3 DEF SnapshotCountRecent
    <3>5. v \in 1..Len(files[path]) /\ v \in tx[t].ver..Len(files'[path])
      BY <3>2, <3>3, <3>4 DEF Kept
    <3>6. files'[path][v] = files[path][v]
      BY <3>2, <3>5, ZenonT(30) DEF Kept
    <3> QED
      BY <3>1, <3>3, <3>4, <3>5, <3>6, ZenonT(30)
  <2> QED
    BY <2>2, <2>3
<1> QED
  BY <1>1, <1>2, Invariance, PTL DEF Spec

\* The lock is that of a commit; the temporary file is that of a compaction
\* and holds the committed map; a root is the newest version until the
\* keys are counted, and the count is that of the root.
Alone ==
    /\ locked => \E t \in Threads : At(t, "committing")
    /\ temp # NoTemp => \E t \in Threads : tx[t].pc \in {"compacting", "closed"}
    /\ \A t \in Threads :
          /\ tx[t].pc \in {"compacting", "closed"} => temp = Current
          /\ At(t, "rooted") => tx[t].ver = Len(files[path])
    /\ SnapshotConsistent

\* Without the other features every step is one of a thread: nothing is
\* staged outside a commit.
LEMMA AloneSteps ==
    ASSUME Features = {}, Inv, Alone, Next
    PROVE  \E t \in Threads : Step(t)
<1>1. ~PlainCommit
  <2>1. ASSUME locked PROVE ~Quiet
    BY <2>1 DEF Alone, Quiet, At
  <2> QED
    BY <2>1 DEF PlainCommit
<1> QED
  BY <1>1 DEF Next, Stage, OtherCommit, Crash, CompactFails

\* Every step of a thread keeps the handle's private state in order.
LEMMA AloneInv ==
    ASSUME Inv, Alone, NEW t \in Threads, Step(t)
    PROVE  Alone'
<1> USE DatabaseAssumption DEF At
<1>1. TypeOK /\ files[path] \in Seq(Map) /\ Current \in Map /\ tx[t] \in TxType
      /\ \A u \in Threads : tx[u] \in TxType
  BY CurrentIsMap DEF Inv, TypeOK
<1>2. \A u \in Threads \ {t} : tx'[u] = tx[u]
  BY <1>1, ZenonT(30) DEF Step, SnapshotRoot, SnapshotCount, SnapshotOpen, SnapshotFails, SnapshotRaises,
     Close, TxSet, TxDelete, Finish, TxLock, TxConflict, TxPublish, CompactCopy, CompactClose,
     CompactReplace, Leave, Goto, TypeOK
<1>3. SnapshotConsistent'
  <2> SUFFICES ASSUME NEW u \in Threads, InSnapshot(u)'
               PROVE  tx'[u].size = Size(files'[tx'[u].file][tx'[u].ver])
    BY DEF SnapshotConsistent, Base, Size
  <2>1. CASE SnapshotCount(u)
    <3>1. /\ tx'[u].file = tx[u].file /\ tx'[u].ver = tx[u].ver
          /\ tx'[u].size = Size(Current) /\ files' = files /\ tx[u].pc = "rooted"
      BY <1>1, <2>1, ZenonT(30) DEF SnapshotCount, TypeOK, TxType, disk
    <3>2. tx[u].file = path /\ tx[u].ver = Len(files[path])
      BY <3>1 DEF Inv, RootsValid, Rooted, Alone
    <3> QED
      BY <3>1, <3>2 DEF Current
  <2>2. CASE ~SnapshotCount(u)
    <3>1. /\ InSnapshot(u)
          /\ tx'[u].file = tx[u].file /\ tx'[u].ver = tx[u].ver /\ tx'[u].size = tx[u].size
      BY <2>2, SnapshotKept, ZenonT(30) DEF Next
    <3>2. Kept
      BY <3>1, VersionsKept, ZenonT(30) DEF Next
    <3>3. tx[u].file = path /\ tx[u].ver \in 1..Len(files[path])
      BY <3>1 DEF Inv, RootsValid, Rooted, InSnapshot
    <3>4. files'[path][tx[u].ver] = files[path][tx[u].ver]
      BY <3>2, <3>3, ZenonT(30) DEF Kept
    <3>5. tx[u].size = Size(files[path][tx[u].ver])
      BY <3>1, <3>3, ZenonT(30) DEF Alone, SnapshotConsistent, Base
    <3> QED
      BY <3>1, <3>3, <3>4, <3>5, ZenonT(30)
  <2> QED
    BY <2>1, <2>2, ZenonT(30)
<1>4. CASE SnapshotRoot(t)
  <2>1. tx'[t].pc = "rooted" /\ tx'[t].ver = Len(files[path])
    BY <1>1, <1>4 DEF SnapshotRoot, TypeOK, NoTx
  <2> QED
    BY <1>2, <1>3, <1>4, <2>1 DEF SnapshotRoot, disk, Alone, Current
<1>5. CASE \/ SnapshotCount(t) \/ SnapshotOpen(t) \/ SnapshotFails(t) \/ SnapshotRaises(t)
           \/ Close(t) \/ Finish(t)
           \/ \E k \in Keys, v \in Values : TxSet(t, k, v)
           \/ \E k \in Keys : TxDelete(t, k)
  <2>1. /\ UNCHANGED <<files, path, temp, locked>>
        /\ tx[t].pc \notin {"committing", "compacting", "closed"}
    BY <1>5, ZenonT(30) DEF SnapshotCount, SnapshotOpen, SnapshotFails, SnapshotRaises, Close, Finish,
       TxSet, TxDelete, disk
  <2>2. tx'[t].pc \notin {"rooted", "compacting", "closed"}
    <3>1. CASE SnapshotCount(t) \/ SnapshotOpen(t) \/ Finish(t)
      <4>1. CASE SnapshotCount(t)
        BY <1>1, <4>1 DEF SnapshotCount, TypeOK, TxType
      <4>2. CASE SnapshotOpen(t)
        BY <1>1, <4>2 DEF SnapshotOpen, TypeOK, TxType
      <4>3. CASE Finish(t)
        BY <1>1, <4>3, FinishIs, ZenonT(30)
      <4> QED
        BY <3>1, <4>1, <4>2, <4>3
    <3>2. CASE SnapshotFails(t) \/ SnapshotRaises(t) \/ Close(t)
      BY <1>1, <3>2 DEF SnapshotFails, SnapshotRaises, Close, TypeOK, NoTx
    <3>3. CASE (\E k \in Keys, v \in Values : TxSet(t, k, v)) \/ \E k \in Keys : TxDelete(t, k)
      <4>1. PICK k \in Keys, w \in Values \cup {Deleted} : tx' = [tx EXCEPT ![t].overlay[k] = w] /\ tx[t].pc = "open"
        BY <3>3, ZenonT(30) DEF TxSet, TxDelete
      <4> QED
        BY <1>1, <4>1, ZenonT(30) DEF TypeOK, TxType
    <3> QED
      BY <1>5, <3>1, <3>2, <3>3, ZenonT(30)
  <2> QED
    BY <1>2, <1>3, <2>1, <2>2 DEF Alone, Current
<1>6. CASE TxLock(t)
  <2>1. tx'[t].pc = "committing"
    BY <1>1, <1>6, Goes, ZenonT(30) DEF TxLock
  <2> QED
    BY <1>2, <1>3, <1>6, <2>1 DEF TxLock, disk, Alone, Current
<1>7. CASE TxConflict(t) \/ TxPublish(t)
  <2>1. /\ locked' = FALSE /\ temp' = temp /\ tx[t].pc = "committing" /\ Goto(t, "closing")
    BY <1>7, ZenonT(30) DEF TxConflict, TxPublish, Leave, disk
  <2>2. tx'[t].pc = "closing" /\ mutex = t
    BY <1>1, <2>1, Goes, ZenonT(30) DEF Inv, Exclusive, Holding
  <2>3. \A u \in Threads : tx[u].pc \notin {"rooted", "compacting", "closed"}
                             /\ tx'[u].pc \notin {"rooted", "compacting", "closed"}
    BY <1>2, <2>1, <2>2, ZenonT(30) DEF Inv, Exclusive, Holding
  <2> QED
    BY <1>3, <2>1, <2>3, ZenonT(30) DEF Alone
<1>8. CASE CompactCopy(t)
  <2>1. /\ UNCHANGED <<files, path, locked>> /\ mutex = Free /\ tx[t].pc = "idle"
        /\ Goto(t, "compacting")
    BY <1>8 DEF CompactCopy
  <2>2. \A u \in Threads : tx[u].pc \notin Holding
    BY <2>1 DEF Inv, Exclusive
  <2>3. ~locked /\ temp = NoTemp
    BY <2>2, ZenonT(30) DEF Alone, Holding
  <2>4. temp' = [k \in Keys |-> IF Current[k] # NoValue THEN Current[k] ELSE Empty[k]]
    BY <1>8, <2>3 DEF CompactCopy, Copied, Items, Leftover
  <2>5. temp' = Current
    BY <1>1, <2>4, ZenonT(30) DEF Map, Empty
  <2>6. tx'[t].pc = "compacting"
    BY <1>1, <2>1, Goes, ZenonT(30)
  <2> QED
    BY <1>2, <1>3, <2>1, <2>2, <2>3, <2>5, <2>6, ZenonT(30) DEF Alone, Current, Holding
<1>9. CASE CompactClose(t)
  <2>1. /\ UNCHANGED <<files, path, temp>> /\ locked' = FALSE /\ tx[t].pc = "compacting"
        /\ Goto(t, "closed")
    BY <1>9, ZenonT(30) DEF CompactClose, disk
  <2>2. tx'[t].pc = "closed"
    BY <1>1, <2>1, Goes, ZenonT(30)
  <2> QED
    BY <1>2, <1>3, <2>1, <2>2, ZenonT(30) DEF Alone, Current
<1>10. CASE CompactReplace(t)
  <2>1. temp' = NoTemp /\ UNCHANGED locked /\ tx[t].pc = "closed" /\ tx'[t].pc = "idle"
    BY <1>1, <1>10 DEF CompactReplace, TypeOK, NoTx
  <2>2. \A u \in Threads : tx'[u].pc \notin Holding /\ tx[u].pc # "committing"
    BY <1>2, <2>1 DEF Inv, Exclusive, Holding
  <2> QED
    BY <1>3, <2>1, <2>2, ZenonT(30) DEF Alone, Holding
<1> QED
  BY <1>4, <1>5, <1>6, <1>7, <1>8, <1>9, <1>10 DEF Step

\* A handle alone on its file stays in order.
THEOREM AloneInvariance == Features = {} /\ Spec => [](Inv /\ Alone)
<1> SUFFICES ASSUME Features = {} PROVE Spec => [](Inv /\ Alone)
  OBVIOUS
<1>1. Init => Alone
  BY DEF Init, Alone, NoTx, At, SnapshotConsistent, InSnapshot
<1>2. ASSUME Inv, Alone, [Next]_vars
      PROVE  Alone'
  <2>1. CASE Next
    BY <1>2, <2>1, AloneSteps, AloneInv, ZenonT(30)
  <2>2. CASE UNCHANGED vars
    BY <1>2, <2>2 DEF vars, Alone, At, Current, SnapshotConsistent, InSnapshot, Base, Size
  <2> QED
    BY <1>2, <2>1, <2>2
<1> QED
  BY <1>1, <1>2, Invariance, PTL DEF Spec

\* A snapshot's len() is that of the version it reads.
THEOREM SnapshotIsOneVersion == Features = {} /\ Spec => []SnapshotConsistent
<1>1. Alone => SnapshotConsistent
  BY DEF Alone
<1> QED
  BY <1>1, AloneInvariance, PTL

\* Compaction loses nothing and brings nothing back.
THEOREM CompactionIsFaithful == Features = {} /\ Spec => CompactionPreserves
<1>1. ASSUME Inv, Alone, [Next]_vars
      PROVE  [path' # path => Current' = Current]_vars
  <2> SUFFICES ASSUME path' # path
               PROVE  Current' = Current
    OBVIOUS
  <2>1. PICK t \in Threads : CompactReplace(t)
    BY <1>1, VersionsKept, ZenonT(30) DEF Kept
  <2>2. /\ path' = path + 1 /\ files' = [files EXCEPT ![path + 1] = <<temp>>]
        /\ temp = Current /\ path < MaxFiles
    BY <1>1, <2>1, ZenonT(30) DEF CompactReplace, At, Alone, Inv, CompactsAlone
  <2>3. path \in 1..MaxFiles /\ files \in [1..MaxFiles -> Seq(Map)]
    BY <1>1, ZenonT(30) DEF Inv, TypeOK
  <2>4. path + 1 \in 1..MaxFiles
    BY <2>2, <2>3, DatabaseAssumption
  <2>5. files'[path'] = <<temp>>
    BY <2>2, <2>3, <2>4, ZenonT(30)
  <2>6. Len(<<temp>>) = 1 /\ <<temp>>[1] = temp
    OBVIOUS
  <2> QED
    BY <2>2, <2>5, <2>6, ZenonT(30) DEF Current
<1> QED
  BY <1>1, AloneInvariance, PTL DEF Spec, CompactionPreserves

-----------------------------------------------------------------------------
(* The handle implements SnapshotIsolation.                                *)

Active == {"rooted", "counted", "open", "committing"}

\* A snapshot of version v with some writes.
Seen(v, w) == [active |-> TRUE, base |-> files[path][v], size |-> Size(files[path][v]), writes |-> w]

\* The parts of what a thread sees.
LEMMA SeenIs ==
    \A v, w : /\ Seen(v, w).active /\ Seen(v, w).writes = w
             /\ Seen(v, w).base = files[path][v] /\ Seen(v, w).size = Size(files[path][v])
BY DEF Seen

\* The same of what thread t sees of its own.
LEMMA SeenParts ==
    \A s, v, w : s = Seen(v, w) => s.active /\ s.writes = w /\ s.base = files[path][v]
BY SeenIs

\* A thread without a transaction.
LEMMA NotInactive == ~Isolation!Inactive.active
BY DEF Isolation!Inactive

\* What a write does to what a thread sees.
Overwrites(s, u, k, x) == u = [s EXCEPT !.writes[k] = x]

\* A write to the overlay is such a write.
LEMMA SeenWrites ==
    ASSUME NEW v, NEW w, NEW k, NEW x, NEW s, NEW u,
           s = Seen(v, w), u = Seen(v, [w EXCEPT ![k] = x])
    PROVE  Overwrites(s, u, k, x)
<1>1. s.writes = w
  BY SeenIs
<1>2. u = [s EXCEPT !.writes = [w EXCEPT ![k] = x]]
  <2>1. PICK a, b, c, n : /\ n = [w EXCEPT ![k] = x]
                          /\ s = [active |-> a, base |-> b, size |-> c, writes |-> w]
                          /\ u = [active |-> a, base |-> b, size |-> c, writes |-> n]
    BY ZenonT(30) DEF Seen
  <2>2. u = [s EXCEPT !.writes = n]
    <3>1. [active |-> a, base |-> b, size |-> c, writes |-> n] =
            [[active |-> a, base |-> b, size |-> c, writes |-> w] EXCEPT !.writes = n]
      OBVIOUS
    <3> QED
      BY <2>1, <3>1, ZenonT(30)
  <2> QED
    BY <2>1, <2>2, ZenonT(30)
<1> QED
  BY <1>1, <1>2, ZenonT(30) DEF Overwrites

\* The abstract state: what the readers find is the version of the root, and
\* the count they were given is its count.
Mapped ==
    Snapshots = [t \in Threads |-> IF tx[t].pc \in Active THEN Seen(tx[t].ver, tx[t].overlay)
                                                          ELSE Isolation!Inactive]

\* It follows from the invariants.
LEMMA StateMapped == Inv /\ Alone => Mapped
<1> SUFFICES ASSUME Inv, Alone PROVE Mapped
  BY ZenonT(30)
<1>1. \A t \in Threads : tx[t].pc \in Active =>
          Read(t) = files[path][tx[t].ver] /\ ReadSize(t) = Size(files[path][tx[t].ver])
  <2> SUFFICES ASSUME NEW t \in Threads, tx[t].pc \in Active
               PROVE  Read(t) = files[path][tx[t].ver] /\ ReadSize(t) = Size(files[path][tx[t].ver])
    OBVIOUS
  <2>1. tx[t].file = path /\ (tx[t].pc \in {"open", "committing"} => tx[t].reader = path)
    BY DEF Inv, RootsValid, ReadersPinned, Rooted, Active
  <2>2. tx[t].pc # "rooted" => tx[t].size = Size(files[path][tx[t].ver])
    BY <2>1 DEF Alone, SnapshotConsistent, InSnapshot, Active, Base
  <2> QED
    BY <2>1, <2>2 DEF Read, ReadSize, Base, At
<1> QED
  BY <1>1, ZenonT(30) DEF Mapped, Snapshots, Seen, Active, Isolation!Inactive, Isolation!Blank,
     Isolation!NoChange, Empty, NoWrites

\* In the state after a step too.
LEMMA NextMapped == Inv' /\ Alone' => Mapped'
  BY StateMapped, PTL

\* The initial states correspond.
LEMMA IsolationInit == Init => Isolation!Init
<1> SUFFICES ASSUME Init PROVE Isolation!Init
  OBVIOUS
<1>1. Current = Empty
  <2>1. files[1] = <<Empty>> /\ path = 1
    BY DatabaseAssumption DEF Init
  <2>2. Len(<<Empty>>) = 1 /\ <<Empty>>[1] = Empty
    BY ZenonT(30)
  <2> QED
    BY <2>1, <2>2, ZenonT(30) DEF Current
<1>2. Snapshots = [t \in Threads |-> Isolation!Inactive]
  BY DEF Init, Snapshots, NoTx, Isolation!Inactive, Isolation!Blank, Isolation!NoChange, Empty, NoWrites
<1> QED
  BY <1>1, <1>2 DEF Isolation!Init, Isolation!Blank, Empty

\* A step of one thread changes what no other thread sees.
LEMMA OthersSee ==
    ASSUME Inv, Alone, Inv', Alone', NEW t \in Threads, Step(t)
    PROVE  \A u \in Threads \ {t} : tx'[u] = tx[u] /\ Snapshots'[u] = Snapshots[u]
<1> SUFFICES ASSUME NEW u \in Threads \ {t}
             PROVE  tx'[u] = tx[u] /\ Snapshots'[u] = Snapshots[u]
  BY ZenonT(30)
<1>1. tx'[u] = tx[u]
  BY DEF Inv, Step, SnapshotRoot, SnapshotCount, SnapshotOpen, SnapshotFails, SnapshotRaises,
     Close, TxSet, TxDelete, Finish, TxLock, TxConflict, TxPublish, CompactCopy, CompactClose,
     CompactReplace, Leave, Goto, TypeOK
<1>2. Mapped /\ Mapped'
  BY StateMapped, NextMapped, ZenonT(30)
<1>3. CASE tx[u].pc \in Active
  <2>1. Kept
    <3>1. ASSUME NEW v \in Threads, CompactReplace(v), tx[u].pc = "rooted" PROVE FALSE
      BY <3>1, DatabaseAssumption, ZenonT(30) DEF CompactReplace, At, Inv, Exclusive, Holding
    <3> QED
      BY <1>3, <3>1, VersionsKept DEF Next, InSnapshot, Active
  <2>2. tx[u].ver \in 1..Len(files[path])
    BY <1>3 DEF Inv, RootsValid, Rooted, Active
  <2>3. files'[path'][tx'[u].ver] = files[path][tx[u].ver]
    BY <1>1, <2>1, <2>2, ZenonT(30) DEF Kept
  <2> QED
    BY <1>1, <1>2, <1>3, <2>3, ZenonT(30) DEF Mapped, Seen, Size
<1>4. CASE tx[u].pc \notin Active
  BY <1>1, <1>2, <1>4, ZenonT(30) DEF Mapped, Isolation!Inactive, Isolation!Blank, Isolation!NoChange
<1> QED
  BY <1>1, <1>3, <1>4

\* Every step of a thread is one abstract step or none.
LEMMA StepSimulates ==
    ASSUME Inv, Alone, Inv', Alone', NEW t \in Threads, Step(t)
    PROVE  Isolation!Next \/ UNCHANGED <<Current, Snapshots>>
<1> USE DEF At
<1>1. /\ Mapped /\ Mapped' /\ TypeOK /\ tx[t] \in TxType /\ tx'[t] \in TxType
      /\ files[path] \in Seq(Map) /\ Current \in Map
  BY StateMapped, NextMapped, CurrentIsMap, ZenonT(30) DEF Inv, TypeOK
<1>2. /\ Snapshots' = [Snapshots EXCEPT ![t] = Snapshots'[t]]
      /\ Snapshots[t] = IF tx[t].pc \in Active THEN Seen(tx[t].ver, tx[t].overlay)
                                               ELSE Isolation!Inactive
  BY <1>1, OthersSee, ZenonT(30) DEF Mapped
<1>3. Snapshots'[t] = IF tx'[t].pc \in Active
                      THEN [active |-> TRUE, base |-> files'[path'][tx'[t].ver],
                            size |-> Size(files'[path'][tx'[t].ver]), writes |-> tx'[t].overlay]
                      ELSE Isolation!Inactive
  BY <1>1, ZenonT(30) DEF Mapped, Seen, Size, Isolation!Inactive, Isolation!Blank, Isolation!NoChange
<1>4. ASSUME Snapshots'[t] = Snapshots[t] PROVE Snapshots' = Snapshots
  BY <1>1, <1>2, <1>4 DEF Mapped
<1>5. ASSUME UNCHANGED <<files, path>>
      PROVE  Current' = Current
  BY <1>5 DEF Current
<1>6. CASE SnapshotRoot(t)
  <2>1. /\ tx[t].pc = "idle" /\ UNCHANGED <<files, path>>
        /\ tx'[t].pc = "rooted" /\ tx'[t].ver = Len(files[path]) /\ tx'[t].overlay = NoWrites
    BY <1>1, <1>6, ZenonT(30) DEF SnapshotRoot, disk, TypeOK, NoTx
  <2>2. Snapshots[t] = Isolation!Inactive /\ Snapshots'[t] = Seen(Len(files[path]), NoWrites)
    BY <1>2, <1>3, <2>1, ZenonT(30) DEF Active, Seen
  <2>3. Seen(Len(files[path]), NoWrites) = Isolation!Started
    BY DEF Seen, Isolation!Started, Isolation!Count, Isolation!NoChange, NoWrites, Size, Current,
       Cardinality, Isolation!Cardinality
  <2>4. Isolation!Begin(t)
    <3>1. ~Snapshots[t].active /\ Snapshots'[t].active
      BY <2>2, SeenParts, NotInactive, ZenonT(30)
    <3> QED
      BY <1>2, <1>5, <2>1, <2>2, <2>3, <3>1, ZenonT(30) DEF Isolation!Begin
  <2> QED
    BY <2>4 DEF Isolation!Next
<1>7. CASE SnapshotCount(t) \/ SnapshotOpen(t) \/ TxLock(t)
  <2>1. /\ tx[t].pc \in Active /\ tx'[t].pc \in Active /\ UNCHANGED <<files, path>>
        /\ tx'[t].ver = tx[t].ver /\ tx'[t].overlay = tx[t].overlay
    <3>1. CASE SnapshotCount(t)
      BY <1>1, <3>1, ZenonT(30) DEF SnapshotCount, disk, TypeOK, TxType, Active
    <3>2. CASE SnapshotOpen(t)
      BY <1>1, <3>2, ZenonT(30) DEF SnapshotOpen, disk, TypeOK, TxType, Active
    <3>3. CASE TxLock(t)
      BY <1>1, <3>3, Goes, ZenonT(30) DEF TxLock, disk, Active
    <3> QED
      BY <1>7, <3>1, <3>2, <3>3, ZenonT(30)
  <2>2. Snapshots'[t] = Snapshots[t]
    BY <1>2, <1>3, <2>1 DEF Seen
  <2> QED
    BY <1>4, <1>5, <2>1, <2>2
<1>8. CASE Close(t) \/ CompactCopy(t) \/ CompactClose(t) \/ CompactReplace(t)
  <2>1. tx[t].pc \notin Active /\ tx'[t].pc \notin Active
    <3>1. CASE Close(t)
      BY <1>1, <3>1, ZenonT(30) DEF Close, TypeOK, NoTx, Active
    <3>2. CASE CompactReplace(t)
      BY <1>1, <3>2, ZenonT(30) DEF CompactReplace, TypeOK, NoTx, Active
    <3>3. CASE CompactCopy(t) \/ CompactClose(t)
      <4>1. tx[t].pc \in {"idle", "compacting"}
        BY <3>3, ZenonT(30) DEF CompactCopy, CompactClose, At
      <4>2. Goto(t, "compacting") \/ Goto(t, "closed")
        BY <3>3, ZenonT(30) DEF CompactCopy, CompactClose
      <4>3. tx'[t].pc \in {"compacting", "closed"}
        BY <1>1, <4>2, Goes, ZenonT(30)
      <4> QED
        BY <4>1, <4>3 DEF Active
    <3> QED
      BY <1>8, <3>1, <3>2, <3>3, ZenonT(30)
  <2>2. Snapshots' = Snapshots
    BY <1>2, <1>3, <1>4, <2>1, ZenonT(30)
  <2>3. Current' = Current
    <3>1. CASE CompactReplace(t)
      <4>1. path + 1 \in 1..MaxFiles /\ files \in [1..MaxFiles -> Seq(Map)] /\ temp = Current
        BY <3>1, DatabaseAssumption DEF CompactReplace, Inv, TypeOK, CompactsAlone, Alone
      <4>2. files'[path'] = <<temp>>
        BY <3>1, <4>1 DEF CompactReplace
      <4>3. Len(<<temp>>) = 1 /\ <<temp>>[1] = temp
        OBVIOUS
      <4> QED
        BY <4>1, <4>2, <4>3, ZenonT(30) DEF Current
    <3>2. CASE ~CompactReplace(t)
      BY <1>5, <1>8, <3>2 DEF Close, CompactCopy, CompactClose, disk
    <3> QED
      BY <3>1, <3>2
  <2> QED
    BY <2>2, <2>3
<1>9. CASE SnapshotFails(t) \/ SnapshotRaises(t) \/ Finish(t) \/ TxConflict(t)
  <2>1. tx[t].pc \in Active /\ tx'[t].pc \notin Active /\ UNCHANGED <<files, path>>
    <3>1. CASE SnapshotFails(t)
      BY <1>1, <3>1, ZenonT(30) DEF SnapshotFails, disk, TypeOK, NoTx, Active
    <3>4. CASE SnapshotRaises(t)
      BY <1>1, <3>4, ZenonT(30) DEF SnapshotRaises, disk, TypeOK, NoTx, Active
    <3>2. CASE TxConflict(t)
      BY <1>1, <3>2, Goes, ZenonT(30) DEF TxConflict, Leave, disk, Active
    <3>3. CASE Finish(t)
      <4>1. tx[t].pc = "open" /\ UNCHANGED <<files, path>>
        BY <3>3, ZenonT(30) DEF Finish, disk
      <4> QED
        BY <1>1, <3>3, <4>1, FinishIs, ZenonT(30) DEF Active
    <3> QED
      BY <1>9, <3>1, <3>2, <3>3, <3>4, ZenonT(30)
  <2>2. Snapshots[t] = Seen(tx[t].ver, tx[t].overlay)
    BY <1>2, <2>1
  <2>3. Snapshots[t].active
    BY <2>2, SeenParts, ZenonT(30)
  <2>4. Snapshots'[t] = Isolation!Inactive
    BY <1>3, <2>1
  <2>5. Isolation!End(t)
    BY <1>2, <1>5, <2>1, <2>3, <2>4, NotInactive DEF Isolation!End
  <2> QED
    BY <2>5, ZenonT(30) DEF Isolation!Next
<1>10. ASSUME NEW k \in Keys, NEW w \in Values \cup {Deleted},
              tx' = [tx EXCEPT ![t].overlay[k] = w], tx[t].pc = "open",
              UNCHANGED <<files, path>>, w = Deleted => InTx(t, k)
       PROVE  Isolation!Next
  <2>1. /\ tx'[t].pc = "open" /\ tx'[t].ver = tx[t].ver
        /\ tx'[t].overlay = [tx[t].overlay EXCEPT ![k] = w]
        /\ tx[t].overlay \in [Keys -> Values \cup {Deleted, Unwritten}]
    BY <1>1, <1>10 DEF TypeOK, TxType
  <2>2. Snapshots[t] = Seen(tx[t].ver, tx[t].overlay)
    BY <1>2, <1>10 DEF Active
  <2>3. Snapshots'[t] = Seen(tx[t].ver, [tx[t].overlay EXCEPT ![k] = w])
    BY <1>3, <1>10, <2>1, ZenonT(30) DEF Active, Seen
  <2>4. Snapshots'[t] = [Snapshots[t] EXCEPT !.writes[k] = w]
    <3>1. Overwrites(Snapshots[t], Snapshots'[t], k, w)
      BY <2>2, <2>3, SeenWrites, ZenonT(30)
    <3> QED
      BY <3>1, ZenonT(30) DEF Overwrites
  <2>5. ASSUME w = Deleted
        PROVE  Isolation!Under(t, Snapshots[t].base)[k] # NoValue
    <3>1. /\ Snapshots[t].base = Base(t) /\ Snapshots[t].writes = tx[t].overlay
      BY <1>10, <2>2 DEF Seen, Base, Inv, RootsValid, Rooted
    <3>2. IF tx[t].overlay[k] # Unwritten THEN tx[t].overlay[k] # Deleted ELSE Base(t)[k] # NoValue
      BY <1>10, <2>5 DEF InTx, Written
    <3>3. tx[t].overlay[k] \in Values \cup {Deleted, Unwritten} /\ NoValue \notin Values
      BY <2>1, DatabaseAssumption, ZenonT(30)
    <3> QED
      BY <3>1, <3>2, <3>3, ZenonT(30) DEF Isolation!Under
  <2>6. Isolation!Write(t, k, w)
    <3>1. Snapshots[t].active
      BY <2>2, SeenParts, ZenonT(30)
    <3>2. Snapshots' = [Snapshots EXCEPT ![t].writes[k] = w]
      BY <1>2, <2>4
    <3>3. Snapshots'[t].writes[k] = w
      <4>1. PICK n : n = [tx[t].overlay EXCEPT ![k] = w] /\ Snapshots'[t] = Seen(tx[t].ver, n)
        BY <2>3, ZenonT(30)
      <4>2. Snapshots'[t] = Seen(tx[t].ver, n)
        BY <4>1, ZenonT(30)
      <4>3. Snapshots'[t].writes = n
        BY <4>2, SeenParts, ZenonT(30)
      <4>4. n[k] = w
        BY <2>1, <4>1
      <4> QED
        BY <4>3, <4>4, ZenonT(30)
    <3> QED
      BY <1>5, <1>10, <2>5, <3>1, <3>2, <3>3, ZenonT(30) DEF Isolation!Write
  <2> QED
    BY <2>6 DEF Isolation!Next
<1>11. CASE (\E k \in Keys, v \in Values : TxSet(t, k, v)) \/ \E k \in Keys : TxDelete(t, k)
  BY <1>10, <1>11, DatabaseAssumption DEF TxSet, TxDelete, disk
<1>12. CASE TxPublish(t)
  <2>1. /\ tx[t].pc = "committing" /\ Conflicts(t) = {} /\ Publish(Overlaid(t, tree))
        /\ path' = path /\ Goto(t, "closing")
    BY <1>12, ZenonT(30) DEF TxPublish, Leave
  <2>2. tree = Current /\ tx'[t].pc = "closing"
    BY <1>1, <2>1, Goes, ZenonT(30) DEF Inv, CommitsCurrent
  <2>3. /\ Snapshots[t] = Seen(tx[t].ver, tx[t].overlay)
        /\ Snapshots'[t] = Isolation!Inactive
    BY <1>2, <1>3, <2>1, <2>2, ZenonT(30) DEF Active
  <2>4. /\ Snapshots[t].base = Base(t) /\ Snapshots[t].writes = tx[t].overlay
        /\ Snapshots[t].active
    <3>1. Base(t) = files[path][tx[t].ver]
      BY <2>1, ZenonT(30) DEF Base, Inv, RootsValid, Rooted
    <3> QED
      BY <2>3, <3>1, SeenParts, ZenonT(30)
  <2>5. \A k \in Keys : Snapshots[t].writes[k] # Unwritten => Current[k] = Snapshots[t].base[k]
    BY <2>1, <2>2, <2>4, ZenonT(30) DEF Conflicts, Written
  <2>6. Current' = Overlaid(t, Current)
    BY <1>1, <2>1, <2>2, OverlaidIsMap, PublishAppends
  <2>7. Current' = Isolation!Under(t, Current)
    BY <2>4, <2>6, ZenonT(30) DEF Isolation!Under, Overlaid, Written
  <2>8. Isolation!Commit(t)
    BY <1>2, <2>3, <2>4, <2>5, <2>7, NotInactive, ZenonT(30) DEF Isolation!Commit
  <2> QED
    BY <2>8 DEF Isolation!Next
<1> QED
  BY <1>6, <1>7, <1>8, <1>9, <1>11, <1>12 DEF Step

\* The handle alone on its file implements snapshot isolation, for any
\* number of keys, threads, commits and compactions.
THEOREM ImplementsIsolation == Features = {} /\ Spec => IsolationSpec
<1> SUFFICES ASSUME Features = {} PROVE Spec => IsolationSpec
  OBVIOUS
<1>1. ASSUME Inv, Alone, Inv', Alone', [Next]_vars
      PROVE  [Isolation!Next]_<<Current, Snapshots>>
  <2>1. CASE Next
    BY <1>1, <2>1, AloneSteps, StepSimulates, ZenonT(30)
  <2>2. CASE UNCHANGED vars
    BY <2>2, ZenonT(30) DEF vars, Current, Snapshots, Read, ReadSize, Base, At, Size
  <2> QED
    BY <1>1, <2>1, <2>2
<1> QED
  BY <1>1, IsolationInit, AloneInvariance, PTL DEF Spec, IsolationSpec, Isolation!Spec
=============================================================================
