--------------------------- MODULE HandlesProofs ---------------------------
(***************************************************************************)
(* Proofs about Handles, for any number of processes: recovery cuts        *)
(* nothing that is needed, and no update of staged writes is lost.         *)
(***************************************************************************)
EXTENDS Handles, TLAPS

TypeOK ==
    /\ slots \in [SlotIds -> Slot]
    /\ recs \in Seq(Map)
    /\ created \in BOOLEAN
    /\ lock \in Processes \cup {Free}
    /\ handle \in [Processes -> Handle]
    /\ astray \in BOOLEAN

\* Who has staged writes, or has the lock, has an open file.
Locked ==
    /\ \A p \in Processes : handle[p].dirty => lock = p
    /\ \A p \in Processes : lock = p => handle[p].pc \in {"open", "stored"}

\* A root is readable, and the newest commit covers it.
Covered(root, map) == Holds(root, map) /\ root <= slots[Best(slots)].len

Opened(h) == h.pc \in {"open", "stored"}

\* The newest commit covers every tree but the one that is being committed.
AllCovered ==
    /\ slots[Best(slots)].len <= Len(recs)
    /\ \A i \in SlotIds : Covered(slots[i].root, slots[i].map)
    /\ \A p \in Processes : Opened(handle[p]) /\ ~handle[p].dirty =>
          Covered(handle[p].root, handle[p].tree)
    /\ \A p \in Processes : handle[p].pc = "stored" => Holds(handle[p].root, handle[p].tree)

\* The handle has read the newest commit and staged on it.
Based(h) ==
    /\ Current(h)
    /\ \A k \in Keys \ h.wrote : h.tree[k] = Visible[k]

LockCurrent == \A p \in Processes : lock = p => Based(handle[p])

\* Before the file has slots, it has nothing else.
Uncreated ==
    ~created => /\ slots = NewSlots /\ recs = <<>>
                /\ \A p \in Processes : ~Opened(handle[p])

OnTrack == AllCovered /\ LockCurrent /\ Uncreated

Inv == TypeOK /\ Locked /\ (~astray => OnTrack)

-----------------------------------------------------------------------------
(* Facts about single operators.                                           *)

\* The best slot is one of the two (_read_best_meta).
LEMMA BestTyped ==
    ASSUME NEW s \in [SlotIds -> Slot]
    PROVE  Best(s) \in SlotIds /\ s[Best(s)] \in Slot
BY DEF Best, SlotIds

\* A handle that has just read the slots is well formed (_refresh_tree_ref).
LEMMA ReadingTyped ==
    ASSUME NEW s \in [SlotIds -> Slot]
    PROVE  /\ Reading(s) \in Handle
           /\ Reading(s).pc = "open" /\ ~Reading(s).dirty /\ Reading(s).wrote = {}
           /\ Reading(s).txn = s[Best(s)].txn /\ Reading(s).slot = Best(s)
           /\ Reading(s).root = s[Best(s)].root /\ Reading(s).tree = s[Best(s)].map
BY BestTyped DEF Reading, Handle, Slot

\* The slots of a new file (_init_meta).
LEMMA NewSlotsTyped == NewSlots \in [SlotIds -> Slot] /\ Closed \in Handle
BY DEF NewSlots, Slot, Closed, Handle, SlotIds, Map, Empty

\* What set() and delete() make of a handle.
LEMMA StagedTyped ==
    ASSUME NEW h \in Handle, NEW k \in Keys, NEW v \in Values \cup {NoValue}
    PROVE  Staged(h, k, v) \in Handle
BY DEF Staged, Handle, Map

-----------------------------------------------------------------------------
(* Types and the lock.                                                     *)

\* Every operation keeps the types.
LEMMA TypedStep == TypeOK /\ [Next]_vars => TypeOK'
<1> SUFFICES ASSUME TypeOK, [Next]_vars PROVE TypeOK'
  OBVIOUS
<1>1. CASE UNCHANGED vars
  BY <1>1 DEF TypeOK, vars
<1>2. ASSUME NEW p \in Processes, Step(p) PROVE TypeOK'
  <2>1. /\ Reading(slots) \in Handle /\ Closed \in Handle /\ handle[p] \in Handle
        /\ NewSlots \in [SlotIds -> Slot] /\ Reading(NewSlots) \in Handle
        /\ Best(slots) \in SlotIds /\ slots[Best(slots)] \in Slot
    BY BestTyped, ReadingTyped, NewSlotsTyped DEF TypeOK
  <2>2. CASE Recover(p)
    <3>1. slots[Best(slots)].len \in Nat
      BY <2>1 DEF Slot
    <3>2. recs' \in Seq(Map)
      <4>1. ASSUME NEW n \in Nat, Len(recs) > n PROVE SubSeq(recs, 1, n) \in Seq(Map)
        BY <4>1 DEF TypeOK
      <4> QED
        BY <2>2, <3>1, <4>1 DEF Recover, Recovered, TypeOK
    <3> QED
      BY <2>1, <2>2, <3>2 DEF Recover, Now, TypeOK
  <2>3. CASE FindNew(p) \/ Close(p) \/ Read(p) \/ TxLock(p) \/ TxConflict(p)
    <3>1. [Closed EXCEPT !.pc = "creating"] \in Handle
      BY <2>1 DEF Handle
    <3> QED
      BY <2>1, <2>3, <3>1 DEF FindNew, Close, Read, TxLock, TxConflict, Now, TypeOK
  <2>4. CASE Create(p)
    BY <2>1, <2>4 DEF Create, Now, TypeOK
  <2>5. CASE ReadMeta(p)
    <3>1. [handle[p] EXCEPT !.slot = Best(slots), !.txn = slots[Best(slots)].txn] \in Handle
      BY <2>1 DEF Handle, Slot
    <3> QED
      BY <2>5, <3>1 DEF ReadMeta, Now, TypeOK
  <2>6. ASSUME NEW k \in Keys, NEW v \in Values \cup {NoValue}, Stage(p, k, v) PROVE TypeOK'
    <3>1. Staged(IF lock = p THEN handle[p] ELSE Reading(slots), k, v) \in Handle
      BY <2>1, StagedTyped
    <3> QED
      BY <2>6, <3>1 DEF Stage, Now, TypeOK
  <2>7. CASE Store(p)
    <3>1. recs' \in Seq(Map) /\ Len(recs) \in Nat
      BY <2>1, <2>7 DEF Store, TypeOK, Handle
    <3>2. [handle[p] EXCEPT !.pc = "stored",
                            !.root = IF handle[p].dirty THEN Len(recs) + 1 ELSE handle[p].root] \in Handle
      <4> DEFINE n == IF handle[p].dirty THEN Len(recs) + 1 ELSE handle[p].root
      <4>1. n \in Nat
        BY <2>1, <3>1 DEF Handle
      <4> HIDE DEF n
      <4>2. [handle[p] EXCEPT !.pc = "stored", !.root = n] \in Handle
        BY <2>1, <4>1 DEF Handle
      <4> QED
        BY <4>2 DEF n
    <3> QED
      BY <2>7, <3>1, <3>2 DEF Store, Now, TypeOK
  <2>8. CASE Publish(p)
    <3> DEFINE meta == [txn |-> handle[p].txn + 1, root |-> handle[p].root,
                        len |-> Len(recs), map |-> handle[p].tree]
    <3>1. meta \in Slot
      <4>1. Len(recs) \in Nat /\ handle[p].txn \in Nat /\ handle[p].root \in Nat /\ handle[p].tree \in Map
        BY <2>1 DEF Handle, TypeOK
      <4> QED
        BY <4>1 DEF Slot
    <3>2. [slots EXCEPT ![1 - handle[p].slot] = meta] \in [SlotIds -> Slot]
      BY <3>1 DEF TypeOK
    <3>3. Reading([slots EXCEPT ![1 - handle[p].slot] = meta]) \in Handle
      BY <3>2, ReadingTyped
    <3> QED
      BY <2>8, <3>2, <3>3 DEF Publish, Now, TypeOK
  <2> QED
    BY <1>2, <2>2, <2>3, <2>4, <2>5, <2>6, <2>7, <2>8 DEF Step
<1> QED
  BY <1>1, <1>2 DEF Next

\* Staged writes are under the lock, and the lock is given up with the
\* handle or the commit.
LEMMA LockedStep == TypeOK /\ Locked /\ [Next]_vars => Locked'
<1> SUFFICES ASSUME TypeOK, Locked, [Next]_vars PROVE Locked'
  OBVIOUS
<1>1. CASE UNCHANGED vars
  BY <1>1 DEF Locked, vars
<1>2. ASSUME NEW p \in Processes, Step(p) PROVE Locked'
  <2>1. /\ Reading(slots).pc = "open" /\ ~Reading(slots).dirty
        /\ Reading(NewSlots).pc = "open" /\ ~Reading(NewSlots).dirty
        /\ ~Closed.dirty /\ Closed \in Handle /\ handle[p] \in Handle
        /\ Reading(slots) \in Handle
    BY ReadingTyped, NewSlotsTyped DEF TypeOK, Closed
  <2>2. CASE Recover(p) \/ FindNew(p) \/ Create(p)
    <3>1. lock # p
      BY <2>2 DEF Recover, FindNew, Create, Locked
    <3>2. lock' = lock /\ ~handle'[p].dirty /\ \A q \in Processes \ {p} : handle'[q] = handle[q]
      <4>1. CASE Recover(p) \/ Create(p)
        BY <2>1, <4>1 DEF Recover, Create, Now, TypeOK
      <4>2. CASE FindNew(p)
        <5>1. ~[Closed EXCEPT !.pc = "creating"].dirty
          BY DEF Closed
        <5> QED
          BY <4>2, <5>1 DEF FindNew, Now, TypeOK
      <4> QED
        BY <2>2, <4>1, <4>2
    <3> QED
      BY <3>1, <3>2 DEF Locked
  <2>3. CASE Close(p)
    BY <2>1, <2>3, HandlesAssumption DEF Close, Now, Locked, TypeOK
  <2>4. CASE Read(p) \/ ReadMeta(p)
    <3>1. lock' = lock /\ (handle'[p].dirty => handle[p].dirty) /\ handle'[p].pc = "open"
      <4>1. CASE Read(p)
        BY <2>1, <4>1 DEF Read, Now, TypeOK
      <4>2. CASE ReadMeta(p)
        <5> DEFINE h == [handle[p] EXCEPT !.slot = Best(slots), !.txn = slots[Best(slots)].txn]
        <5>1. h.pc = handle[p].pc /\ h.dirty = handle[p].dirty
          BY <2>1 DEF Handle
        <5>2. handle'[p] = h /\ lock' = lock /\ handle[p].pc = "open"
          BY <4>2 DEF ReadMeta, Now, TypeOK
        <5> QED
          BY <5>1, <5>2
      <4> QED
        BY <2>4, <4>1, <4>2
    <3>2. \A q \in Processes \ {p} : handle'[q] = handle[q]
      BY <2>4 DEF Read, ReadMeta, Now, TypeOK
    <3> QED
      BY <3>1, <3>2 DEF Locked
  <2>5. ASSUME NEW k \in Keys, NEW v \in Values \cup {NoValue}, Stage(p, k, v) PROVE Locked'
    <3> DEFINE h == IF lock = p THEN handle[p] ELSE Reading(slots)
    <3>1. h \in Handle /\ h.pc = "open"
      BY <2>1, <2>5 DEF Stage
    <3>2. Staged(h, k, v).pc = "open"
      BY <3>1 DEF Staged, Handle
    <3>3. lock' = p /\ handle'[p].pc = "open" /\ \A q \in Processes \ {p} : handle'[q] = handle[q]
      BY <2>5, <3>2 DEF Stage, Now, TypeOK
    <3>4. \A q \in Processes \ {p} : ~handle[q].dirty
      BY <2>5, HandlesAssumption DEF Stage, May, Locked
    <3> QED
      BY <3>3, <3>4 DEF Locked
  <2>6. CASE TxLock(p) \/ TxConflict(p)
    <3>1. \A q \in Processes \ {p} : ~handle[q].dirty
      BY <2>6, HandlesAssumption DEF TxLock, TxConflict, May, Locked
    <3>2. ~handle'[p].dirty /\ handle'[p].pc = "open" /\ lock' \in {p, Free}
          /\ \A q \in Processes \ {p} : handle'[q] = handle[q]
      BY <2>1, <2>6 DEF TxLock, TxConflict, Now, TypeOK
    <3> QED
      BY <3>1, <3>2, HandlesAssumption DEF Locked
  <2>7. CASE Store(p)
    <3>1. lock' = lock /\ handle'[p].dirty = handle[p].dirty /\ handle'[p].pc = "stored"
          /\ \A q \in Processes \ {p} : handle'[q] = handle[q]
      BY <2>1, <2>7 DEF Store, Now, TypeOK, Handle
    <3> QED
      BY <3>1 DEF Locked
  <2>8. CASE Publish(p)
    <3>1. \A q \in Processes \ {p} : ~handle[q].dirty
      BY <2>8, HandlesAssumption DEF Publish, May, Locked
    <3>2. slots' \in [SlotIds -> Slot] /\ handle'[p] = Reading(slots') /\ lock' = Free
          /\ \A q \in Processes \ {p} : handle'[q] = handle[q]
      BY <1>2, <2>8, TypedStep DEF Publish, Now, TypeOK, Next
    <3>3. ~handle'[p].dirty
      BY <3>2, ReadingTyped
    <3> QED
      BY <3>1, <3>2, <3>3, HandlesAssumption DEF Locked
  <2> QED
    BY <1>2, <2>2, <2>3, <2>4, <2>5, <2>6, <2>7, <2>8 DEF Step
<1> QED
  BY <1>1, <1>2 DEF Next

-----------------------------------------------------------------------------
(* Without a process astray.                                               *)

\* What a handle must be for the file as it is.
Good(h) ==
    /\ Opened(h) /\ ~h.dirty => Covered(h.root, h.tree)
    /\ h.pc = "stored" => Holds(h.root, h.tree)
    /\ Opened(h) => created

\* A handle that has just read the slots is good, and based on the newest
\* commit.
LEMMA ReadingGood ==
    ASSUME TypeOK, OnTrack, created
    PROVE  Good(Reading(slots)) /\ Based(Reading(slots))
<1>1. /\ Reading(slots).pc = "open" /\ ~Reading(slots).dirty /\ Reading(slots).wrote = {}
      /\ Reading(slots).txn = slots[Best(slots)].txn /\ Reading(slots).slot = Best(slots)
      /\ Reading(slots).root = slots[Best(slots)].root
      /\ Reading(slots).tree = slots[Best(slots)].map
  BY ReadingTyped DEF TypeOK
<1>2. Best(slots) \in SlotIds
  BY BestTyped DEF TypeOK
<1>3. Covered(slots[Best(slots)].root, slots[Best(slots)].map)
  BY <1>2 DEF OnTrack, AllCovered
<1> QED
  BY <1>1, <1>3 DEF Good, Based, Current, Visible

\* One handle changes, and maybe the lock, but not the file.
LEMMA HandleStep ==
    ASSUME TypeOK, OnTrack, UNCHANGED <<slots, recs, created>>,
           NEW p \in Processes, NEW h, Now(p, h), Good(h),
           lock' = p => Based(h), \A q \in Processes \ {p} : lock' = q => lock = q
    PROVE  OnTrack'
<1>1. handle'[p] = h /\ \A q \in Processes \ {p} : handle'[q] = handle[q]
  BY DEF Now, TypeOK
<1>2. AllCovered'
  <2>1. \A q \in Processes : Opened(handle'[q]) /\ ~handle'[q].dirty =>
            Covered(handle'[q].root, handle'[q].tree)
    BY <1>1 DEF OnTrack, AllCovered, Good
  <2>2. \A q \in Processes : handle'[q].pc = "stored" => Holds(handle'[q].root, handle'[q].tree)
    BY <1>1 DEF OnTrack, AllCovered, Good
  <2> QED
    BY <2>1, <2>2 DEF OnTrack, AllCovered, Covered, Holds, Opened
<1>3. LockCurrent'
  <2>1. \A q \in Processes : lock' = q => Based(handle'[q])
    BY <1>1 DEF OnTrack, LockCurrent
  <2> QED
    BY <2>1 DEF LockCurrent, Based, Current, Visible
<1>4. Uncreated'
  BY <1>1 DEF OnTrack, Uncreated, Good, Opened
<1> QED
  BY <1>2, <1>3, <1>4 DEF OnTrack

\* No process but the one that may take the lock has staged anything.
LEMMA OthersClean ==
    ASSUME Locked, NEW p \in Processes, May(p)
    PROVE  \A q \in Processes \ {p} : ~handle[q].dirty /\ lock # q
BY HandlesAssumption DEF Locked, May

\* The steps that leave the file alone.
LEMMA FileUntouched ==
    ASSUME TypeOK, Locked, OnTrack, NEW p \in Processes,
           \/ FindNew(p) \/ Close(p) \/ Read(p) \/ ReadMeta(p) \/ TxLock(p) \/ TxConflict(p)
           \/ \E k \in Keys, v \in Values \cup {NoValue} : Stage(p, k, v)
           \/ Store(p) /\ ~handle[p].dirty
    PROVE  OnTrack'
<1>1. handle[p] \in Handle /\ Closed \in Handle /\ slots \in [SlotIds -> Slot]
  BY NewSlotsTyped DEF TypeOK
<1>2. Good(handle[p]) /\ (lock = p => Based(handle[p]))
  BY DEF OnTrack, AllCovered, LockCurrent, Uncreated, Good
<1>3. Opened(handle[p]) => Good(Reading(slots)) /\ Based(Reading(slots))
  BY <1>2, ReadingGood DEF Good
<1>4. CASE FindNew(p)
  <2>1. Good([Closed EXCEPT !.pc = "creating"])
    BY DEF Good, Opened, Closed
  <2>2. lock # p
    BY <1>4 DEF FindNew, Locked
  <2> QED
    BY <1>4, <2>1, <2>2, HandleStep DEF FindNew
<1>5. CASE Close(p)
  <2>1. Good(Closed)
    BY DEF Good, Opened, Closed
  <2> QED
    BY <1>5, <2>1, HandleStep, HandlesAssumption DEF Close
<1>6. CASE Read(p)
  BY <1>3, <1>6, HandleStep DEF Read, Opened
<1>7. CASE ReadMeta(p)
  <2> DEFINE h == [handle[p] EXCEPT !.slot = Best(slots), !.txn = slots[Best(slots)].txn]
  <2>1. /\ h.pc = handle[p].pc /\ h.root = handle[p].root /\ h.tree = handle[p].tree
        /\ h.dirty = handle[p].dirty /\ h.wrote = handle[p].wrote
        /\ h.slot = Best(slots) /\ h.txn = slots[Best(slots)].txn
    BY <1>1 DEF Handle
  <2>2. Now(p, h) /\ lock' = lock /\ UNCHANGED <<slots, recs, created>>
    BY <1>7 DEF ReadMeta
  <2> HIDE DEF h
  <2>3. Good(h) /\ (lock = p => Based(h))
    BY <1>2, <2>1 DEF Good, Opened, Based, Current
  <2> QED
    BY <2>2, <2>3, HandleStep
<1>8. CASE TxLock(p)
  BY <1>3, <1>8, HandleStep DEF TxLock, Opened
<1>9. CASE TxConflict(p)
  <2>1. Now(p, handle[p])
    BY <1>9 DEF TxConflict, Now, TypeOK
  <2> QED
    BY <1>2, <1>9, <2>1, HandleStep, HandlesAssumption DEF TxConflict
<1>10. ASSUME NEW k \in Keys, NEW v \in Values \cup {NoValue}, Stage(p, k, v) PROVE OnTrack'
  <2> DEFINE g == IF lock = p THEN handle[p] ELSE Reading(slots)
             h == Staged(g, k, v)
  <2>1. g \in Handle /\ g.pc = "open" /\ Good(g) /\ Based(g)
    BY <1>1, <1>2, <1>3, <1>10, ReadingTyped DEF Stage, Opened
  <2>2. Now(p, h) /\ lock' = p /\ UNCHANGED <<slots, recs, created>>
    BY <1>10 DEF Stage
  <2> HIDE DEF g
  <2>3. h = g \/ /\ h.pc = g.pc /\ h.dirty /\ h.slot = g.slot /\ h.txn = g.txn
                 /\ \A j \in Keys \ {k} : h.tree[j] = g.tree[j]
                 /\ h.wrote = g.wrote \cup {k}
    BY <2>1 DEF Staged, Handle, Map
  <2> HIDE DEF h
  <2>4. Good(h) /\ Based(h)
    BY <2>1, <2>3 DEF Good, Opened, Based, Current
  <2> QED
    BY <2>2, <2>4, HandleStep
<1>11. CASE Store(p) /\ ~handle[p].dirty
  <2> DEFINE h == [handle[p] EXCEPT !.pc = "stored", !.root = handle[p].root]
  <2>1. /\ h.pc = "stored" /\ h.root = handle[p].root /\ h.tree = handle[p].tree
        /\ h.dirty = handle[p].dirty /\ h.wrote = handle[p].wrote
        /\ h.slot = handle[p].slot /\ h.txn = handle[p].txn
    BY <1>1 DEF Handle
  <2>2. Now(p, h) /\ lock' = lock /\ UNCHANGED <<slots, recs, created>> /\ Opened(handle[p])
    BY <1>11 DEF Store, Opened
  <2> HIDE DEF h
  <2>3. Good(h) /\ (lock = p => Based(h))
    BY <1>2, <1>11, <2>1, <2>2 DEF Good, Opened, Based, Current, Covered
  <2> QED
    BY <2>2, <2>3, HandleStep
<1> QED
  BY <1>4, <1>5, <1>6, <1>7, <1>8, <1>9, <1>10, <1>11

\* Recovery keeps every record that the newest commit covers.
LEMMA RecoveredCovers ==
    ASSUME TypeOK, OnTrack
    PROVE  /\ slots[Best(slots)].len <= Len(Recovered)
           /\ \A x \in 1..slots[Best(slots)].len : Recovered[x] = recs[x]
<1>1. recs \in Seq(Map) /\ slots[Best(slots)].len \in Nat /\ slots[Best(slots)].len <= Len(recs)
  BY BestTyped DEF TypeOK, OnTrack, AllCovered, Slot
<1> QED
  BY <1>1 DEF Recovered

\* What stands in the file while records are cut or added above the newest
\* commit.
LEMMA StaysCovered ==
    ASSUME TypeOK, slots' = slots, slots[Best(slots)].len <= Len(recs'),
           \A x \in 1..slots[Best(slots)].len : recs'[x] = recs[x],
           NEW root \in Nat, NEW map, Covered(root, map)
    PROVE  Covered(root, map)'
<1>1. recs \in Seq(Map) /\ slots[Best(slots)].len \in Nat
  BY BestTyped DEF TypeOK, Slot
<1>2. root <= slots'[Best(slots')].len
  BY DEF Covered
<1>3. CASE root = 0
  BY <1>2, <1>3 DEF Covered, Holds
<1>4. CASE root # 0
  <2>1. root \in 1..slots[Best(slots)].len /\ recs[root] = map /\ root <= Len(recs)
    BY <1>1, <1>4 DEF Covered, Holds
  <2>2. recs'[root] = map
    BY <2>1
  <2>3. Len(recs') >= root
    BY <1>1, <2>1
  <2> QED
    BY <1>2, <1>4, <2>2, <2>3 DEF Covered, Holds
<1> QED
  BY <1>3, <1>4

\* Opening the file cuts nothing that a process needs: nobody has staged
\* anything while the lock is free (_ensure_meta).
LEMMA RecoverOnTrack ==
    ASSUME TypeOK, Locked, OnTrack, NEW p \in Processes, Recover(p)
    PROVE  OnTrack'
<1>1. /\ slots' = slots /\ created' = created /\ created /\ lock' = Free /\ lock = Free
      /\ recs' = Recovered /\ handle'[p] = Reading(slots)
      /\ \A q \in Processes \ {p} : handle'[q] = handle[q]
  BY DEF Recover, Now, TypeOK
<1>2. \A q \in Processes : ~handle[q].dirty /\ lock' # q
  BY <1>1, HandlesAssumption DEF Locked
<1>3. ASSUME NEW root \in Nat, NEW map, Covered(root, map) PROVE Covered(root, map)'
  BY <1>1, <1>3, RecoveredCovers, StaysCovered
<1>4. \A q \in Processes : handle[q] \in Handle /\ handle[q].root \in Nat
  BY DEF TypeOK, Handle
<1>5. \A i \in SlotIds : slots[i].root \in Nat
  BY DEF TypeOK, Slot
<1>6. /\ Reading(slots).pc = "open" /\ Reading(slots).root \in Nat
      /\ Covered(Reading(slots).root, Reading(slots).tree)
  BY <1>1, ReadingTyped, ReadingGood DEF TypeOK, Handle, Good, Opened
<1>7. ASSUME NEW q \in Processes, Opened(handle'[q])
      PROVE  Covered(handle[q].root, handle[q].tree)'
  <2>1. handle'[q].root \in Nat /\ Covered(handle'[q].root, handle'[q].tree)
    BY <1>1, <1>2, <1>4, <1>6, <1>7 DEF OnTrack, AllCovered
  <2> QED
    BY <1>3, <2>1 DEF Covered, Holds
<1>8. AllCovered'
  <2>1. slots'[Best(slots')].len <= Len(recs')
    BY <1>1, RecoveredCovers
  <2>2. \A i \in SlotIds : Covered(slots[i].root, slots[i].map)'
    <3>1. ASSUME NEW i \in SlotIds PROVE slots'[i].root \in Nat /\ Covered(slots'[i].root, slots'[i].map)
      BY <1>1, <1>5 DEF OnTrack, AllCovered
    <3> QED
      BY <1>3, <3>1 DEF Covered, Holds
  <2> QED
    BY <1>7, <2>1, <2>2 DEF AllCovered, Covered, Opened
<1> QED
  BY <1>1, <1>2, <1>8 DEF OnTrack, LockCurrent, Uncreated

\* The creation of a file that has nothing yet changes nothing in it.
LEMMA CreateOnTrack ==
    ASSUME TypeOK, Locked, OnTrack, NEW p \in Processes, Create(p), ~astray'
    PROVE  OnTrack'
<1>1. /\ slots' = slots /\ recs' = recs /\ created' /\ lock' = lock
      /\ handle'[p] = Reading(slots) /\ \A q \in Processes \ {p} : handle'[q] = handle[q]
  BY DEF Create, Now, TypeOK
<1>2. lock # p
  BY DEF Create, Locked
<1>3. /\ Reading(slots).pc = "open" /\ ~Reading(slots).dirty
      /\ Covered(Reading(slots).root, Reading(slots).tree)
  BY BestTyped, ReadingTyped DEF TypeOK, OnTrack, AllCovered
<1>4. AllCovered'
  <2>1. \A q \in Processes :
            /\ Opened(handle'[q]) /\ ~handle'[q].dirty => Covered(handle'[q].root, handle'[q].tree)
            /\ handle'[q].pc = "stored" => Holds(handle'[q].root, handle'[q].tree)
    BY <1>1, <1>3 DEF OnTrack, AllCovered
  <2> QED
    BY <1>1, <2>1 DEF OnTrack, AllCovered, Covered, Holds, Opened
<1>5. LockCurrent'
  <2>1. \A q \in Processes : lock' = q => Based(handle'[q])
    BY <1>1, <1>2 DEF OnTrack, LockCurrent
  <2> QED
    BY <1>1, <2>1 DEF LockCurrent, Based, Current, Visible
<1> QED
  BY <1>1, <1>4, <1>5 DEF OnTrack, Uncreated

\* A dirty tree is written after everything the file has (store).
LEMMA StoreOnTrack ==
    ASSUME TypeOK, Locked, OnTrack, NEW p \in Processes, Store(p), handle[p].dirty
    PROVE  OnTrack'
<1>1. /\ handle[p] \in Handle /\ recs \in Seq(Map) /\ handle[p].tree \in Map
      /\ \A q \in Processes : handle[q].root \in Nat
      /\ \A i \in SlotIds : slots[i].root \in Nat
      /\ slots[Best(slots)].len \in Nat
  BY BestTyped DEF TypeOK, Handle, Slot
<1>2. /\ slots' = slots /\ created' = created /\ lock' = lock /\ recs' = Append(recs, handle[p].tree)
      /\ \A q \in Processes \ {p} : handle'[q] = handle[q]
      /\ handle'[p] = [handle[p] EXCEPT !.pc = "stored", !.root = Len(recs) + 1]
      /\ handle[p].pc = "open"
  BY DEF Store, Now, TypeOK
<1>3. /\ handle'[p].pc = "stored" /\ handle'[p].root = Len(recs) + 1 /\ handle'[p].dirty
      /\ handle'[p].tree = handle[p].tree /\ handle'[p].wrote = handle[p].wrote
      /\ handle'[p].slot = handle[p].slot /\ handle'[p].txn = handle[p].txn
  BY <1>1, <1>2 DEF Handle
<1>4. /\ Len(recs') = Len(recs) + 1 /\ recs'[Len(recs) + 1] = handle[p].tree
      /\ \A x \in 1..Len(recs) : recs'[x] = recs[x]
  BY <1>1, <1>2
<1>5. lock = p /\ created
  BY <1>2 DEF Locked, OnTrack, Uncreated, Opened
<1>6. \A q \in Processes \ {p} : ~handle[q].dirty
  BY <1>5, OthersClean DEF May
<1>7. slots[Best(slots)].len <= Len(recs')
  BY <1>1, <1>4 DEF OnTrack, AllCovered
<1>8. ASSUME NEW root \in Nat, NEW map, Covered(root, map) PROVE Covered(root, map)'
  <2>1. \A x \in 1..slots[Best(slots)].len : recs'[x] = recs[x]
    BY <1>1, <1>4 DEF OnTrack, AllCovered
  <2> QED
    BY <1>2, <1>7, <1>8, <2>1, StaysCovered
<1>9. AllCovered'
  <2>1. \A i \in SlotIds : Covered(slots[i].root, slots[i].map)'
    BY <1>1, <1>2, <1>8 DEF OnTrack, AllCovered, Covered, Holds
  <2>2. ASSUME NEW q \in Processes \ {p}, Opened(handle'[q])
        PROVE  Covered(handle[q].root, handle[q].tree)'
    <3>1. handle'[q] = handle[q] /\ Covered(handle[q].root, handle[q].tree)
      BY <1>2, <1>6, <2>2 DEF OnTrack, AllCovered
    <3>2. handle'[q].root \in Nat /\ Covered(handle'[q].root, handle'[q].tree)
      BY <1>1, <3>1
    <3> QED
      BY <1>8, <3>2 DEF Covered, Holds
  <2>3. Holds(handle[p].root, handle[p].tree)'
    BY <1>1, <1>3, <1>4 DEF Holds
  <2>4. ASSUME NEW q \in Processes, handle'[q].pc = "stored"
        PROVE  Holds(handle[q].root, handle[q].tree)'
    BY <2>2, <2>3, <2>4 DEF Opened, Covered
  <2>5. ASSUME NEW q \in Processes, Opened(handle'[q]), ~handle'[q].dirty
        PROVE  Covered(handle[q].root, handle[q].tree)'
    BY <1>3, <2>2, <2>5
  <2>6. (slots[Best(slots)].len <= Len(recs))'
    BY <1>2, <1>7
  <2> QED
    BY <2>1, <2>4, <2>5, <2>6 DEF AllCovered, Opened
<1>10. LockCurrent'
  <2>1. Based(handle[p])'
    BY <1>2, <1>3, <1>5 DEF OnTrack, LockCurrent, Based, Current, Visible
  <2> QED
    BY <1>2, <1>5, <2>1 DEF LockCurrent
<1> QED
  BY <1>2, <1>5, <1>9, <1>10 DEF OnTrack, Uncreated

\* A commit of a handle that has read the newest commit becomes the newest
\* (commit_root_address and _read_best_meta).
LEMMA PublishedIsBest ==
    ASSUME TypeOK, NEW p \in Processes, Publish(p), Current(handle[p])
    PROVE  /\ Best(slots') = 1 - handle[p].slot
           /\ slots'[Best(slots')] = [txn |-> handle[p].txn + 1, root |-> handle[p].root,
                                      len |-> Len(recs), map |-> handle[p].tree]
<1> DEFINE meta == [txn |-> handle[p].txn + 1, root |-> handle[p].root,
                    len |-> Len(recs), map |-> handle[p].tree]
<1>1. handle[p].slot \in SlotIds /\ handle[p].txn \in Nat
  BY DEF TypeOK, Handle
<1>2. slots' = [slots EXCEPT ![1 - handle[p].slot] = meta] /\ meta.txn = handle[p].txn + 1
  BY DEF Publish
<1>3. slots[handle[p].slot].txn = handle[p].txn
  BY DEF Current
<1> HIDE DEF meta
<1>4. /\ 1 - handle[p].slot \in SlotIds /\ 1 - handle[p].slot # handle[p].slot
      /\ slots'[1 - handle[p].slot] = meta /\ slots'[handle[p].slot] = slots[handle[p].slot]
  BY <1>1, <1>2 DEF TypeOK, SlotIds
<1>5. Best(slots') = 1 - handle[p].slot
  <2>1. CASE handle[p].slot = 0
    BY <1>1, <1>2, <1>3, <1>4, <2>1 DEF Best
  <2>2. CASE handle[p].slot = 1
    BY <1>1, <1>2, <1>3, <1>4, <2>2 DEF Best
  <2> QED
    BY <1>1, <2>1, <2>2 DEF SlotIds
<1> QED
  BY <1>4, <1>5 DEF meta

\* A commit covers the whole file.
LEMMA PublishOnTrack ==
    ASSUME TypeOK, TypeOK', Locked, OnTrack, NEW p \in Processes, Publish(p), ~astray'
    PROVE  OnTrack'
<1>1. /\ Current(handle[p]) /\ May(p) /\ handle[p].pc = "stored" /\ lock' = Free
      /\ recs' = recs /\ created' = created /\ handle'[p] = Reading(slots')
      /\ \A q \in Processes \ {p} : handle'[q] = handle[q]
      /\ \A i \in SlotIds \ {1 - handle[p].slot} : slots'[i] = slots[i]
  BY DEF Publish, Now, TypeOK
<1>2. /\ Best(slots') = 1 - handle[p].slot
      /\ slots'[Best(slots')].root = handle[p].root /\ slots'[Best(slots')].map = handle[p].tree
      /\ slots'[Best(slots')].len = Len(recs)
  <2>1. /\ Best(slots') = 1 - handle[p].slot
        /\ slots'[Best(slots')] = [txn |-> handle[p].txn + 1, root |-> handle[p].root,
                                   len |-> Len(recs), map |-> handle[p].tree]
    BY <1>1, PublishedIsBest, Zenon
  <2> QED
    BY <2>1
<1>3. /\ recs \in Seq(Map) /\ Len(recs) \in Nat
      /\ \A q \in Processes : handle[q].root \in Nat
      /\ \A i \in SlotIds : slots[i].root \in Nat
  <2>1. recs \in Seq(Map) /\ Len(recs) \in Nat
    BY DEF TypeOK
  <2>2. \A q \in Processes : handle[q].root \in Nat
    BY DEF TypeOK, Handle
  <2>3. \A i \in SlotIds : slots[i].root \in Nat
    BY DEF TypeOK, Slot
  <2> QED
    BY <2>1, <2>2, <2>3
<1>4. ASSUME NEW root \in Nat, NEW map, Holds(root, map) PROVE Covered(root, map)'
  BY <1>1, <1>2, <1>3, <1>4 DEF Covered, Holds
<1>5. Holds(handle[p].root, handle[p].tree)
  BY <1>1 DEF OnTrack, AllCovered
<1>6. ASSUME NEW i \in SlotIds PROVE Covered(slots[i].root, slots[i].map)'
  <2>1. slots'[i].root \in Nat /\ Holds(slots'[i].root, slots'[i].map)
    BY <1>1, <1>2, <1>3, <1>5 DEF OnTrack, AllCovered, Covered
  <2> QED
    BY <1>4, <2>1 DEF Covered, Holds
<1>7. ASSUME NEW q \in Processes, Opened(handle'[q])
      PROVE  Covered(handle[q].root, handle[q].tree)'
  <2>1. handle'[p].root = handle[p].root /\ handle'[p].tree = handle[p].tree
    BY <1>1, <1>2, ReadingTyped DEF TypeOK
  <2>2. handle'[q].root \in Nat /\ Holds(handle'[q].root, handle'[q].tree)
    BY <1>1, <1>3, <1>5, <1>7, <2>1, OthersClean DEF OnTrack, AllCovered, Covered
  <2> QED
    BY <1>4, <2>2 DEF Covered, Holds
<1>8. AllCovered'
  <2>1. (slots[Best(slots)].len <= Len(recs))'
    BY <1>1, <1>2, <1>3
  <2> QED
    BY <1>6, <1>7, <2>1 DEF AllCovered, Covered, Opened
<1>9. created
  BY <1>1 DEF OnTrack, Uncreated, Opened
<1> QED
  BY <1>1, <1>8, <1>9, HandlesAssumption DEF OnTrack, LockCurrent, Uncreated

-----------------------------------------------------------------------------
(* The theorems.                                                           *)

\* Every step keeps the invariant.
LEMMA InvStep == Inv /\ [Next]_vars => Inv'
<1> SUFFICES ASSUME Inv, [Next]_vars PROVE Inv'
  OBVIOUS
<1>1. TypeOK' /\ Locked'
  BY TypedStep, LockedStep DEF Inv
<1>2. ASSUME ~astray' PROVE OnTrack'
  <2>1. CASE UNCHANGED vars
    BY <1>2, <2>1 DEF vars, Inv, OnTrack, AllCovered, LockCurrent, Uncreated, Covered, Holds,
                      Opened, Based, Current, Visible
  <2>2. ASSUME NEW p \in Processes, Step(p) PROVE OnTrack'
    <3>1. OnTrack
      BY <1>2, <2>2 DEF Inv, TypeOK, Step, Recover, FindNew, Create, Close, Read, ReadMeta,
                        Stage, TxLock, TxConflict, Store, Publish
    <3> QED
      BY <1>1, <1>2, <2>2, <3>1, FileUntouched, RecoverOnTrack, CreateOnTrack, StoreOnTrack,
         PublishOnTrack DEF Inv, Step
  <2> QED
    BY <2>1, <2>2 DEF Next
<1> QED
  BY <1>1, <1>2 DEF Inv

\* A file that nobody has opened.
LEMMA InvInit == Init => Inv
<1> SUFFICES ASSUME Init PROVE Inv
  OBVIOUS
<1>1. TypeOK
  <2>1. recs \in Seq(Map) /\ astray \in BOOLEAN /\ created \in BOOLEAN
    <3>1. astray \in BOOLEAN /\ created \in BOOLEAN
      BY Zenon DEF Init
    <3>2. recs \in Seq(Map)
      BY DEF Init
    <3> QED
      BY <3>1, <3>2
  <2>2. slots \in [SlotIds -> Slot] /\ handle \in [Processes -> Handle] /\ lock \in Processes \cup {Free}
    BY NewSlotsTyped DEF Init
  <2> QED
    BY <2>1, <2>2 DEF TypeOK
<1>2. Best(slots) = 0 /\ \A i \in SlotIds : slots[i].root = 0 /\ slots[i].map = Empty /\ slots[i].len = 0
  BY DEF Init, NewSlots, Best, SlotIds
<1>3. \A p \in Processes : handle[p].pc = "closed" /\ ~handle[p].dirty /\ lock # p
  BY HandlesAssumption DEF Init, Closed
<1>4. recs = <<>> /\ Len(recs) = 0
  BY DEF Init
<1>5. AllCovered
  BY <1>2, <1>3, <1>4 DEF AllCovered, Covered, Holds, Opened, SlotIds
<1> QED
  BY <1>1, <1>3, <1>4, <1>5 DEF Inv, Init, Locked, OnTrack, LockCurrent, Uncreated, Opened

\* The invariant holds of every behaviour: types, who may have staged writes,
\* and, without a process astray, what the file covers.
THEOREM HandlesInvariance == Spec => []Inv
BY InvInit, InvStep, PTL DEF Spec

\* Whatever the processes, and wherever they die, recovery cuts no record
\* that a slot, a handle or a commit under way refers to (_ensure_meta).
THEOREM RecoveryCutsNothingNeeded == Spec => []RootsReadable
<1>1. Inv => RootsReadable
  BY DEF Inv, OnTrack, AllCovered, Covered, Opened, RootsReadable
<1> QED
  BY <1>1, HandlesInvariance, PTL

\* No process loses an update of another: a commit of staged writes extends
\* the newest commit by them (lock and commit_root_address).
THEOREM NoUpdateLost == Spec => StagedCommitExtends
<1>1. ASSUME Inv, NEW p \in Processes, Publish(p), lock = p, ~astray
      PROVE  Visible' = [k \in Keys |-> IF k \in handle[p].wrote THEN handle[p].tree[k]
                                        ELSE Visible[k]]
  <2>1. Based(handle[p]) /\ TypeOK
    BY <1>1 DEF Inv, OnTrack, LockCurrent
  <2>2. Visible' = handle[p].tree
    <3>1. slots'[Best(slots')] = [txn |-> handle[p].txn + 1, root |-> handle[p].root,
                                  len |-> Len(recs), map |-> handle[p].tree]
      BY <1>1, <2>1, PublishedIsBest, Zenon DEF Based
    <3> QED
      BY <3>1 DEF Visible
  <2>3. handle[p].tree \in [Keys -> Values \cup {NoValue}]
    BY <2>1 DEF TypeOK, Handle, Map
  <2> QED
    BY <2>1, <2>2, <2>3 DEF Based
<1>2. Inv /\ [Next]_vars =>
      [\A p \in Processes : Publish(p) /\ lock = p /\ ~astray =>
          Visible' = [k \in Keys |-> IF k \in handle[p].wrote THEN handle[p].tree[k] ELSE Visible[k]]]_vars
  BY <1>1
<1> QED
  BY <1>2, HandlesInvariance, PTL DEF Spec, StagedCommitExtends
=============================================================================
