----------------------------- MODULE Collection ----------------------------
(***************************************************************************)
(* The document collection (collection.py): documents, secondary index     *)
(* entries and expiry times as keys of one database, written by optimistic *)
(* transactions of several threads that share the collection.              *)
(*                                                                         *)
(* A transaction is its overlay and the values its snapshot has for the    *)
(* overlay's keys.  Its body runs when it begins; its commit is one step,  *)
(* as Database shows it to be.  Plain reads return the committed map.      *)
(***************************************************************************)
EXTENDS Integers, FiniteSets

CONSTANTS
    Keys, Fields,
    Numbers,            \* the numbers documents hold, as ints and as floats
    Lifetimes,          \* the ttl arguments that set() is given
    NoValue,            \* an absent key; ttl=None
    Threads,
    MaxClock            \* bound: ticks of the injected clock

ASSUME CollectionAssumption ==
    /\ Lifetimes \subseteq Nat
    /\ MaxClock \in Nat

VARIABLES
    db,                 \* the committed map
    indexes,            \* _indexes
    clock,
    calls,              \* per thread, the call it is in
    raced,              \* history: fields indexed while a writer was active
    contended,          \* history: keys on which two calls overlapped
    due                 \* history: the expiry each key was last set with

shared == <<db, indexes, clock, due>>
vars == <<db, indexes, clock, calls, raced, contended, due>>

-----------------------------------------------------------------------------
(* Values and the keys of the database.                                    *)

Null == <<"null", 0>>
Values == ({"int", "float"} \X Numbers) \cup {Null}
Documents == UNION {[S -> Values] : S \in SUBSET Fields}

\* What stands for an absent key is no value of a key.
ASSUME AbsentAssumption ==
    NoValue \notin Documents /\ NoValue \notin Nat /\ NoValue \notin Keys

\* _value_token: an integral float is written as the int it equals.
Token(v) == IF v[1] = "float" THEN <<"int", v[2]>> ELSE v

DocKey(k) == <<"doc", k>>
ExpiryKey(k) == <<"exp", k>>
IndexKey(f, v, k) == <<"idx", f, Token(v), k>>

IndexKeysOf(f) == {IndexKey(f, v, k) : v \in Values, k \in Keys}
DbKeys ==
    (UNION {{DocKey(k), ExpiryKey(k)} : k \in Keys}) \cup (UNION {IndexKeysOf(f) : f \in Fields})

Has(x) == db[x] # NoValue

-----------------------------------------------------------------------------
(* Reads and queries.                                                      *)

Expired(k) == Has(ExpiryKey(k)) /\ clock >= db[ExpiryKey(k)]

\* keys(): those get() would find.
LiveKeys == {k \in Keys : Has(DocKey(k)) /\ ~Expired(k)}

\* document.get(field)
FieldOf(doc, f) == IF f \in DOMAIN doc THEN doc[f] ELSE Null

\* Mutant: the equalities are not checked again.
MatchesAny(doc, equals) == TRUE

\* A query is a function from the fields of its where() calls to values.
Matches(doc, equals) ==
    \A f \in DOMAIN equals : Token(FieldOf(doc, f)) = Token(equals[f])

\* _candidate_keys with the usable indexes: the intersection of their
\* scans, or a full scan.
Candidates(equals, usable) ==
    IF DOMAIN equals \cap usable = {} THEN LiveKeys
    ELSE {k \in Keys : \A f \in DOMAIN equals \cap usable : Has(IndexKey(f, equals[f], k))}

\* Query.all(); filter() predicates would narrow either path alike.
All(equals, usable) ==
    {k \in Candidates(equals, usable) :
        Has(DocKey(k)) /\ ~Expired(k) /\ Matches(db[DocKey(k)], equals)}

-----------------------------------------------------------------------------
(* Calls and transactions.                                                 *)

Idle == [pc |-> "idle"]

\* Keys that thread t's call works on.
Busy(t) ==
    CASE calls[t].pc \in {"deleting", "writing"} -> {calls[t].key} \cup calls[t].queue
      [] calls[t].pc = "sweeping" -> calls[t].queue
      [] OTHER -> {}

BesidesOthers(t, ks) == ks \cap UNION {Busy(u) : u \in Threads \ {t}}

\* Fields whose index other threads are building.
Building == {calls[u].field : u \in {x \in Threads :
                calls[x].pc \in {"listing", "reading", "marking"}}}

Init ==
    /\ db = [x \in DbKeys |-> NoValue]
    /\ indexes \in SUBSET Fields
    /\ clock = 0
    /\ calls = [t \in Threads |-> Idle]
    /\ raced = {}
    /\ contended = {}
    /\ due = [k \in Keys |-> NoValue]

\* _unindex: the entries the transaction finds for a document.
Unindexed(k, doc) ==
    IF doc = NoValue THEN {}
    ELSE {x \in {IndexKey(f, doc[f], k) : f \in indexes \cap DOMAIN doc} : Has(x)}

\* Thread t's transaction has written overlay, read from this snapshot.
Writing(t, op, k, overlay, queue, ttl) ==
    /\ calls' = [calls EXCEPT ![t] =
          [pc |-> "writing", op |-> op, key |-> k, queue |-> queue, overlay |-> overlay,
           base |-> [x \in DOMAIN overlay |-> db[x]], due |-> ttl]]
    /\ raced' = raced \cup Building

\* Mutant: an entry holds the document.
EntryDocument(k, doc) == doc

\* What an index entry holds.
EntryValue(k, doc) == k

\* Mutant: a document renewed without a ttl keeps its expiry.
WrittenIfGiven(k, expiry) == IF expiry # NoValue THEN {ExpiryKey(k)} ELSE {}

\* The expiry is written or deleted if there is a ttl or was one.
WrittenExpiry(k, expiry) ==
    IF expiry # NoValue \/ Has(ExpiryKey(k)) THEN {ExpiryKey(k)} ELSE {}

\* The overlay of set(): the document, its entries instead of the old
\* ones, and its expiry, if it has or had one.
SetBody(k, doc, expiry) ==
    LET entries == {IndexKey(f, doc[f], k) : f \in indexes \cap DOMAIN doc}
        old == Unindexed(k, db[DocKey(k)])
    IN  [x \in {DocKey(k)} \cup entries \cup old \cup WrittenExpiry(k, expiry) |->
            CASE x = DocKey(k) -> doc
              [] x = ExpiryKey(k) -> expiry
              [] x \in entries -> EntryValue(k, doc)
              [] OTHER -> NoValue]

Set(t, k, doc, ttl) ==
    LET expiry == IF ttl = NoValue THEN NoValue ELSE clock + ttl IN
    /\ calls[t].pc = "idle"
    /\ Writing(t, "set", k, SetBody(k, doc, expiry), {}, expiry)
    /\ contended' = contended \cup BesidesOthers(t, {k})
    /\ UNCHANGED shared

\* delete() reads the document before its transaction; a missing one is a
\* KeyError.
Delete(t, k) ==
    /\ calls[t].pc = "idle"
    /\ Has(DocKey(k))
    /\ calls' = [calls EXCEPT ![t] =
          [pc |-> "deleting", op |-> "delete", key |-> k, doc |-> db[DocKey(k)], queue |-> {}]]
    /\ contended' = contended \cup BesidesOthers(t, {k})
    /\ UNCHANGED <<shared, raced>>

\* After a call of delete(): sweep() goes on with the next key.
Continue(t, queue) ==
    calls' = [calls EXCEPT ![t] =
        IF queue = {} THEN Idle ELSE [pc |-> "sweeping", queue |-> queue]]

DeleteBody(t) ==
    LET call == calls[t]
        k == call.key
        deleted == {DocKey(k)} \cup Unindexed(k, call.doc) \cup WrittenExpiry(k, NoValue)
    IN  /\ call.pc = "deleting"
        /\ IF Has(DocKey(k))
           THEN Writing(t, call.op, k, [x \in deleted |-> NoValue], call.queue, NoValue)
           ELSE Continue(t, call.queue) /\ UNCHANGED raced
        /\ UNCHANGED <<shared, contended>>

\* Mutant: whatever has an expiry is listed.
OverdueAny == {k \in Keys : Has(ExpiryKey(k))}

Overdue == {k \in Keys : Expired(k)}

\* sweep() lists what is expired and deletes it key by key.
SweepList(t) ==
    /\ calls[t].pc = "idle"
    /\ Overdue # {}
    /\ Continue(t, Overdue)
    /\ contended' = contended \cup BesidesOthers(t, Overdue)
    /\ UNCHANGED <<shared, raced>>

SweepNext(t, k) ==
    LET rest == calls[t].queue \ {k} IN
    /\ calls[t].pc = "sweeping"
    /\ k \in calls[t].queue
    /\ IF Has(DocKey(k))
       THEN calls' = [calls EXCEPT ![t] = [pc |-> "deleting", op |-> "sweep", key |-> k,
                                           doc |-> db[DocKey(k)], queue |-> rest]]
       ELSE Continue(t, rest)
    /\ UNCHANGED <<shared, raced, contended>>

-----------------------------------------------------------------------------
(* create_index                                                            *)

\* The transaction begins.
CreateIndex(t, f) ==
    /\ calls[t].pc = "idle"
    /\ calls' = [calls EXCEPT ![t] =
          [pc |-> "listing", field |-> f, base |-> [x \in IndexKeysOf(f) |-> db[x]]]]
    /\ raced' = IF \E u \in Threads : calls[u].pc = "writing" THEN raced \cup {f} ELSE raced
    /\ UNCHANGED <<shared, contended>>

\* The keys, and then the documents, are read from the database itself and
\* not through the transaction.
CreateList(t) ==
    /\ calls[t].pc = "listing"
    /\ calls' = [calls EXCEPT ![t] =
          [pc |-> "reading", field |-> calls[t].field, base |-> calls[t].base,
           queue |-> LiveKeys, overlay |-> {}]]
    /\ UNCHANGED <<shared, raced, contended>>

\* A document that has gone meanwhile raises KeyError.
CreateRead(t, k) ==
    LET call == calls[t]
        f == call.field
        doc == db[DocKey(k)]
        rest == call.queue \ {k}
        written == call.overlay \cup IF Has(DocKey(k)) /\ f \in DOMAIN doc
                                     THEN {IndexKey(f, doc[f], k)} ELSE {}
    IN  /\ call.pc = "reading"
        /\ k \in call.queue
        /\ calls' = [calls EXCEPT ![t] =
              IF Has(DocKey(k)) THEN [call EXCEPT !.queue = rest, !.overlay = written] ELSE Idle]
        /\ UNCHANGED <<shared, raced, contended>>

\* The commit; a conflict leaves the field unmarked.
Backfill(t) ==
    LET call == calls[t]
        conflict == \E x \in call.overlay : call.base[x] # db[x]
    IN  /\ call.pc = "reading"
        /\ call.queue = {}
        /\ calls' = [calls EXCEPT ![t] =
              IF conflict THEN Idle ELSE [pc |-> "marking", field |-> call.field]]
        /\ db' = IF conflict THEN db
                 ELSE [x \in DbKeys |-> IF x \in call.overlay THEN EntryValue(x[4], db[DocKey(x[4])]) ELSE db[x]]
        /\ UNCHANGED <<indexes, clock, due, raced, contended>>

Mark(t) ==
    /\ calls[t].pc = "marking"
    /\ indexes' = indexes \cup {calls[t].field}
    /\ calls' = [calls EXCEPT ![t] = Idle]
    /\ UNCHANGED <<db, clock, due, raced, contended>>

-----------------------------------------------------------------------------
(* Commits of set() and delete().                                          *)

Conflicts(t) == \E x \in DOMAIN calls[t].overlay : calls[t].base[x] # db[x]

\* ConflictError leaves the call, and sweep() with it.
Conflict(t) ==
    /\ calls[t].pc = "writing"
    /\ Conflicts(t)
    /\ calls' = [calls EXCEPT ![t] = Idle]
    /\ UNCHANGED <<shared, raced, contended>>

Publish(t) ==
    LET call == calls[t] IN
    /\ call.pc = "writing"
    /\ ~Conflicts(t)
    /\ db' = [x \in DbKeys |-> IF x \in DOMAIN call.overlay THEN call.overlay[x] ELSE db[x]]
    /\ due' = [due EXCEPT ![call.key] = call.due]
    /\ Continue(t, call.queue)
    /\ UNCHANGED <<indexes, clock, raced, contended>>

Tick ==
    /\ clock < MaxClock
    /\ clock' = clock + 1
    /\ UNCHANGED <<db, indexes, calls, raced, contended, due>>

Step(t) ==
    \/ \E k \in Keys, doc \in Documents, ttl \in Lifetimes \cup {NoValue} : Set(t, k, doc, ttl)
    \/ \E k \in Keys : Delete(t, k) \/ SweepNext(t, k) \/ CreateRead(t, k)
    \/ DeleteBody(t)
    \/ SweepList(t)
    \/ \E f \in Fields : CreateIndex(t, f)
    \/ CreateList(t)
    \/ Backfill(t)
    \/ Mark(t)
    \/ Conflict(t)
    \/ Publish(t)

Next == Tick \/ \E t \in Threads : Step(t)

Spec == Init /\ [][Next]_vars

-----------------------------------------------------------------------------
(* Properties.                                                             *)

\* Type correctness: the database maps document keys to documents, expiry
\* keys to times and index keys to the key they end in.
TypeOK ==
    /\ \A k \in Keys : /\ db[DocKey(k)] \in Documents \cup {NoValue}
                       /\ db[ExpiryKey(k)] \in Nat \cup {NoValue}
    /\ \A f \in Fields : \A x \in IndexKeysOf(f) : db[x] \in {x[4], NoValue}
    /\ indexes \subseteq Fields /\ raced \subseteq Fields /\ contended \subseteq Keys
    /\ clock \in 0..MaxClock
    /\ \A t \in Threads : calls[t].pc \in
          {"idle", "writing", "deleting", "sweeping", "listing", "reading", "marking"}

\* A query returns the same documents with any of the collection's indexes
\* as by a full scan, whatever sets, deletes and sweeps overlapped: entries
\* that a stale delete() leaves behind are harmless, because _matches()
\* checks again.  Two exceptions are the code's: an index that was built
\* while a writer was active, and documents without the field, which only
\* the scan takes for a where(field, None).
QueryAgrees ==
    \A usable \in SUBSET (indexes \ raced), equals \in Documents :
        LET scanned == All(equals, {})
            indexed == All(equals, usable)
        IN  /\ indexed \subseteq scanned
            /\ \A k \in scanned \ indexed :
                  ~(DOMAIN equals \cap usable \subseteq DOMAIN db[DocKey(k)])

\* Without overlapping calls on a key, its entries are exactly those of its
\* document, and it expires when its last set() said, if it said so
\* (set(), _unindex(), create_index()).  An expired document may be missing
\* from an index that was created since.
UncontendedExact ==
    \A k \in Keys \ contended :
        /\ db[ExpiryKey(k)] = due[k]
        /\ \A f \in indexes \ raced, v \in Values :
              LET doc == db[DocKey(k)]
                  holds == Has(DocKey(k)) /\ f \in DOMAIN doc /\ Token(doc[f]) = Token(v)
              IN  /\ Has(IndexKey(f, v, k)) => holds
                  /\ holds => Has(IndexKey(f, v, k)) \/ Expired(k)

\* sweep() removes no document that is alive, although it decides before it
\* deletes; unless a call on that key overlapped with it.
SweepSparesLive ==
    [][\A t \in Threads :
          Publish(t) /\ calls[t].op = "sweep" /\ calls[t].key \notin contended
              => Expired(calls[t].key)]_vars
=============================================================================
