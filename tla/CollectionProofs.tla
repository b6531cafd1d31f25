-------------------------- MODULE CollectionProofs --------------------------
(***************************************************************************)
(* Proofs about Collection: queries agree with or without indexes, a       *)
(* document's entries and expiry are exact unless calls on it overlap, and *)
(* sweep() spares what is alive, for any number of threads.                *)
(***************************************************************************)
EXTENDS Collection, TLAPS

\* The places in a call that works on a key, and that builds an index.
Works == {"deleting", "writing"}
Builds == {"listing", "reading", "marking"}

\* Key k has a document with value v in field f, up to the token.
Holds(f, v, k) ==
    Has(DocKey(k)) /\ f \in DOMAIN db[DocKey(k)] /\ Token(db[DocKey(k)][f]) = Token(v)

\* A query by field f has to find k, by this entry.
Owed(f, k) == Has(DocKey(k)) /\ f \in DOMAIN db[DocKey(k)] /\ ~Expired(k)
Entry(f, k) == IndexKey(f, db[DocKey(k)][f], k)

Functions == DOMAIN calls = Threads /\ DOMAIN due = Keys

DbTyped ==
    \A k \in Keys :
        /\ db[DocKey(k)] \in Documents \cup {NoValue}
        /\ db[ExpiryKey(k)] \in Nat \cup {NoValue}
        /\ \A f \in Fields, v \in Values : db[IndexKey(f, v, k)] \in {k, NoValue}

SetsTyped ==
    /\ indexes \subseteq Fields /\ raced \subseteq Fields /\ contended \subseteq Keys
    /\ clock \in 0..MaxClock

\* A transaction writes its document and keys that belong to it.
OverlayTyped(t) ==
    LET c == calls[t] IN
    /\ DocKey(c.key) \in DOMAIN c.overlay
    /\ c.overlay[DocKey(c.key)] \in Documents \cup {NoValue}
    /\ \A x \in DOMAIN c.overlay :
          \/ x = DocKey(c.key)
          \/ x = ExpiryKey(c.key) /\ c.overlay[x] \in Nat \cup {NoValue}
          \/ /\ \E f \in indexes, v \in Values : x = IndexKey(f, v, c.key)
             /\ c.overlay[x] \in {c.key, NoValue}

CallTyped(t) ==
    LET c == calls[t] IN
    /\ c.pc \in {"idle", "sweeping"} \cup Works \cup Builds
    /\ c.pc \in Works => /\ c.key \in Keys /\ c.queue \subseteq Keys \ {c.key}
                         /\ c.op # "sweep" => c.queue = {}
    /\ c.pc = "sweeping" => c.queue \subseteq Keys
    /\ c.pc = "deleting" => c.doc \in Documents
    /\ c.pc = "writing" => OverlayTyped(t)
    /\ c.pc \in Builds => c.field \in Fields
    /\ c.pc = "reading" => /\ c.queue \subseteq Keys /\ c.overlay \subseteq IndexKeysOf(c.field)
                           /\ {"pc", "field", "queue", "overlay"} \subseteq DOMAIN c

\* It writes the entries of its document for every index that no writer
\* raced with, and no other entry.
EntriesWritten(t) ==
    LET c == calls[t]
        doc == c.overlay[DocKey(c.key)] IN
    /\ \A f \in indexes \ raced : doc # NoValue /\ f \in DOMAIN doc =>
          /\ IndexKey(f, doc[f], c.key) \in DOMAIN c.overlay
          /\ c.overlay[IndexKey(f, doc[f], c.key)] # NoValue
    /\ \A f \in Fields, v \in Values :
          /\ IndexKey(f, v, c.key) \in DOMAIN c.overlay
          /\ c.overlay[IndexKey(f, v, c.key)] # NoValue
          => doc # NoValue /\ f \in DOMAIN doc /\ Token(doc[f]) = Token(v)

\* Unless another call works on the key, it replaces every entry that is
\* there, and leaves the expiry it was called with.
OldReplaced(t) ==
    LET c == calls[t] IN
    c.key \notin contended =>
        /\ \A f \in Fields \ raced, v \in Values :
              Has(IndexKey(f, v, c.key)) => IndexKey(f, v, c.key) \in DOMAIN c.overlay
        /\ IF ExpiryKey(c.key) \in DOMAIN c.overlay
           THEN c.overlay[ExpiryKey(c.key)] = c.due
           ELSE c.due = NoValue /\ ~Has(ExpiryKey(c.key))

\* delete() still knows the document that is there.
DocCurrent(t) ==
    LET c == calls[t] IN
    c.key \notin contended => c.doc = db[DocKey(c.key)]

\* A backfill has every document it has to index before it or behind it,
\* and then in the index.
ReadSoFar(f, queue, written) ==
    /\ \A k \in Keys : Owed(f, k) => k \in queue \/ Entry(f, k) \in written
    /\ \A k \in Keys, v \in Values : IndexKey(f, v, k) \in written => Holds(f, v, k)

BackfillReads(t) ==
    LET c == calls[t] IN c.field \notin raced => ReadSoFar(c.field, c.queue, c.overlay)

BackfillDone(t) ==
    LET c == calls[t] IN
    c.field \notin raced => \A k \in Keys : Owed(c.field, k) => Has(Entry(c.field, k))

\* What a sweep has yet to delete is expired.
SweepDue(t) ==
    LET c == calls[t] IN
    /\ c.pc \in Works /\ c.op = "sweep" =>
          \A k \in ({c.key} \cup c.queue) \ contended : Expired(k)
    /\ c.pc = "sweeping" => \A k \in c.queue \ contended : Expired(k)

CallInv(t) ==
    LET c == calls[t] IN
    /\ CallTyped(t)
    /\ c.pc = "writing" => EntriesWritten(t) /\ OldReplaced(t)
    /\ c.pc = "deleting" => DocCurrent(t)
    /\ c.pc = "reading" => BackfillReads(t)
    /\ c.pc = "marking" => BackfillDone(t)
    /\ SweepDue(t)

CallsInv == \A t \in Threads : CallInv(t)

\* While an index that is not in `raced` is built nobody writes.
BuildersAlone ==
    \A t, u \in Threads :
        calls[t].pc \in Builds /\ calls[t].field \notin raced => calls[u].pc # "writing"

Contention ==
    \A t, u \in Threads : t # u => Busy(t) \cap Busy(u) \subseteq contended

Complete == \A f \in indexes \ raced, k \in Keys : Owed(f, k) => Has(Entry(f, k))

StaleFree ==
    \A k \in Keys \ contended, f \in Fields \ raced, v \in Values :
        Has(IndexKey(f, v, k)) => Holds(f, v, k)

\* A field without an index has no entries until its backfill is in.
Unbuilt ==
    \A f \in Fields \ (indexes \cup raced) :
        \/ \E t \in Threads : calls[t].pc = "marking" /\ calls[t].field = f
        \/ \A k \in Keys, v \in Values : ~Has(IndexKey(f, v, k))

ExpiryKept == \A k \in Keys \ contended : db[ExpiryKey(k)] = due[k]

Inv ==
    /\ Functions
    /\ SetsTyped
    /\ DbTyped
    /\ CallsInv
    /\ BuildersAlone
    /\ Contention
    /\ Complete
    /\ StaleFree
    /\ Unbuilt
    /\ ExpiryKept

-----------------------------------------------------------------------------
(* The keys of the database.                                               *)

\* Documents, expiries and entries have keys of their own, and the key of an
\* entry tells its field, its token and its document.
LEMMA KeysDiffer ==
    ASSUME NEW k, NEW j, NEW f, NEW g, NEW v, NEW w
    PROVE  /\ DocKey(k) # ExpiryKey(j)
           /\ DocKey(k) # IndexKey(f, v, j)
           /\ ExpiryKey(k) # IndexKey(f, v, j)
           /\ DocKey(k) = DocKey(j) => k = j
           /\ ExpiryKey(k) = ExpiryKey(j) => k = j
           /\ IndexKey(f, v, k) = IndexKey(g, w, j) => f = g /\ Token(v) = Token(w) /\ k = j
           /\ f = g /\ Token(v) = Token(w) /\ k = j => IndexKey(f, v, k) = IndexKey(g, w, j)
           /\ IndexKey(f, v, k)[4] = k
BY DEF DocKey, ExpiryKey, IndexKey

\* Two entries of one index are the same only for one key and one token.
LEMMA SameEntry ==
    \A f, v, j, w, k : IndexKey(f, v, j) = IndexKey(f, w, k) => j = k /\ Token(v) = Token(w)
BY KeysDiffer

\* The keys of the database are these.
LEMMA KeysAre ==
    /\ \A k \in Keys : DocKey(k) \in DbKeys /\ ExpiryKey(k) \in DbKeys
    /\ \A f \in Fields, v \in Values, k \in Keys :
          IndexKey(f, v, k) \in DbKeys /\ IndexKey(f, v, k) \in IndexKeysOf(f)
    /\ \A f \in Fields : \A x \in IndexKeysOf(f) :
          \E v \in Values, k \in Keys : x = IndexKey(f, v, k)
<1>1. ASSUME NEW f \in Fields, NEW x
      PROVE  x \in IndexKeysOf(f) <=> \E v \in Values, k \in Keys : x = IndexKey(f, v, k)
  BY DEF IndexKeysOf
<1>2. \A f \in Fields : IndexKeysOf(f) \subseteq DbKeys
  BY DEF DbKeys
<1>3. \A k \in Keys : DocKey(k) \in DbKeys /\ ExpiryKey(k) \in DbKeys
  BY DEF DbKeys
<1>. QED  BY <1>1, <1>2, <1>3, Zenon

\* A document maps some of the fields to values.
LEMMA DocumentIs ==
    ASSUME NEW d \in Documents
    PROVE  DOMAIN d \subseteq Fields /\ \A f \in DOMAIN d : d[f] \in Values
BY DEF Documents

\* A document that stays, with its expiry, is owed the same entries.
LEMMA SameDocument ==
    ASSUME NEW k, db'[DocKey(k)] = db[DocKey(k)], db'[ExpiryKey(k)] = db[ExpiryKey(k)], clock' = clock
    PROVE  /\ Expired(k)' = Expired(k)
           /\ \A f, v : Holds(f, v, k)' = Holds(f, v, k)
           /\ \A f : Owed(f, k)' = Owed(f, k) /\ Entry(f, k)' = Entry(f, k)
BY DEF Expired, Has, Holds, Owed, Entry

\* The entry a document is owed is an entry of its key.
LEMMA EntryIs ==
    ASSUME DbTyped, NEW k \in Keys, NEW f, Owed(f, k)
    PROVE  f \in Fields /\ \E v \in Values : Entry(f, k) = IndexKey(f, v, k) /\ Holds(f, v, k)
<1>1. db[DocKey(k)] \in Documents /\ f \in DOMAIN db[DocKey(k)] /\ Has(DocKey(k))
  BY DEF DbTyped, Owed, Has
<1>2. f \in Fields /\ db[DocKey(k)][f] \in Values
  BY <1>1, DocumentIs
<1>. QED  BY <1>1, <1>2 DEF Entry, Holds

-----------------------------------------------------------------------------
(* The calls.                                                              *)

\* Reading one more document keeps what a backfill has read.
LEMMA ReadOn ==
    ASSUME NEW f, NEW k, NEW queue, NEW rest, NEW overlay, NEW written,
           ReadSoFar(f, queue, overlay), Has(DocKey(k)), overlay \subseteq written,
           f \in DOMAIN db[DocKey(k)] => Entry(f, k) \in written,
           \A x \in written \ overlay : f \in DOMAIN db[DocKey(k)] /\ x = Entry(f, k),
           \A j \in queue : j # k => j \in rest
    PROVE  ReadSoFar(f, rest, written)
<1>1. ASSUME NEW j \in Keys, Owed(f, j) PROVE j \in rest \/ Entry(f, j) \in written
  BY <1>1, Zenon DEF ReadSoFar, Owed
<1>2. ASSUME NEW j \in Keys, NEW v \in Values, IndexKey(f, v, j) \in written
      PROVE  Holds(f, v, j)
  <2>1. CASE IndexKey(f, v, j) \in overlay
    BY <2>1, Zenon DEF ReadSoFar
  <2>2. CASE f \in DOMAIN db[DocKey(k)] /\ IndexKey(f, v, j) = Entry(f, k)
    <3>1. j = k /\ Token(v) = Token(db[DocKey(k)][f])
      BY <2>2, SameEntry DEF Entry
    <3>. QED  BY <2>2, <3>1 DEF Holds
  <2>. QED  BY <1>2, <2>1, <2>2, Zenon
<1>. QED  BY <1>1, <1>2, Zenon DEF ReadSoFar

\* What a step adds that backfills field f with the entries o.
BackfillAdded(f, o) ==
    /\ \A k \in Keys : db'[DocKey(k)] = db[DocKey(k)] /\ db'[ExpiryKey(k)] = db[ExpiryKey(k)]
    /\ \A g \in Fields, v \in Values, k \in Keys :
          /\ IndexKey(g, v, k) \in o => db'[IndexKey(g, v, k)] = k /\ g = f
          /\ IndexKey(g, v, k) \notin o => db'[IndexKey(g, v, k)] = db[IndexKey(g, v, k)]

\* A backfill that commits adds the entries of its overlay, all of its field,
\* and changes nothing else in the database.
LEMMA BackfillAdds ==
    ASSUME DbTyped, NEW f \in Fields, NEW o \in SUBSET IndexKeysOf(f),
           db' = [x \in DbKeys |-> IF x \in o THEN EntryValue(x[4], db[DocKey(x[4])]) ELSE db[x]]
    PROVE  BackfillAdded(f, o) /\ DbTyped'
<1>1. \A x \in DbKeys : /\ x \in o => db'[x] = x[4]
                        /\ x \notin o => db'[x] = db[x]
  BY DEF EntryValue
<1>2. \A x \in o : \E v \in Values, k \in Keys : x = IndexKey(f, v, k)
  BY KeysAre, Zenon
<1>3. ASSUME NEW k \in Keys
      PROVE  db'[DocKey(k)] = db[DocKey(k)] /\ db'[ExpiryKey(k)] = db[ExpiryKey(k)]
  <2>1. DocKey(k) \notin o /\ ExpiryKey(k) \notin o
    BY <1>2, KeysDiffer
  <2>2. DocKey(k) \in DbKeys /\ ExpiryKey(k) \in DbKeys
    BY KeysAre, Zenon
  <2>. QED  BY <1>1, <2>1, <2>2
<1>4. ASSUME NEW g \in Fields, NEW v \in Values, NEW k \in Keys
      PROVE  /\ IndexKey(g, v, k) \in o => db'[IndexKey(g, v, k)] = k /\ g = f
             /\ IndexKey(g, v, k) \notin o => db'[IndexKey(g, v, k)] = db[IndexKey(g, v, k)]
  <2>1. IndexKey(g, v, k) \in DbKeys
    BY KeysAre, Zenon
  <2>2. IndexKey(g, v, k)[4] = k
    BY KeysDiffer, Zenon
  <2>3. ASSUME IndexKey(g, v, k) \in o PROVE g = f
    <3>1. PICK w \in Values, j \in Keys : IndexKey(g, v, k) = IndexKey(f, w, j)
      BY <1>2, <2>3, Zenon
    <3>. QED  BY <3>1, KeysDiffer
  <2>. QED  BY <1>1, <2>1, <2>2, <2>3
<1>5. DbTyped'
  <2>. SUFFICES ASSUME NEW k \in Keys
                PROVE  /\ db'[DocKey(k)] \in Documents \cup {NoValue}
                       /\ db'[ExpiryKey(k)] \in Nat \cup {NoValue}
                       /\ \A g \in Fields, v \in Values : db'[IndexKey(g, v, k)] \in {k, NoValue}
    BY Zenon DEF DbTyped
  <2>1. db'[DocKey(k)] \in Documents \cup {NoValue} /\ db'[ExpiryKey(k)] \in Nat \cup {NoValue}
    BY <1>3 DEF DbTyped
  <2>2. ASSUME NEW g \in Fields, NEW v \in Values PROVE db'[IndexKey(g, v, k)] \in {k, NoValue}
    <3>1. db[IndexKey(g, v, k)] \in {k, NoValue}
      BY DEF DbTyped
    <3>. QED  BY <1>4, <3>1
  <2>. QED  BY <2>1, <2>2
<1>. QED  BY <1>3, <1>4, <1>5, Zenon DEF BackfillAdded

\* A step of thread t leaves the calls of the others alone.
LEMMA OneMoves ==
    ASSUME Functions, NEW t \in Threads, NEW e, calls' = [calls EXCEPT ![t] = e]
    PROVE  /\ calls'[t] = e
           /\ \A u \in Threads : u # t => calls'[u] = calls[u]
           /\ DOMAIN calls' = Threads
BY DEF Functions

\* The keys a call works on.
LEMMA BusyIs ==
    ASSUME NEW t \in Threads
    PROVE  /\ calls[t].pc \in Works => Busy(t) = {calls[t].key} \cup calls[t].queue
           /\ calls[t].pc = "sweeping" => Busy(t) = calls[t].queue
           /\ calls[t].pc \notin Works \cup {"sweeping"} => Busy(t) = {}
BY DEF Busy, Works

\* A call that does not move keeps its type while indexes are added.
LEMMA CallTypedStays ==
    ASSUME NEW t \in Threads, CallTyped(t), calls'[t] = calls[t], indexes \subseteq indexes'
    PROVE  CallTyped(t)'
<1>1. calls[t].pc = "writing" => OverlayTyped(t)'
  BY DEF CallTyped, OverlayTyped
<1>. QED  BY <1>1, Zenon DEF CallTyped

\* What it writes for the indexes depends on nothing but them.
LEMMA EntriesStay ==
    ASSUME NEW t \in Threads, EntriesWritten(t), calls'[t] = calls[t],
           indexes' \ raced' \subseteq indexes \ raced
    PROVE  EntriesWritten(t)'
BY DEF EntriesWritten

\* A call that does not move keeps what is known of it, if the keys it works
\* on keep their documents and the fields it builds an index for theirs.
LEMMA CallKept ==
    ASSUME NEW t \in Threads, CallInv(t), calls'[t] = calls[t],
           indexes \subseteq indexes', raced \subseteq raced', contended \subseteq contended',
           calls[t].pc = "writing" => indexes' \ raced' \subseteq indexes \ raced,
           \A k \in Keys : k \in Busy(t) \ contended' =>
               /\ Expired(k) => Expired(k)'
               /\ db'[DocKey(k)] = db[DocKey(k)] /\ db'[ExpiryKey(k)] = db[ExpiryKey(k)]
               /\ calls[t].pc = "writing" => \A f \in Fields \ raced', v \in Values :
                     Has(IndexKey(f, v, k))' => Has(IndexKey(f, v, k)),
           calls[t].pc \in Builds /\ calls[t].field \notin raced' => \A f \in Fields, k \in Keys :
               /\ Owed(f, k)' => Owed(f, k)
               /\ Entry(f, k)' = Entry(f, k)
               /\ Owed(f, k) /\ Has(Entry(f, k)) => Has(Entry(f, k))'
               /\ \A v \in Values : Holds(f, v, k)' = Holds(f, v, k)
    PROVE  CallInv(t)'
<1>1. CallTyped(t) /\ CallTyped(t)'
  BY CallTypedStays DEF CallInv
<1>2. ASSUME calls[t].pc \in Works
      PROVE  /\ calls[t].key \in Keys /\ calls[t].key \in Busy(t) /\ calls[t].queue \subseteq Keys
             /\ Busy(t) = {calls[t].key} \cup calls[t].queue
  BY <1>1, <1>2, BusyIs DEF CallTyped
<1>3. ASSUME calls[t].pc = "writing" PROVE EntriesWritten(t)' /\ OldReplaced(t)'
  <2>1. EntriesWritten(t)' /\ OldReplaced(t)
    BY <1>3, EntriesStay DEF CallInv
  <2>2. PICK k \in Keys : k = calls[t].key /\ k \in Busy(t)
    BY <1>2, <1>3 DEF Works
  <2>3. k \notin contended' =>
            /\ Has(ExpiryKey(k))' = Has(ExpiryKey(k))
            /\ \A f \in Fields \ raced', v \in Values :
                  Has(IndexKey(f, v, k))' => Has(IndexKey(f, v, k))
    BY <1>3, <2>2 DEF Has
  <2>4. OldReplaced(t)'
    BY <2>1, <2>2, <2>3 DEF OldReplaced
  <2>. QED  BY <2>1, <2>4
<1>4. calls[t].pc = "deleting" => DocCurrent(t)'
  BY <1>2, Zenon DEF CallInv, DocCurrent, Works
<1>5. calls[t].pc = "reading" => BackfillReads(t)'
  <2>. SUFFICES ASSUME calls[t].pc = "reading" PROVE BackfillReads(t)'
    OBVIOUS
  <2>1. calls[t].pc \in Builds /\ calls[t].field \in Fields
    BY <1>1, Zenon DEF CallTyped, Builds
  <2>2. BackfillReads(t)
    BY Zenon DEF CallInv
  <2>. QED  BY <2>1, <2>2 DEF BackfillReads, ReadSoFar
<1>6. calls[t].pc = "marking" => BackfillDone(t)'
  BY <1>1 DEF CallInv, CallTyped, BackfillDone, Builds
<1>7. SweepDue(t)'
  <2>1. CASE calls[t].pc \in Works
    BY <1>2, <2>1, Zenon DEF CallInv, SweepDue, Works
  <2>2. CASE calls[t].pc = "sweeping"
    BY <1>1, <2>2, BusyIs DEF CallInv, CallTyped, SweepDue, Works
  <2>. QED  BY <2>1, <2>2 DEF SweepDue
<1>. QED  BY <1>1, <1>3, <1>4, <1>5, <1>6, <1>7, Zenon DEF CallInv

\* In particular when the database does not change.
LEMMA CallStays ==
    ASSUME NEW t \in Threads, CallInv(t), calls'[t] = calls[t], UNCHANGED <<db, indexes, clock>>,
           raced \subseteq raced', contended \subseteq contended'
    PROVE  CallInv(t)'
<1>1. /\ \A x : Has(x)' = Has(x)
      /\ \A f, v, k : Holds(f, v, k)' = Holds(f, v, k)
      /\ \A f, k : Owed(f, k)' = Owed(f, k) /\ Entry(f, k)' = Entry(f, k)
      /\ \A f, k : Has(Entry(f, k))' = Has(Entry(f, k))
      /\ \A k : Expired(k)' = Expired(k)
  BY DEF Has, Holds, Owed, Entry, Expired
<1>. QED  BY <1>1, CallKept

\* While only thread t moves, and neither to a transaction nor to a new
\* index, nothing new overlaps.
LEMMA NothingOverlaps ==
    ASSUME Inv, NEW t \in Threads, NEW e, calls' = [calls EXCEPT ![t] = e],
           UNCHANGED <<raced, contended>>, Busy(t)' \subseteq Busy(t), e.pc # "writing",
           e.pc \in Builds => calls[t].pc \in Builds /\ e.field = calls[t].field
    PROVE  BuildersAlone' /\ Contention'
<1>1. calls'[t] = e /\ \A u \in Threads : u # t => calls'[u] = calls[u]
  BY OneMoves, Zenon DEF Inv
<1>2. \A u \in Threads : Busy(u)' \subseteq Busy(u)
  BY <1>1 DEF Busy
<1>3. BuildersAlone'
  BY <1>1 DEF Inv, BuildersAlone
<1>4. Contention'
  BY <1>2 DEF Inv, Contention
<1>. QED  BY <1>3, <1>4

\* A step that only moves the call of thread t keeps the invariant if the
\* new call fits, works on no other key that is worked on than it says, and
\* is not a transaction beside an index that is being built.
LEMMA CallMoves ==
    ASSUME Inv, NEW t \in Threads, NEW e, calls' = [calls EXCEPT ![t] = e], UNCHANGED shared,
           raced \subseteq raced', raced' \subseteq Fields,
           contended \subseteq contended', contended' \subseteq Keys,
           calls[t].pc # "marking", CallInv(t)',
           \A u \in Threads \ {t} : Busy(t)' \cap Busy(u) \subseteq contended',
           e.pc \in Builds /\ e.field \notin raced' =>
               \A u \in Threads : u # t => calls[u].pc # "writing",
           e.pc = "writing" => Building \subseteq raced'
    PROVE  Inv'
<1>1. /\ calls'[t] = e
      /\ \A u \in Threads : u # t => calls'[u] = calls[u]
      /\ DOMAIN calls' = Threads
  BY OneMoves, Zenon DEF Inv
<1>2. UNCHANGED <<db, indexes, clock, due>>
  BY DEF shared
<1>3. Functions' /\ SetsTyped' /\ DbTyped' /\ ExpiryKept'
  BY <1>1, <1>2 DEF Inv, Functions, SetsTyped, DbTyped, ExpiryKept
<1>4. CallsInv'
  <2>. SUFFICES ASSUME NEW u \in Threads PROVE CallInv(u)'
    BY DEF CallsInv
  <2>1. CASE u = t
    BY <2>1
  <2>2. CASE u # t
    BY <1>1, <1>2, <2>2, CallStays, Zenon DEF Inv, CallsInv
  <2>. QED  BY <2>1, <2>2
<1>5. BuildersAlone'
  <2>. SUFFICES ASSUME NEW s \in Threads, NEW u \in Threads,
                       calls'[s].pc \in Builds, calls'[s].field \notin raced'
                PROVE  calls'[u].pc # "writing"
    BY DEF BuildersAlone
  <2>1. CASE s = t
    BY <1>1, <2>1 DEF Builds
  <2>2. CASE s # t /\ u = t
    <3>1. calls[s].field \in Building
      BY <1>1, <2>2 DEF Building, Builds
    <3>. QED  BY <1>1, <2>2, <3>1
  <2>3. CASE s # t /\ u # t
    BY <1>1, <2>3 DEF Inv, BuildersAlone
  <2>. QED  BY <2>1, <2>2, <2>3
<1>6. Contention'
  <2>1. \A u \in Threads : u # t => Busy(u)' = Busy(u)
    BY <1>1 DEF Busy
  <2>. SUFFICES ASSUME NEW s \in Threads, NEW u \in Threads, s # u
                PROVE  Busy(s)' \cap Busy(u)' \subseteq contended'
    BY DEF Contention
  <2>2. CASE s = t
    BY <2>1, <2>2
  <2>3. CASE u = t
    BY <2>1, <2>3
  <2>4. CASE s # t /\ u # t
    BY <2>1, <2>4 DEF Inv, Contention
  <2>. QED  BY <2>2, <2>3, <2>4
<1>7. /\ \A x : Has(x)' = Has(x)
      /\ \A f, v, k : Holds(f, v, k)' = Holds(f, v, k)
      /\ \A f, k : Owed(f, k)' = Owed(f, k) /\ Entry(f, k)' = Entry(f, k)
  BY <1>2 DEF Has, Holds, Owed, Entry, Expired
<1>8. Complete' /\ StaleFree'
  BY <1>2, <1>7 DEF Inv, Complete, StaleFree
<1>9. Unbuilt'
  BY <1>1, <1>2, <1>7 DEF Inv, Unbuilt
<1>. QED  BY <1>3, <1>4, <1>5, <1>6, <1>8, <1>9, Zenon DEF Inv

\* A call that goes idle leaves nothing to keep.
LEMMA IdleFits ==
    ASSUME NEW t \in Threads, calls'[t] = Idle
    PROVE  CallInv(t)' /\ Busy(t)' = {}
<1>1. calls'[t].pc = "idle"
  BY DEF Idle
<1>. QED  BY <1>1 DEF CallInv, CallTyped, SweepDue, Busy, Works, Builds

\* The rest of a sweep works on fewer keys, all of them expired.
LEMMA ContinueFits ==
    ASSUME Inv, NEW t \in Threads, NEW q \in SUBSET Keys, Continue(t, q),
           \A k \in q \ contended' : Expired(k)'
    PROVE  CallInv(t)' /\ Busy(t)' = q
           /\ \E e : calls' = [calls EXCEPT ![t] = e] /\ e.pc \in {"idle", "sweeping"}
<1>1. PICK e : /\ calls' = [calls EXCEPT ![t] = e]
               /\ e = IF q = {} THEN Idle ELSE [pc |-> "sweeping", queue |-> q]
  BY Zenon DEF Continue
<1>2. calls'[t] = e
  BY <1>1, OneMoves DEF Inv
<1>3. CASE q = {}
  <2>1. e = Idle /\ Idle.pc = "idle"
    BY <1>1, <1>3 DEF Idle
  <2>. QED  BY <1>1, <1>2, <1>3, <2>1, IdleFits, Zenon
<1>4. CASE q # {}
  <2>1. calls'[t].pc = "sweeping" /\ calls'[t].queue = q /\ e.pc = "sweeping"
    BY <1>1, <1>2, <1>4
  <2>2. CallInv(t)'
    BY <2>1 DEF CallInv, CallTyped, SweepDue, Works, Builds
  <2>3. Busy(t)' = q
    BY <2>1 DEF Busy
  <2>. QED  BY <1>1, <2>1, <2>2, <2>3, Zenon
<1>. QED  BY <1>3, <1>4

-----------------------------------------------------------------------------
(* The clock, and the commits of set() and delete().                       *)

\* Time passes: what is expired stays so, and fewer documents are owed an
\* entry.
LEMMA TickStep ==
    ASSUME Inv, Tick
    PROVE  Inv'
<1>1. /\ clock < MaxClock /\ clock' = clock + 1
      /\ UNCHANGED <<db, indexes, calls, raced, contended, due>>
  BY DEF Tick
<1>2. /\ \A x : Has(x)' = Has(x)
      /\ \A f, v, k : Holds(f, v, k)' = Holds(f, v, k)
      /\ \A f, k : Entry(f, k)' = Entry(f, k)
  BY <1>1 DEF Has, Holds, Entry
<1>3. \A k \in Keys : Expired(k) => Expired(k)'
  <2>. SUFFICES ASSUME NEW k \in Keys, Expired(k) PROVE Expired(k)'
    OBVIOUS
  <2>1. db[ExpiryKey(k)] \in Nat
    BY DEF Inv, DbTyped, Expired, Has
  <2>2. clock \in Nat
    BY CollectionAssumption DEF Inv, SetsTyped
  <2>. QED  BY <1>1, <2>1, <2>2 DEF Expired, Has
<1>4. \A f : \A k \in Keys : Owed(f, k)' => Owed(f, k)
  BY <1>1, <1>3 DEF Owed, Has
<1>5. SetsTyped'
  BY <1>1, CollectionAssumption DEF Inv, SetsTyped
<1>6. Functions' /\ DbTyped' /\ ExpiryKept' /\ BuildersAlone'
  BY <1>1, Zenon DEF Inv, Functions, DbTyped, ExpiryKept, BuildersAlone
<1>7. ASSUME NEW t \in Threads PROVE CallInv(t)'
  <2>1. CallInv(t) /\ calls'[t] = calls[t]
    BY <1>1 DEF Inv, CallsInv
  <2>2. \A f, k : Has(Entry(f, k))' = Has(Entry(f, k))
    BY <1>2 DEF Has
  <2>. QED  BY <1>1, <1>2, <1>3, <1>4, <2>1, <2>2, CallKept
<1>8. CallsInv'
  BY <1>7 DEF CallsInv
<1>9. Contention'
  <2>1. \A t \in Threads : Busy(t)' = Busy(t)
    BY <1>1 DEF Busy
  <2>. QED  BY <1>1, <2>1 DEF Inv, Contention
<1>10. Complete'
  BY <1>1, <1>2, <1>4 DEF Inv, Complete
<1>11. StaleFree' /\ Unbuilt'
  BY <1>1, <1>2 DEF Inv, StaleFree, Unbuilt
<1>. QED  BY <1>5, <1>6, <1>8, <1>9, <1>10, <1>11, Zenon DEF Inv

\* A step that commits the overlay o of a transaction on k leaves the other
\* keys alone, writes the document and its expiry, and writes its entries.
OthersSame(k) ==
    \A j \in Keys : j # k =>
        /\ db'[DocKey(j)] = db[DocKey(j)] /\ db'[ExpiryKey(j)] = db[ExpiryKey(j)]
        /\ \A f \in Fields, v \in Values : db'[IndexKey(f, v, j)] = db[IndexKey(f, v, j)]

DocumentPut(k, o) ==
    /\ db'[DocKey(k)] = o[DocKey(k)] /\ o[DocKey(k)] \in Documents \cup {NoValue}

ExpiryPut(k, o) ==
    /\ db'[ExpiryKey(k)] \in Nat \cup {NoValue}
    /\ db'[ExpiryKey(k)] = IF ExpiryKey(k) \in DOMAIN o THEN o[ExpiryKey(k)] ELSE db[ExpiryKey(k)]

EntriesPut(k, o) ==
    \A f \in Fields, v \in Values :
        /\ IndexKey(f, v, k) \notin DOMAIN o => db'[IndexKey(f, v, k)] = db[IndexKey(f, v, k)]
        /\ IndexKey(f, v, k) \in DOMAIN o =>
              /\ db'[IndexKey(f, v, k)] = o[IndexKey(f, v, k)]
              /\ o[IndexKey(f, v, k)] \in {k, NoValue} /\ f \in indexes

Published(k, o) == OthersSame(k) /\ DocumentPut(k, o) /\ ExpiryPut(k, o) /\ EntriesPut(k, o)

\* A transaction that commits changes its document, its expiry and entries of
\* its document, for the indexes there are.
LEMMA PublishWrites ==
    ASSUME Inv, NEW t \in Threads, Publish(t)
    PROVE  \E k \in Keys : \E o : k = calls[t].key /\ o = calls[t].overlay /\ Published(k, o)
<1>. PICK k \in Keys : k = calls[t].key
  BY DEF Publish, Inv, CallsInv, CallInv, CallTyped, Works
<1>0. PICK o : k = calls[t].key /\ o = calls[t].overlay
  OBVIOUS
<1>1. \A x \in DbKeys : /\ x \in DOMAIN o => db'[x] = o[x]
                        /\ x \notin DOMAIN o => db'[x] = db[x]
  BY <1>0 DEF Publish
<1>2. OverlayTyped(t)
  BY Zenon DEF Publish, Inv, CallsInv, CallInv, CallTyped
<1>3. /\ DocKey(k) \in DOMAIN o /\ o[DocKey(k)] \in Documents \cup {NoValue}
      /\ \A x \in DOMAIN o :
            \/ x = DocKey(k)
            \/ x = ExpiryKey(k) /\ o[x] \in Nat \cup {NoValue}
            \/ /\ \E f \in indexes, v \in Values : x = IndexKey(f, v, k)
               /\ o[x] \in {k, NoValue}
  BY <1>0, <1>2, Zenon DEF OverlayTyped
<1>4. /\ \A j \in Keys : DocKey(j) \in DbKeys /\ ExpiryKey(j) \in DbKeys
      /\ \A f \in Fields, v \in Values, j \in Keys : IndexKey(f, v, j) \in DbKeys
  BY KeysAre, Zenon
<1>5. ASSUME NEW j \in Keys, j # k
      PROVE  /\ db'[DocKey(j)] = db[DocKey(j)] /\ db'[ExpiryKey(j)] = db[ExpiryKey(j)]
             /\ \A f \in Fields, v \in Values : db'[IndexKey(f, v, j)] = db[IndexKey(f, v, j)]
  <2>1. DocKey(j) \notin DOMAIN o /\ ExpiryKey(j) \notin DOMAIN o
    <3>1. /\ DocKey(j) # DocKey(k) /\ DocKey(j) # ExpiryKey(k)
          /\ ExpiryKey(j) # DocKey(k) /\ ExpiryKey(j) # ExpiryKey(k)
      BY <1>5, KeysDiffer
    <3>2. \A f, v : DocKey(j) # IndexKey(f, v, k) /\ ExpiryKey(j) # IndexKey(f, v, k)
      BY KeysDiffer, SMTT(30)
    <3>. QED  BY <1>3, <3>1, <3>2, SMTT(30)
  <2>2. ASSUME NEW f, NEW v PROVE IndexKey(f, v, j) \notin DOMAIN o
    BY <1>3, <1>5, KeysDiffer, SMTT(30)
  <2>. QED  BY <1>1, <1>4, <2>1, <2>2
<1>6. db'[DocKey(k)] = o[DocKey(k)]
  BY <1>1, <1>3, <1>4
<1>7. /\ db'[ExpiryKey(k)] = IF ExpiryKey(k) \in DOMAIN o THEN o[ExpiryKey(k)] ELSE db[ExpiryKey(k)]
      /\ db'[ExpiryKey(k)] \in Nat \cup {NoValue}
  <2>1. ExpiryKey(k) \in DOMAIN o => o[ExpiryKey(k)] \in Nat \cup {NoValue}
    BY <1>3, KeysDiffer
  <2>2. db[ExpiryKey(k)] \in Nat \cup {NoValue}
    BY DEF Inv, DbTyped
  <2>. QED  BY <1>1, <1>4, <2>1, <2>2
<1>8. ASSUME NEW f \in Fields, NEW v \in Values
      PROVE  /\ IndexKey(f, v, k) \notin DOMAIN o => db'[IndexKey(f, v, k)] = db[IndexKey(f, v, k)]
             /\ IndexKey(f, v, k) \in DOMAIN o =>
                   /\ db'[IndexKey(f, v, k)] = o[IndexKey(f, v, k)]
                   /\ o[IndexKey(f, v, k)] \in {k, NoValue} /\ f \in indexes
  <2>1. ASSUME IndexKey(f, v, k) \in DOMAIN o
        PROVE  o[IndexKey(f, v, k)] \in {k, NoValue} /\ f \in indexes
    <3>1. IndexKey(f, v, k) # DocKey(k) /\ IndexKey(f, v, k) # ExpiryKey(k)
      BY KeysDiffer
    <3>2. PICK g \in indexes, w \in Values : IndexKey(f, v, k) = IndexKey(g, w, k)
      BY <1>3, <2>1, <3>1
    <3>3. f = g
      BY <3>2, KeysDiffer
    <3>. QED  BY <1>3, <2>1, <3>1, <3>3
  <2>. QED  BY <1>1, <1>4, <2>1
<1>9. Published(k, o)
  BY <1>3, <1>5, <1>6, <1>7, <1>8, Zenon
     DEF Published, OthersSame, DocumentPut, ExpiryPut, EntriesPut
<1>. QED  BY <1>0, <1>9, Zenon

\* The database after a commit is complete for every index that no writer
\* raced with: the transaction writes the entries of its document.
LEMMA PublishComplete ==
    ASSUME Inv, NEW t \in Threads, Publish(t)
    PROVE  DbTyped' /\ Complete'
<1>. PICK k \in Keys : \E o : k = calls[t].key /\ o = calls[t].overlay /\ Published(k, o)
  BY PublishWrites, Zenon
<1>1. PICK o : k = calls[t].key /\ o = calls[t].overlay /\ Published(k, o)
  OBVIOUS
<1>2. OthersSame(k) /\ DocumentPut(k, o) /\ ExpiryPut(k, o) /\ EntriesPut(k, o)
  BY <1>1, Zenon DEF Published
<1>3. UNCHANGED <<indexes, clock, raced, contended>>
  BY DEF Publish
<1>4. DbTyped'
  <2>. SUFFICES ASSUME NEW j \in Keys
                PROVE  /\ db'[DocKey(j)] \in Documents \cup {NoValue}
                       /\ db'[ExpiryKey(j)] \in Nat \cup {NoValue}
                       /\ \A f \in Fields, v \in Values : db'[IndexKey(f, v, j)] \in {j, NoValue}
    BY Zenon DEF DbTyped
  <2>1. /\ db[DocKey(j)] \in Documents \cup {NoValue}
        /\ db[ExpiryKey(j)] \in Nat \cup {NoValue}
        /\ \A f \in Fields, v \in Values : db[IndexKey(f, v, j)] \in {j, NoValue}
    BY Zenon DEF Inv, DbTyped
  <2>2. CASE j # k
    BY <1>2, <2>1, <2>2 DEF OthersSame
  <2>3. CASE j = k
    <3>1. ASSUME NEW f \in Fields, NEW v \in Values PROVE db'[IndexKey(f, v, j)] \in {j, NoValue}
      BY <1>2, <2>1, <2>3 DEF EntriesPut
    <3>. QED  BY <1>2, <2>3, <3>1, Zenon DEF DocumentPut, ExpiryPut
  <2>. QED  BY <2>2, <2>3
<1>5. Complete'
  <2>. SUFFICES ASSUME NEW f \in indexes \ raced, NEW j \in Keys, Owed(f, j)'
                PROVE  Has(Entry(f, j))'
    BY <1>3, Zenon DEF Complete
  <2>1. CASE j # k
    <3>1. Owed(f, j) /\ Entry(f, j)' = Entry(f, j)
      BY <1>2, <1>3, <2>1, SameDocument, Zenon DEF OthersSame
    <3>2. Has(Entry(f, j)) /\ DbTyped
      BY <3>1 DEF Inv, Complete
    <3>3. PICK v \in Values : f \in Fields /\ Entry(f, j) = IndexKey(f, v, j)
      BY <3>1, <3>2, EntryIs, Zenon
    <3>. QED  BY <1>2, <2>1, <3>1, <3>2, <3>3 DEF Has, OthersSame
  <2>2. CASE j = k
    <3>. DEFINE doc == o[DocKey(k)]
    <3>1. doc # NoValue /\ f \in DOMAIN doc /\ doc \in Documents
      BY <1>2, <2>2 DEF Owed, Has, DocumentPut
    <3>2. f \in Fields /\ doc[f] \in Values
      BY <3>1, DocumentIs
    <3>3. IndexKey(f, doc[f], k) \in DOMAIN o /\ o[IndexKey(f, doc[f], k)] # NoValue
      BY <1>1, <3>1, Zenon DEF Publish, Inv, CallsInv, CallInv, EntriesWritten
    <3>4. Entry(f, j)' = IndexKey(f, doc[f], k)
      BY <1>2, <2>2 DEF Entry, DocumentPut
    <3>. QED  BY <1>2, <3>2, <3>3, <3>4, Zenon DEF Has, EntriesPut
  <2>. QED  BY <2>1, <2>2
<1>. QED  BY <1>4, <1>5

\* It leaves no entry of an older document, nor another expiry than it was
\* called with, unless calls on the key overlap; and none for other fields.
LEMMA PublishExact ==
    ASSUME Inv, NEW t \in Threads, Publish(t)
    PROVE  StaleFree' /\ ExpiryKept' /\ Unbuilt' /\ DOMAIN due' = Keys
<1>. PICK k \in Keys : \E o : k = calls[t].key /\ o = calls[t].overlay /\ Published(k, o)
  BY PublishWrites, Zenon
<1>1. PICK o : k = calls[t].key /\ o = calls[t].overlay /\ Published(k, o)
  OBVIOUS
<1>2. OthersSame(k) /\ DocumentPut(k, o) /\ ExpiryPut(k, o) /\ EntriesPut(k, o)
  BY <1>1, Zenon DEF Published
<1>3. /\ UNCHANGED <<indexes, clock, raced, contended>> /\ calls[t].pc = "writing"
      /\ due' = [due EXCEPT ![k] = calls[t].due] /\ DOMAIN due = Keys
  BY <1>1, Zenon DEF Publish, Inv, Functions
<1>4. EntriesWritten(t) /\ OldReplaced(t)
  BY <1>3 DEF Inv, CallsInv, CallInv
<1>5. StaleFree'
  <2>. SUFFICES ASSUME NEW j \in Keys \ contended, NEW f \in Fields \ raced, NEW v \in Values,
                       Has(IndexKey(f, v, j))'
                PROVE  Holds(f, v, j)'
    BY <1>3 DEF StaleFree
  <2>1. CASE j # k
    <3>1. /\ db'[DocKey(j)] = db[DocKey(j)] /\ db'[ExpiryKey(j)] = db[ExpiryKey(j)]
          /\ db'[IndexKey(f, v, j)] = db[IndexKey(f, v, j)]
      BY <1>2, <2>1, Zenon DEF OthersSame
    <3>2. Has(IndexKey(f, v, j)) /\ Holds(f, v, j)' = Holds(f, v, j)
      BY <1>3, <3>1, SameDocument, Zenon DEF Has
    <3>. QED  BY <3>2, Zenon DEF Inv, StaleFree
  <2>2. CASE j = k
    <3>1. IndexKey(f, v, k) \in DOMAIN o
      <4>. SUFFICES ASSUME IndexKey(f, v, k) \notin DOMAIN o PROVE FALSE
        OBVIOUS
      <4>1. Has(IndexKey(f, v, k))
        BY <1>2, <2>2, Zenon DEF Has, EntriesPut
      <4>. QED  BY <1>1, <1>4, <2>2, <4>1 DEF OldReplaced
    <3>2. o[IndexKey(f, v, k)] # NoValue
      BY <1>2, <2>2, <3>1, Zenon DEF Has, EntriesPut
    <3>3. /\ o[DocKey(k)] # NoValue /\ f \in DOMAIN o[DocKey(k)]
          /\ Token(o[DocKey(k)][f]) = Token(v)
      BY <1>1, <1>4, <3>1, <3>2 DEF EntriesWritten
    <3>. QED  BY <1>2, <2>2, <3>3, Zenon DEF Holds, Has, DocumentPut
  <2>. QED  BY <2>1, <2>2, Zenon
<1>6. ExpiryKept'
  <2>. SUFFICES ASSUME NEW j \in Keys \ contended PROVE db'[ExpiryKey(j)] = due'[j]
    BY <1>3, Zenon DEF ExpiryKept
  <2>1. CASE j # k
    BY <1>2, <1>3, <2>1 DEF Inv, ExpiryKept, OthersSame
  <2>2. CASE j = k
    <3>1. due'[j] = calls[t].due
      BY <1>3, <2>2, Zenon
    <3>2. IF ExpiryKey(k) \in DOMAIN o THEN o[ExpiryKey(k)] = calls[t].due
          ELSE calls[t].due = NoValue /\ ~Has(ExpiryKey(k))
      BY <1>1, <1>4, <2>2 DEF OldReplaced
    <3>. QED  BY <1>2, <2>2, <3>1, <3>2 DEF Has, ExpiryPut
  <2>. QED  BY <2>1, <2>2
<1>7. Unbuilt'
  <2>. SUFFICES ASSUME NEW f \in Fields \ (indexes \cup raced)
                PROVE  \/ \E u \in Threads : calls'[u].pc = "marking" /\ calls'[u].field = f
                       \/ \A j \in Keys, v \in Values : ~Has(IndexKey(f, v, j))'
    BY <1>3 DEF Unbuilt
  <2>1. CASE \E u \in Threads : calls[u].pc = "marking" /\ calls[u].field = f
    <3>1. PICK e : calls' = [calls EXCEPT ![t] = e]
      BY Zenon DEF Publish, Continue
    <3>. QED  BY <1>3, <2>1, <3>1, OneMoves DEF Inv
  <2>2. CASE \A j \in Keys, v \in Values : ~Has(IndexKey(f, v, j))
    <3>1. ASSUME NEW j \in Keys, NEW v \in Values PROVE ~Has(IndexKey(f, v, j))'
      <4>1. db'[IndexKey(f, v, j)] = db[IndexKey(f, v, j)]
        BY <1>2, Zenon DEF OthersSame, EntriesPut
      <4>. QED  BY <2>2, <4>1 DEF Has
    <3>. QED  BY <3>1
  <2>. QED  BY <2>1, <2>2, Zenon DEF Inv, Unbuilt
<1>. QED  BY <1>3, <1>5, <1>6, <1>7

\* The other calls keep what is known of them: they work on other keys or the
\* key is contended, and an index being built has been raced with.
LEMMA PublishOthers ==
    ASSUME Inv, NEW t \in Threads, Publish(t), NEW u \in Threads, u # t, calls'[u] = calls[u]
    PROVE  CallInv(u)'
<1>. PICK k \in Keys : \E o : k = calls[t].key /\ o = calls[t].overlay /\ Published(k, o)
  BY PublishWrites, Zenon
<1>1. PICK o : k = calls[t].key /\ o = calls[t].overlay /\ Published(k, o)
  OBVIOUS
<1>2. OthersSame(k) /\ DocumentPut(k, o) /\ ExpiryPut(k, o) /\ EntriesPut(k, o)
  BY <1>1, Zenon DEF Published
<1>7. UNCHANGED <<indexes, clock, raced, contended>> /\ calls[t].pc = "writing"
  BY Zenon DEF Publish
<1>3. \A j \in Busy(u) \ contended : j # k
  <2>1. k \in Busy(t)
    BY <1>1, <1>7, BusyIs, Zenon DEF Works
  <2>. QED  BY <2>1 DEF Inv, Contention
<1>4. \A j \in Keys : j # k =>
          /\ db'[DocKey(j)] = db[DocKey(j)] /\ db'[ExpiryKey(j)] = db[ExpiryKey(j)]
          /\ \A f \in Fields, v \in Values : Has(IndexKey(f, v, j))' = Has(IndexKey(f, v, j))
  BY <1>2, Zenon DEF OthersSame, Has
<1>5. \A j \in Keys : j # k => Expired(j)' = Expired(j)
  BY <1>7, <1>4, SameDocument, Zenon
<1>6. CallInv(u) /\ (calls[u].pc \in Builds => calls[u].field \in raced)
  BY <1>7 DEF Inv, CallsInv, BuildersAlone
<1>. QED  BY <1>3, <1>4, <1>5, <1>6, <1>7, CallKept, Zenon

\* The commit of set() and delete(), after which a sweep goes on.
LEMMA PublishStep ==
    ASSUME Inv, NEW t \in Threads, Publish(t)
    PROVE  Inv'
<1>. PICK k \in Keys : \E o : k = calls[t].key /\ o = calls[t].overlay /\ Published(k, o)
  BY PublishWrites, Zenon
<1>0. PICK o : k = calls[t].key /\ o = calls[t].overlay /\ Published(k, o)
  OBVIOUS
<1>1. PICK q : q = calls[t].queue
  OBVIOUS
<1>2. /\ UNCHANGED <<indexes, clock, raced, contended>> /\ calls[t].pc = "writing"
      /\ Continue(t, q)
  BY <1>1, Zenon DEF Publish
<1>3. CallInv(t) /\ CallTyped(t) /\ calls[t].pc \in Works
  BY <1>2, Zenon DEF Inv, CallsInv, CallInv, Works
<1>4. q \in SUBSET Keys /\ k \notin q /\ Busy(t) = {k} \cup q
  BY <1>0, <1>1, <1>3, BusyIs DEF CallTyped
<1>5. \A j \in q \ contended' : Expired(j)'
  <2>1. \A j \in Keys : j # k =>
            db'[DocKey(j)] = db[DocKey(j)] /\ db'[ExpiryKey(j)] = db[ExpiryKey(j)]
    BY <1>0, Zenon DEF Published, OthersSame
  <2>2. \A j \in Keys : j # k => Expired(j)' = Expired(j)
    BY <1>2, <2>1, SameDocument
  <2>3. \A j \in q \ contended : Expired(j)
    BY <1>1, <1>3, Zenon DEF CallInv, CallTyped, SweepDue
  <2>. QED  BY <1>2, <1>4, <2>2, <2>3
<1>6. /\ CallInv(t)' /\ Busy(t)' = q
      /\ \E e : calls' = [calls EXCEPT ![t] = e] /\ e.pc \in {"idle", "sweeping"}
  BY <1>2, <1>4, <1>5, ContinueFits
<1>7. PICK e : calls' = [calls EXCEPT ![t] = e] /\ e.pc \in {"idle", "sweeping"}
  BY <1>6, Zenon
<1>8. /\ calls'[t] = e
      /\ \A u \in Threads : u # t => calls'[u] = calls[u]
      /\ DOMAIN calls' = Threads
  BY <1>7, OneMoves, Zenon DEF Inv
<1>9. DbTyped' /\ Complete' /\ StaleFree' /\ ExpiryKept' /\ Unbuilt' /\ DOMAIN due' = Keys
  BY PublishComplete, PublishExact, Zenon
<1>10. Functions' /\ SetsTyped'
  BY <1>2, <1>8, <1>9 DEF Inv, Functions, SetsTyped
<1>11. CallsInv'
  <2>. SUFFICES ASSUME NEW u \in Threads, u # t PROVE CallInv(u)'
    BY <1>6 DEF CallsInv
  <2>. QED  BY <1>8, PublishOthers, Zenon
<1>12. BuildersAlone' /\ Contention'
  <2>1. e.pc # "writing" /\ e.pc \notin Builds /\ Busy(t)' \subseteq Busy(t)
    BY <1>4, <1>6, <1>7 DEF Builds
  <2>. QED  BY <1>2, <1>7, <2>1, NothingOverlaps, Zenon
<1>. QED  BY <1>9, <1>10, <1>11, <1>12, Zenon DEF Inv

-----------------------------------------------------------------------------
(* The bodies of set() and delete().                                       *)

\* What the overlay o of a transaction on k and its expiry have to be.
Body(k, o, ttl) ==
    /\ DocKey(k) \in DOMAIN o
    /\ o[DocKey(k)] \in Documents \cup {NoValue}
    /\ \A x \in DOMAIN o :
          \/ x = DocKey(k)
          \/ x = ExpiryKey(k) /\ o[x] \in Nat \cup {NoValue}
          \/ (\E f \in indexes, v \in Values : x = IndexKey(f, v, k)) /\ o[x] \in {k, NoValue}
    /\ \A f \in indexes : o[DocKey(k)] # NoValue /\ f \in DOMAIN o[DocKey(k)] =>
          /\ IndexKey(f, o[DocKey(k)][f], k) \in DOMAIN o
          /\ o[IndexKey(f, o[DocKey(k)][f], k)] # NoValue
    /\ \A f \in Fields, v \in Values :
          IndexKey(f, v, k) \in DOMAIN o /\ o[IndexKey(f, v, k)] # NoValue =>
              /\ o[DocKey(k)] # NoValue /\ f \in DOMAIN o[DocKey(k)]
              /\ Token(o[DocKey(k)][f]) = Token(v)
    /\ IF ExpiryKey(k) \in DOMAIN o THEN o[ExpiryKey(k)] = ttl
                                    ELSE ttl = NoValue /\ ~Has(ExpiryKey(k))

\* _unindex finds entries of the document's key, and all that there are of
\* the document.
LEMMA UnindexedIs ==
    ASSUME SetsTyped, NEW k \in Keys, NEW doc \in Documents \cup {NoValue}
    PROVE  /\ \A x \in Unindexed(k, doc) : \E f \in indexes, v \in Values : x = IndexKey(f, v, k)
           /\ \A f \in indexes, v \in Values :
                 /\ doc # NoValue /\ f \in DOMAIN doc /\ Token(doc[f]) = Token(v)
                 /\ Has(IndexKey(f, v, k))
                 => IndexKey(f, v, k) \in Unindexed(k, doc)
<1>1. CASE doc = NoValue
  BY <1>1 DEF Unindexed
<1>2. CASE doc # NoValue
  <2>1. doc \in Documents
    BY <1>2
  <2>2. \A f \in DOMAIN doc : doc[f] \in Values
    BY <2>1, DocumentIs
  <2>3. \A x : x \in Unindexed(k, doc) <=>
            (\E f \in indexes \cap DOMAIN doc : x = IndexKey(f, doc[f], k)) /\ Has(x)
    BY <1>2 DEF Unindexed
  <2>4. \A f, v : Token(doc[f]) = Token(v) => IndexKey(f, doc[f], k) = IndexKey(f, v, k)
    BY KeysDiffer
  <2>5. \A x \in Unindexed(k, doc) : \E f \in indexes, v \in Values : x = IndexKey(f, v, k)
    BY <2>2, <2>3, Zenon
  <2>6. ASSUME NEW f \in indexes, NEW v \in Values, f \in DOMAIN doc, Token(doc[f]) = Token(v),
               Has(IndexKey(f, v, k))
        PROVE  IndexKey(f, v, k) \in Unindexed(k, doc)
    BY <2>3, <2>4, <2>6
  <2>. QED  BY <2>5, <2>6
<1>. QED  BY <1>1, <1>2

\* An overlay of set(), key by key.
LEMMA OverlayIs ==
    ASSUME NEW D, NEW a, NEW b, NEW E, NEW doc, NEW expiry, NEW k,
           NEW o, o = [x \in D |-> CASE x = a -> doc
                                   [] x = b -> expiry
                                   [] x \in E -> k
                                   [] OTHER -> NoValue],
           a # b, a \notin E, b \notin E,
           NEW x \in D
    PROVE  /\ x = a => o[x] = doc
           /\ x # a /\ x = b => o[x] = expiry
           /\ x # a /\ x # b /\ x \in E => o[x] = k
           /\ x # a /\ x # b /\ x \notin E => o[x] = NoValue
OBVIOUS

\* set() writes the document, its entries and its expiry.
LEMMA SetBodyFits ==
    ASSUME Inv, NEW k \in Keys, NEW doc \in Documents, NEW expiry \in Nat \cup {NoValue}
    PROVE  /\ Body(k, SetBody(k, doc, expiry), expiry)
           /\ Unindexed(k, db[DocKey(k)]) \subseteq DOMAIN SetBody(k, doc, expiry)
<1>. DEFINE entries == {IndexKey(f, doc[f], k) : f \in indexes \cap DOMAIN doc}
            old == Unindexed(k, db[DocKey(k)])
            D == {DocKey(k)} \cup entries \cup old \cup WrittenExpiry(k, expiry)
            o == SetBody(k, doc, expiry)
<1>0. /\ indexes \subseteq Fields /\ NoValue \notin Documents /\ NoValue \notin Keys
      /\ DOMAIN doc \subseteq Fields /\ \A f \in DOMAIN doc : doc[f] \in Values
      /\ SetsTyped /\ db[DocKey(k)] \in Documents \cup {NoValue}
  BY AbsentAssumption, DocumentIs DEF Inv, SetsTyped, DbTyped
<1>1. DOMAIN o = D
  BY DEF SetBody
<1>a. /\ DocKey(k) # ExpiryKey(k)
      /\ \A f, v : DocKey(k) # IndexKey(f, v, k) /\ ExpiryKey(k) # IndexKey(f, v, k)
      /\ \A f, v, g, w : IndexKey(f, v, k) = IndexKey(g, w, k) => f = g /\ Token(v) = Token(w)
  <2>1. ASSUME NEW f, NEW v PROVE DocKey(k) # IndexKey(f, v, k) /\ ExpiryKey(k) # IndexKey(f, v, k)
    BY KeysDiffer
  <2>2. ASSUME NEW f, NEW v, NEW g, NEW w, IndexKey(f, v, k) = IndexKey(g, w, k)
        PROVE  f = g /\ Token(v) = Token(w)
    BY <2>2, KeysDiffer
  <2>3. DocKey(k) # ExpiryKey(k)
    BY KeysDiffer
  <2>. QED  BY <2>1, <2>2, <2>3
<1>2. \A x \in D : /\ x = DocKey(k) => o[x] = doc
                   /\ x # DocKey(k) /\ x = ExpiryKey(k) => o[x] = expiry
                   /\ x # DocKey(k) /\ x # ExpiryKey(k) /\ x \in entries => o[x] = k
                   /\ x # DocKey(k) /\ x # ExpiryKey(k) /\ x \notin entries => o[x] = NoValue
  <2>1. o = [x \in D |-> CASE x = DocKey(k) -> doc
                           [] x = ExpiryKey(k) -> expiry
                           [] x \in entries -> k
                           [] OTHER -> NoValue]
    BY DEF SetBody, EntryValue
  <2>2. DocKey(k) \notin entries /\ ExpiryKey(k) \notin entries
    BY <1>a
  <2>. HIDE DEF o, D, entries
  <2>. QED  BY <1>a, <2>1, <2>2, OverlayIs
<1>3. \A x : x \in entries <=> \E f \in indexes \cap DOMAIN doc : x = IndexKey(f, doc[f], k)
  OBVIOUS
<1>4. \A x \in old : \E f \in indexes, v \in Values : x = IndexKey(f, v, k)
  BY <1>0, UnindexedIs, Zenon
<1>5. \A x \in entries : \E f \in indexes, v \in Values : x = IndexKey(f, v, k)
  BY <1>0, <1>3, Zenon
<1>6. /\ \A x \in WrittenExpiry(k, expiry) : x = ExpiryKey(k)
      /\ ExpiryKey(k) \notin WrittenExpiry(k, expiry) => expiry = NoValue /\ ~Has(ExpiryKey(k))
  BY DEF WrittenExpiry
<1>8. DocKey(k) \in D /\ o[DocKey(k)] = doc /\ doc # NoValue
  BY <1>0, <1>2
<1>9. ASSUME NEW x \in D
      PROVE  \/ x = DocKey(k)
             \/ x = ExpiryKey(k) /\ o[x] \in Nat \cup {NoValue}
             \/ (\E f \in indexes, v \in Values : x = IndexKey(f, v, k)) /\ o[x] \in {k, NoValue}
  BY <1>2, <1>4, <1>5, <1>6, <1>a
<1>10. ASSUME NEW f \in indexes, f \in DOMAIN doc
       PROVE  IndexKey(f, doc[f], k) \in D /\ o[IndexKey(f, doc[f], k)] # NoValue
  BY <1>0, <1>2, <1>3, <1>a, <1>10
<1>11. ASSUME NEW f \in Fields, NEW v \in Values, IndexKey(f, v, k) \in D,
              o[IndexKey(f, v, k)] # NoValue
       PROVE  f \in DOMAIN doc /\ Token(doc[f]) = Token(v)
  <2>1. IndexKey(f, v, k) \in entries
    BY <1>2, <1>a, <1>11
  <2>2. PICK g \in indexes \cap DOMAIN doc : IndexKey(f, v, k) = IndexKey(g, doc[g], k)
    BY <1>3, <2>1
  <2>. QED  BY <1>a, <2>2
<1>12. IF ExpiryKey(k) \in D THEN o[ExpiryKey(k)] = expiry
                             ELSE expiry = NoValue /\ ~Has(ExpiryKey(k))
  BY <1>2, <1>6, <1>a, Zenon
<1>13. old \subseteq D
  OBVIOUS
<1>. HIDE DEF entries, old, D, o
<1>14. Body(k, o, expiry)
  BY <1>1, <1>8, <1>9, <1>10, <1>11, <1>12, Zenon DEF Body
<1>. QED  BY <1>1, <1>13, <1>14 DEF o, old

\* delete() deletes the document, its entries and its expiry.
LEMMA DeleteBodyFits ==
    ASSUME Inv, NEW k \in Keys, NEW doc \in Documents,
           NEW o, o = [x \in {DocKey(k)} \cup Unindexed(k, doc) \cup WrittenExpiry(k, NoValue) |-> NoValue]
    PROVE  Body(k, o, NoValue) /\ Unindexed(k, doc) \subseteq DOMAIN o
<1>1. /\ DOMAIN o = {DocKey(k)} \cup Unindexed(k, doc) \cup WrittenExpiry(k, NoValue)
      /\ \A x \in DOMAIN o : o[x] = NoValue
  OBVIOUS
<1>2. \A x \in Unindexed(k, doc) : \E f \in indexes, v \in Values : x = IndexKey(f, v, k)
  BY UnindexedIs DEF Inv
<1>3. /\ \A x \in WrittenExpiry(k, NoValue) : x = ExpiryKey(k)
      /\ ExpiryKey(k) \notin WrittenExpiry(k, NoValue) => ~Has(ExpiryKey(k))
  BY DEF WrittenExpiry
<1>. QED  BY <1>1, <1>2, <1>3 DEF Body

\* A transaction whose body has run fits: it replaces the entries that are
\* there of every index, and those of an index to come make a race.
LEMMA WritingStep ==
    ASSUME Inv, NEW t \in Threads, calls[t].pc \in {"idle", "deleting"},
           NEW k \in Keys, NEW o, NEW q \in SUBSET (Keys \ {k}), NEW op, NEW ttl,
           Writing(t, op, k, o, q, ttl), UNCHANGED shared, Body(k, o, ttl),
           op # "sweep" => q = {},
           op = "sweep" => \A j \in ({k} \cup q) \ contended : Expired(j),
           k \notin contended' => \A f \in indexes, v \in Values :
               Holds(f, v, k) /\ Has(IndexKey(f, v, k)) => IndexKey(f, v, k) \in DOMAIN o,
           contended \subseteq contended', contended' \subseteq Keys,
           \A u \in Threads \ {t} : ({k} \cup q) \cap Busy(u) \subseteq contended'
    PROVE  Inv'
<1>1. PICK e : /\ calls' = [calls EXCEPT ![t] = e]
               /\ e.pc = "writing" /\ e.op = op /\ e.key = k /\ e.queue = q /\ e.overlay = o
               /\ e.due = ttl
  <2>. DEFINE b == [x \in DOMAIN o |-> db[x]]
              e == [pc |-> "writing", op |-> op, key |-> k, queue |-> q, overlay |-> o,
                    base |-> b, due |-> ttl]
  <2>1. calls' = [calls EXCEPT ![t] = e]
    BY Zenon DEF Writing
  <2>. HIDE DEF b
  <2>2. /\ e.pc = "writing" /\ e.op = op /\ e.key = k /\ e.queue = q /\ e.overlay = o
        /\ e.due = ttl
    OBVIOUS
  <2>. HIDE DEF e
  <2>. QED  BY <2>1, <2>2, Zenon
<1>2. calls'[t] = e
  BY <1>1, OneMoves, Zenon DEF Inv
<1>3. /\ raced' = raced \cup Building /\ UNCHANGED <<db, indexes, clock, due>>
      /\ indexes \subseteq Fields /\ SetsTyped
  BY Zenon DEF Writing, shared, Inv, SetsTyped
<1>4. Building \subseteq Fields
  <2>. SUFFICES ASSUME NEW u \in Threads, calls[u].pc \in Builds PROVE calls[u].field \in Fields
    BY Zenon DEF Building, Builds
  <2>. QED  BY Zenon DEF Inv, CallsInv, CallInv, CallTyped
<1>5. /\ \A x : Has(x)' = Has(x)
      /\ \A j : Expired(j)' = Expired(j)
  BY <1>3, Zenon DEF Has, Expired
<1>6. CallTyped(t)'
  <2>1. OverlayTyped(t)'
    <3>1. /\ DocKey(k) \in DOMAIN o
          /\ o[DocKey(k)] \in Documents \cup {NoValue}
          /\ \A x \in DOMAIN o :
                \/ x = DocKey(k)
                \/ x = ExpiryKey(k) /\ o[x] \in Nat \cup {NoValue}
                \/ /\ \E f \in indexes, v \in Values : x = IndexKey(f, v, k)
                   /\ o[x] \in {k, NoValue}
      BY Zenon DEF Body
    <3>2. calls'[t].key = k /\ calls'[t].overlay = o /\ indexes' = indexes
      BY <1>1, <1>2, <1>3, Zenon
    <3>. QED  BY <3>1, <3>2, Zenon DEF OverlayTyped
  <2>. QED  BY <1>1, <1>2, <2>1, Zenon DEF CallTyped, Works, Builds
<1>7. EntriesWritten(t)'
  <2>1. /\ \A f \in indexes : o[DocKey(k)] # NoValue /\ f \in DOMAIN o[DocKey(k)] =>
              /\ IndexKey(f, o[DocKey(k)][f], k) \in DOMAIN o
              /\ o[IndexKey(f, o[DocKey(k)][f], k)] # NoValue
        /\ \A f \in Fields, v \in Values :
              IndexKey(f, v, k) \in DOMAIN o /\ o[IndexKey(f, v, k)] # NoValue =>
                  /\ o[DocKey(k)] # NoValue /\ f \in DOMAIN o[DocKey(k)]
                  /\ Token(o[DocKey(k)][f]) = Token(v)
    BY Zenon DEF Body
  <2>2. calls'[t].key = k /\ calls'[t].overlay = o /\ indexes' = indexes
    BY <1>1, <1>2, <1>3, Zenon
  <2>. QED  BY <2>1, <2>2, Zenon DEF EntriesWritten
<1>8. OldReplaced(t)'
  <2>. SUFFICES ASSUME k \notin contended'
                PROVE  /\ \A f \in Fields \ raced', v \in Values :
                             Has(IndexKey(f, v, k)) => IndexKey(f, v, k) \in DOMAIN o
                       /\ IF ExpiryKey(k) \in DOMAIN o THEN o[ExpiryKey(k)] = ttl
                          ELSE ttl = NoValue /\ ~Has(ExpiryKey(k))
    BY <1>1, <1>2, <1>5 DEF OldReplaced
  <2>1. ASSUME NEW f \in Fields \ raced', NEW v \in Values, Has(IndexKey(f, v, k))
        PROVE  IndexKey(f, v, k) \in DOMAIN o
    <3>1. k \notin contended /\ f \notin raced /\ f \notin Building
      BY <1>3, Zenon
    <3>2. f \in indexes
      <4>1. \A u \in Threads : ~(calls[u].pc = "marking" /\ calls[u].field = f)
        BY <3>1, Zenon DEF Building
      <4>. QED  BY <2>1, <3>1, <4>1, Zenon DEF Inv, Unbuilt
    <3>3. Holds(f, v, k)
      BY <2>1, <3>1, Zenon DEF Inv, StaleFree
    <3>. QED  BY <2>1, <3>2, <3>3, Zenon
  <2>. QED  BY <2>1, Zenon DEF Body
<1>9. SweepDue(t)'
  BY <1>1, <1>2, <1>5, Zenon DEF SweepDue
<1>10. CallInv(t)'
  BY <1>1, <1>2, <1>6, <1>7, <1>8, <1>9, Zenon DEF CallInv
<1>11. Busy(t)' = {k} \cup q
  BY <1>1, <1>2, Zenon DEF Busy
<1>12. /\ \A u \in Threads \ {t} : Busy(t)' \cap Busy(u) \subseteq contended'
       /\ raced \subseteq raced' /\ raced' \subseteq Fields /\ Building \subseteq raced'
       /\ calls[t].pc # "marking" /\ e.pc \notin Builds
  BY <1>1, <1>3, <1>4, <1>11 DEF SetsTyped, Builds
<1>. QED  BY <1>1, <1>10, <1>12, CallMoves, Zenon

\* What another call has yet to do with the keys ks is contended.
LEMMA Besides ==
    ASSUME NEW t \in Threads, NEW ks, NEW u \in Threads \ {t}
    PROVE  ks \cap Busy(u) \subseteq BesidesOthers(t, ks)
BY DEF BesidesOthers

\* set() up to its commit.
LEMMA SetStep ==
    ASSUME Inv, NEW t \in Threads, NEW k \in Keys, NEW doc \in Documents,
           NEW ttl \in Lifetimes \cup {NoValue}, Set(t, k, doc, ttl)
    PROVE  Inv'
<1>. DEFINE expiry == IF ttl = NoValue THEN NoValue ELSE clock + ttl
<1>1. /\ calls[t].pc = "idle" /\ UNCHANGED shared
      /\ Writing(t, "set", k, SetBody(k, doc, expiry), {}, expiry)
      /\ contended' = contended \cup BesidesOthers(t, {k})
  BY DEF Set
<1>2. clock \in Nat /\ contended \subseteq Keys
  BY CollectionAssumption DEF Inv, SetsTyped
<1>3. expiry \in Nat \cup {NoValue}
  BY <1>2, CollectionAssumption
<1>. HIDE DEF expiry
<1>4. /\ Body(k, SetBody(k, doc, expiry), expiry)
      /\ Unindexed(k, db[DocKey(k)]) \subseteq DOMAIN SetBody(k, doc, expiry)
  BY <1>3, SetBodyFits
<1>5. db[DocKey(k)] \in Documents \cup {NoValue} /\ SetsTyped
  BY DEF Inv, DbTyped
<1>6. ASSUME NEW f \in indexes, NEW v \in Values, Holds(f, v, k), Has(IndexKey(f, v, k))
      PROVE  IndexKey(f, v, k) \in DOMAIN SetBody(k, doc, expiry)
  <2>1. IndexKey(f, v, k) \in Unindexed(k, db[DocKey(k)])
    BY <1>5, <1>6, UnindexedIs, Zenon DEF Holds, Has
  <2>. QED  BY <1>4, <2>1
<1>7. contended \subseteq contended' /\ contended' \subseteq Keys
  BY <1>1, <1>2 DEF BesidesOthers
<1>8. \A u \in Threads \ {t} : ({k} \cup {}) \cap Busy(u) \subseteq contended'
  BY <1>1, Besides
<1>. QED  BY <1>1, <1>4, <1>6, <1>7, <1>8, WritingStep, Zenon

\* A call of delete() that has read the document fits.
LEMMA DeletingFits ==
    ASSUME Inv, NEW t \in Threads, NEW k \in Keys, NEW q \in SUBSET (Keys \ {k}), NEW op,
           NEW e, e = [pc |-> "deleting", op |-> op, key |-> k, doc |-> db[DocKey(k)], queue |-> q],
           calls' = [calls EXCEPT ![t] = e], Has(DocKey(k)), UNCHANGED shared,
           op # "sweep" => q = {},
           op = "sweep" => \A j \in ({k} \cup q) \ contended : Expired(j),
           contended \subseteq contended'
    PROVE  CallInv(t)' /\ Busy(t)' = {k} \cup q /\ e.pc = "deleting"
<1>1. calls'[t] = e
  BY OneMoves, Zenon DEF Inv
<1>2. /\ e.pc = "deleting" /\ e.op = op /\ e.key = k /\ e.doc = db[DocKey(k)] /\ e.queue = q
  OBVIOUS
<1>3. db' = db /\ \A j : Expired(j)' = Expired(j)
  BY DEF shared, Expired, Has
<1>4. db[DocKey(k)] \in Documents
  BY Zenon DEF Inv, DbTyped, Has
<1>5. CallTyped(t)'
  BY <1>1, <1>2, <1>4 DEF CallTyped, Works, Builds
<1>6. DocCurrent(t)'
  BY <1>1, <1>2, <1>3 DEF DocCurrent
<1>7. SweepDue(t)'
  BY <1>1, <1>2, <1>3 DEF SweepDue
<1>8. Busy(t)' = {k} \cup q
  BY <1>1, <1>2 DEF Busy
<1>. QED  BY <1>1, <1>2, <1>5, <1>6, <1>7, <1>8 DEF CallInv

\* delete() up to its transaction.
LEMMA DeleteStep ==
    ASSUME Inv, NEW t \in Threads, NEW k \in Keys, Delete(t, k)
    PROVE  Inv'
<1>. DEFINE e == [pc |-> "deleting", op |-> "delete", key |-> k, doc |-> db[DocKey(k)], queue |-> {}]
<1>1. /\ calls[t].pc = "idle" /\ Has(DocKey(k)) /\ calls' = [calls EXCEPT ![t] = e]
      /\ contended' = contended \cup BesidesOthers(t, {k}) /\ UNCHANGED shared /\ raced' = raced
  BY DEF Delete
<1>2. contended \subseteq contended' /\ contended' \subseteq Keys /\ raced' \subseteq Fields
  BY <1>1, Zenon DEF BesidesOthers, Inv, SetsTyped
<1>3. CallInv(t)' /\ Busy(t)' = {k} \cup {} /\ e.pc = "deleting"
  <2>1. PICK q, op : q = {} /\ op = "delete"
    BY Zenon
  <2>2. q \in SUBSET (Keys \ {k}) /\ op # "sweep" /\ e.pc = "deleting"
    BY <2>1, Zenon
  <2>3. e = [pc |-> "deleting", op |-> op, key |-> k, doc |-> db[DocKey(k)], queue |-> q]
    BY <2>1
  <2>. HIDE DEF e
  <2>4. CallInv(t)' /\ Busy(t)' = {k} \cup q
    BY <1>1, <1>2, <2>1, <2>2, <2>3, DeletingFits, Zenon
  <2>. QED  BY <2>1, <2>2, <2>4
<1>4. \A u \in Threads \ {t} : Busy(t)' \cap Busy(u) \subseteq contended'
  BY <1>1, <1>3, Besides
<1>. HIDE DEF e
<1>5. e.pc \notin Builds /\ e.pc # "writing" /\ raced \subseteq raced'
  BY <1>1, <1>3 DEF Builds
<1>. QED  BY <1>1, <1>2, <1>3, <1>4, <1>5, CallMoves, Zenon

\* A step to a place where the call works on no more keys than before, and
\* neither writes nor builds, keeps the invariant.
LEMMA CallShrinks ==
    ASSUME Inv, NEW t \in Threads, NEW e, calls' = [calls EXCEPT ![t] = e], UNCHANGED shared,
           UNCHANGED <<raced, contended>>, calls[t].pc # "marking", CallInv(t)',
           Busy(t)' \subseteq Busy(t), e.pc \notin Builds \cup {"writing"}
    PROVE  Inv'
<1>1. \A u \in Threads \ {t} : Busy(t)' \cap Busy(u) \subseteq contended'
  BY DEF Inv, Contention
<1>2. /\ raced \subseteq raced' /\ raced' \subseteq Fields
      /\ contended \subseteq contended' /\ contended' \subseteq Keys
  BY DEF Inv, SetsTyped
<1>3. e.pc \notin Builds /\ e.pc # "writing"
  OBVIOUS
<1>. QED  BY <1>1, <1>2, <1>3, CallMoves, Zenon

\* The transaction of delete() up to its commit.
LEMMA DeleteBodyStep ==
    ASSUME Inv, NEW t \in Threads, DeleteBody(t)
    PROVE  Inv'
<1>. DEFINE k == calls[t].key
            q == calls[t].queue
            deleted == {DocKey(k)} \cup Unindexed(k, calls[t].doc) \cup WrittenExpiry(k, NoValue)
            o == [x \in deleted |-> NoValue]
<1>1. /\ calls[t].pc = "deleting" /\ UNCHANGED shared /\ contended' = contended
      /\ \/ Has(DocKey(k)) /\ Writing(t, calls[t].op, k, o, q, NoValue)
         \/ Continue(t, q) /\ raced' = raced
  BY Zenon DEF DeleteBody
<1>2. CallInv(t) /\ CallTyped(t)
  BY Zenon DEF Inv, CallsInv, CallInv
<1>3. /\ k \in Keys /\ q \in SUBSET (Keys \ {k}) /\ calls[t].doc \in Documents
      /\ (calls[t].op # "sweep" => q = {}) /\ calls[t].pc \in Works
  BY <1>1, <1>2, Zenon DEF CallTyped, Works
<1>4. calls[t].op = "sweep" => \A j \in ({k} \cup q) \ contended : Expired(j)
  BY <1>2, <1>3 DEF CallInv, SweepDue
<1>5. Busy(t) = {k} \cup q
  BY <1>3, BusyIs
<1>6. CASE Has(DocKey(k)) /\ Writing(t, calls[t].op, k, o, q, NoValue)
  <2>1. Body(k, o, NoValue) /\ Unindexed(k, calls[t].doc) \subseteq DOMAIN o
    BY <1>3, DeleteBodyFits
  <2>2. ASSUME k \notin contended', NEW f \in indexes, NEW v \in Values,
               Holds(f, v, k), Has(IndexKey(f, v, k))
        PROVE  IndexKey(f, v, k) \in DOMAIN o
    <3>1. calls[t].doc = db[DocKey(k)]
      BY <1>1, <1>2, <2>2, Zenon DEF CallInv, DocCurrent
    <3>2. IndexKey(f, v, k) \in Unindexed(k, calls[t].doc)
      BY <1>3, <2>2, <3>1, UnindexedIs DEF Inv, Holds, Has
    <3>. QED  BY <2>1, <3>2
  <2>3. \A u \in Threads \ {t} : ({k} \cup q) \cap Busy(u) \subseteq contended'
    BY <1>1, <1>5, Zenon DEF Inv, Contention
  <2>4. contended \subseteq contended' /\ contended' \subseteq Keys
    BY <1>1 DEF Inv, SetsTyped
  <2>. HIDE DEF k, q, o
  <2>. QED  BY <1>1, <1>3, <1>4, <1>6, <2>1, <2>2, <2>3, <2>4, WritingStep, Zenon
<1>7. CASE Continue(t, q) /\ raced' = raced
  <2>1. \A j \in q \ contended' : Expired(j)'
    <3>1. \A j : Expired(j)' = Expired(j)
      BY <1>1, Zenon DEF Expired, Has, shared
    <3>. QED  BY <1>1, <1>3, <1>4, <3>1, Zenon
  <2>. HIDE DEF q
  <2>2. /\ CallInv(t)' /\ Busy(t)' = q
        /\ \E e : calls' = [calls EXCEPT ![t] = e] /\ e.pc \in {"idle", "sweeping"}
    BY <1>3, <1>7, <2>1, ContinueFits
  <2>3. PICK e : calls' = [calls EXCEPT ![t] = e] /\ e.pc \in {"idle", "sweeping"}
    BY <2>2, Zenon
  <2>4. e.pc \notin Builds \cup {"writing"} /\ calls[t].pc # "marking" /\ Busy(t)' \subseteq Busy(t)
    BY <1>1, <1>5, <2>2, <2>3 DEF Builds
  <2>. QED  BY <1>1, <1>7, <2>2, <2>3, <2>4, CallShrinks, Zenon
<1>. QED  BY <1>1, <1>6, <1>7, Zenon

\* sweep() lists what is expired.
LEMMA SweepListStep ==
    ASSUME Inv, NEW t \in Threads, SweepList(t)
    PROVE  Inv'
<1>1. /\ calls[t].pc = "idle" /\ Continue(t, Overdue) /\ UNCHANGED shared /\ raced' = raced
      /\ contended' = contended \cup BesidesOthers(t, Overdue)
  BY Zenon DEF SweepList
<1>2. Overdue \in SUBSET Keys /\ \A j \in Overdue : Expired(j)'
  BY <1>1 DEF Overdue, Expired, Has, shared
<1>3. /\ CallInv(t)' /\ Busy(t)' = Overdue
      /\ \E e : calls' = [calls EXCEPT ![t] = e] /\ e.pc \in {"idle", "sweeping"}
  BY <1>1, <1>2, ContinueFits
<1>4. PICK e : calls' = [calls EXCEPT ![t] = e] /\ e.pc \in {"idle", "sweeping"}
  BY <1>3, Zenon
<1>5. contended \subseteq contended' /\ contended' \subseteq Keys /\ raced' \subseteq Fields
  BY <1>1, <1>2 DEF BesidesOthers, Inv, SetsTyped
<1>6. \A u \in Threads \ {t} : Busy(t)' \cap Busy(u) \subseteq contended'
  BY <1>1, <1>3, Besides
<1>7. /\ e.pc \notin Builds /\ e.pc # "writing" /\ calls[t].pc # "marking" /\ raced \subseteq raced'
  BY <1>1, <1>4 DEF Builds
<1>. QED  BY <1>1, <1>3, <1>4, <1>5, <1>6, <1>7, CallMoves, Zenon

\* sweep() takes the next key.
LEMMA SweepNextStep ==
    ASSUME Inv, NEW t \in Threads, NEW k \in Keys, SweepNext(t, k)
    PROVE  Inv'
<1>. DEFINE q == calls[t].queue
            rest == q \ {k}
            e == [pc |-> "deleting", op |-> "sweep", key |-> k, doc |-> db[DocKey(k)], queue |-> rest]
<1>1. /\ calls[t].pc = "sweeping" /\ k \in q /\ UNCHANGED shared /\ UNCHANGED <<raced, contended>>
      /\ \/ Has(DocKey(k)) /\ calls' = [calls EXCEPT ![t] = e]
         \/ Continue(t, rest)
  BY DEF SweepNext
<1>2. /\ q \subseteq Keys /\ Busy(t) = q /\ \A j \in q \ contended : Expired(j)
      /\ rest \in SUBSET (Keys \ {k}) /\ {k} \cup rest = q
  BY <1>1, BusyIs, Zenon DEF Inv, CallsInv, CallInv, CallTyped, SweepDue
<1>3. CASE Has(DocKey(k)) /\ calls' = [calls EXCEPT ![t] = e]
  <2>1. CallInv(t)' /\ Busy(t)' = {k} \cup rest /\ e.pc = "deleting"
    BY <1>1, <1>2, <1>3, DeletingFits, Zenon
  <2>. HIDE DEF e
  <2>2. e.pc \notin Builds \cup {"writing"} /\ calls[t].pc # "marking" /\ Busy(t)' \subseteq Busy(t)
    BY <1>1, <1>2, <2>1, Zenon DEF Builds
  <2>. QED  BY <1>1, <1>3, <2>1, <2>2, CallShrinks, Zenon
<1>4. CASE Continue(t, rest)
  <2>1. \A j \in rest \ contended' : Expired(j)'
    <3>1. \A j : Expired(j)' = Expired(j)
      BY <1>1, Zenon DEF Expired, Has, shared
    <3>. QED  BY <1>1, <1>2, <3>1
  <2>2. rest \in SUBSET Keys /\ rest \subseteq q
    BY <1>2
  <2>. HIDE DEF rest, q
  <2>3. /\ CallInv(t)' /\ Busy(t)' = rest
        /\ \E d : calls' = [calls EXCEPT ![t] = d] /\ d.pc \in {"idle", "sweeping"}
    BY <1>4, <2>1, <2>2, ContinueFits
  <2>4. PICK d : calls' = [calls EXCEPT ![t] = d] /\ d.pc \in {"idle", "sweeping"}
    BY <2>3, Zenon
  <2>5. d.pc \notin Builds \cup {"writing"} /\ calls[t].pc # "marking" /\ Busy(t)' \subseteq Busy(t)
    BY <1>1, <1>2, <2>2, <2>3, <2>4 DEF Builds
  <2>. QED  BY <1>1, <2>3, <2>4, <2>5, CallShrinks, Zenon
<1>. QED  BY <1>1, <1>3, <1>4

\* ConflictError.
LEMMA ConflictStep ==
    ASSUME Inv, NEW t \in Threads, Conflict(t)
    PROVE  Inv'
<1>1. /\ calls[t].pc = "writing" /\ calls' = [calls EXCEPT ![t] = Idle] /\ UNCHANGED shared
      /\ UNCHANGED <<raced, contended>>
  BY DEF Conflict
<1>2. CallInv(t)' /\ Busy(t)' = {}
  BY <1>1, OneMoves, IdleFits, Zenon DEF Inv
<1>3. Idle.pc \notin Builds \cup {"writing"} /\ calls[t].pc # "marking" /\ Busy(t)' \subseteq Busy(t)
  BY <1>1, <1>2 DEF Idle, Builds
<1>. QED  BY <1>1, <1>2, <1>3, CallShrinks, Zenon

-----------------------------------------------------------------------------
(* create_index                                                            *)

\* A call that builds an index works on no key: it fits if what it has read
\* fits.
LEMMA BuildMoves ==
    ASSUME Inv, NEW t \in Threads, NEW e, calls' = [calls EXCEPT ![t] = e], UNCHANGED shared,
           contended' = contended, raced \subseteq raced', raced' \subseteq Fields,
           calls[t].pc # "marking", e.pc \in {"listing", "reading"}, e.field \in Fields,
           e.pc = "reading" => /\ e.queue \subseteq Keys /\ e.overlay \subseteq IndexKeysOf(e.field)
                               /\ {"pc", "field", "queue", "overlay"} \subseteq DOMAIN e,
           e.pc = "reading" => BackfillReads(t)',
           e.field \notin raced' => \A u \in Threads : u # t => calls[u].pc # "writing"
    PROVE  Inv'
<1>1. calls'[t] = e
  BY OneMoves, Zenon DEF Inv
<1>2. CallInv(t)'
  BY <1>1, Zenon DEF CallInv, CallTyped, SweepDue, Works, Builds
<1>3. Busy(t)' = {}
  BY <1>1, Zenon DEF Busy
<1>4. /\ \A u \in Threads \ {t} : Busy(t)' \cap Busy(u) \subseteq contended'
      /\ e.pc # "writing" /\ contended \subseteq contended' /\ contended' \subseteq Keys
  BY <1>3 DEF Inv, SetsTyped
<1>. QED  BY <1>2, <1>4, CallMoves, Zenon

\* The transaction of create_index begins.
LEMMA CreateIndexStep ==
    ASSUME Inv, NEW t \in Threads, NEW f \in Fields, CreateIndex(t, f)
    PROVE  Inv'
<1>1. PICK e : /\ calls' = [calls EXCEPT ![t] = e] /\ e.pc = "listing" /\ e.field = f
  <2>. DEFINE b == [x \in IndexKeysOf(f) |-> db[x]]
              e == [pc |-> "listing", field |-> f, base |-> b]
  <2>1. calls' = [calls EXCEPT ![t] = e]
    BY DEF CreateIndex
  <2>. HIDE DEF b
  <2>2. e.pc = "listing" /\ e.field = f
    OBVIOUS
  <2>. HIDE DEF e
  <2>. QED  BY <2>1, <2>2, Zenon
<1>2. /\ calls[t].pc = "idle" /\ UNCHANGED shared /\ contended' = contended
      /\ raced' = IF \E u \in Threads : calls[u].pc = "writing" THEN raced \cup {f} ELSE raced
  BY DEF CreateIndex
<1>3. raced \subseteq raced' /\ raced' \subseteq Fields
  BY <1>2 DEF Inv, SetsTyped
<1>4. f \notin raced' => \A u \in Threads : u # t => calls[u].pc # "writing"
  BY <1>2
<1>5. calls[t].pc # "marking" /\ e.pc # "reading"
  BY <1>1, <1>2
<1>. QED  BY <1>1, <1>2, <1>3, <1>4, <1>5, BuildMoves, Zenon

\* create_index lists the keys.
LEMMA CreateListStep ==
    ASSUME Inv, NEW t \in Threads, CreateList(t)
    PROVE  Inv'
<1>. DEFINE f == calls[t].field
            e == [pc |-> "reading", field |-> f, base |-> calls[t].base,
                  queue |-> LiveKeys, overlay |-> {}]
<1>1. /\ calls[t].pc = "listing" /\ UNCHANGED shared /\ UNCHANGED <<raced, contended>>
      /\ calls' = [calls EXCEPT ![t] = e]
  BY Zenon DEF CreateList
<1>2. /\ e.pc = "reading" /\ e.field = f /\ e.queue = LiveKeys /\ e.overlay = {}
      /\ {"pc", "field", "queue", "overlay"} \subseteq DOMAIN e
  OBVIOUS
<1>. HIDE DEF e
<1>3. calls'[t] = e
  BY <1>1, OneMoves, Zenon DEF Inv
<1>4. f \in Fields /\ calls[t].pc \in Builds /\ LiveKeys \subseteq Keys
  BY <1>1, Zenon DEF Inv, CallsInv, CallInv, CallTyped, Builds, LiveKeys
<1>5. BackfillReads(t)'
  <2>1. \A g, k : Owed(g, k)' = Owed(g, k)
    BY <1>1 DEF Owed, Has, Expired, shared
  <2>2. \A k \in Keys : Owed(f, k) => k \in LiveKeys
    BY DEF Owed, LiveKeys
  <2>. QED  BY <1>2, <1>3, <2>1, <2>2 DEF BackfillReads, ReadSoFar
<1>6. f \notin raced' => \A u \in Threads : u # t => calls[u].pc # "writing"
  BY <1>1, <1>4 DEF Inv, BuildersAlone
<1>7. raced \subseteq raced' /\ raced' \subseteq Fields /\ calls[t].pc # "marking"
  BY <1>1 DEF Inv, SetsTyped
<1>. QED  BY <1>1, <1>2, <1>4, <1>5, <1>6, <1>7, BuildMoves, Zenon

\* create_index reads a document, which may have gone.
LEMMA CreateReadStep ==
    ASSUME Inv, NEW t \in Threads, NEW k \in Keys, CreateRead(t, k)
    PROVE  Inv'
<1>. DEFINE c == calls[t]
            f == c.field
            doc == db[DocKey(k)]
            rest == c.queue \ {k}
            written == c.overlay \cup IF Has(DocKey(k)) /\ f \in DOMAIN doc
                                      THEN {IndexKey(f, doc[f], k)} ELSE {}
            e == [c EXCEPT !.queue = rest, !.overlay = written]
<1>1. /\ c.pc = "reading" /\ k \in c.queue /\ UNCHANGED shared /\ UNCHANGED <<raced, contended>>
      /\ calls' = [calls EXCEPT ![t] = IF Has(DocKey(k)) THEN e ELSE Idle]
  BY DEF CreateRead
<1>2. CASE ~Has(DocKey(k))
  <2>1. calls' = [calls EXCEPT ![t] = Idle]
    BY <1>1, <1>2
  <2>2. CallInv(t)' /\ Busy(t)' = {}
    BY <2>1, OneMoves, IdleFits, Zenon DEF Inv
  <2>3. Idle.pc \notin Builds \cup {"writing"} /\ calls[t].pc # "marking" /\ Busy(t)' \subseteq Busy(t)
    BY <1>1, <2>2 DEF Idle, Builds
  <2>. QED  BY <1>1, <2>1, <2>2, <2>3, CallShrinks, Zenon
<1>3. CASE Has(DocKey(k))
  <2>1. calls' = [calls EXCEPT ![t] = e]
    BY <1>1, <1>3, Zenon
  <2>2. CallInv(t) /\ CallTyped(t)
    BY DEF Inv, CallsInv, CallInv
  <2>3. /\ f \in Fields /\ c.queue \subseteq Keys /\ c.overlay \subseteq IndexKeysOf(f)
        /\ BackfillReads(t) /\ c.pc \in Builds /\ doc \in Documents
        /\ {"pc", "field", "queue", "overlay"} \subseteq DOMAIN c
    BY <1>1, <1>3, <2>2 DEF CallInv, CallTyped, Builds, Inv, DbTyped, Has
  <2>4. \A g \in DOMAIN doc : doc[g] \in Values
    BY <2>3, DocumentIs, Zenon
  <2>5. written \subseteq IndexKeysOf(f)
    BY <2>3, <2>4, KeysAre, Zenon
  <2>6. /\ c.overlay \subseteq written
        /\ f \in DOMAIN doc => Entry(f, k) \in written
        /\ \A x \in written \ c.overlay : f \in DOMAIN doc /\ x = Entry(f, k)
    BY <1>3 DEF Entry
  <2>7. /\ e.pc = "reading" /\ e.field = f /\ e.queue = rest /\ e.overlay = written
        /\ {"pc", "field", "queue", "overlay"} \subseteq DOMAIN e
    BY <1>1, <2>3, Zenon
  <2>8. rest \subseteq Keys /\ \A j \in c.queue : j # k => j \in rest
    BY <2>3
  <2>. HIDE DEF written, rest, e
  <2>9. calls'[t] = e
    BY <2>1, OneMoves, Zenon DEF Inv
  <2>10. BackfillReads(t)'
    <3>1. /\ \A g, j : Owed(g, j)' = Owed(g, j) /\ Entry(g, j)' = Entry(g, j)
          /\ \A g, v, j : Holds(g, v, j)' = Holds(g, v, j)
      BY <1>1, Zenon DEF Owed, Has, Expired, Entry, Holds, shared
    <3>2. /\ calls'[t].field = f /\ calls'[t].queue = rest /\ calls'[t].overlay = written
          /\ raced' = raced
      BY <1>1, <2>7, <2>9, Zenon
    <3>3. f \notin raced => ReadSoFar(f, c.queue, c.overlay)
      BY <2>3, Zenon DEF BackfillReads
    <3>4. f \notin raced => ReadSoFar(f, rest, written)
      BY <1>3, <2>6, <2>8, <3>3, ReadOn, Zenon
    <3>. HIDE DEF f
    <3>. QED  BY <3>1, <3>2, <3>4 DEF BackfillReads, ReadSoFar
  <2>11. f \notin raced' => \A u \in Threads : u # t => calls[u].pc # "writing"
    BY <1>1, <2>3 DEF Inv, BuildersAlone
  <2>12. raced \subseteq raced' /\ raced' \subseteq Fields /\ calls[t].pc # "marking"
    BY <1>1 DEF Inv, SetsTyped
  <2>. QED  BY <1>1, <2>1, <2>3, <2>5, <2>7, <2>8, <2>10, <2>11, <2>12, BuildMoves, Zenon
<1>. QED  BY <1>2, <1>3

\* The commit of create_index.
LEMMA BackfillStep ==
    ASSUME Inv, NEW t \in Threads, Backfill(t)
    PROVE  Inv'
<1>0. PICK f, o : f = calls[t].field /\ o = calls[t].overlay
  OBVIOUS
<1>. DEFINE e == [pc |-> "marking", field |-> f]
<1>1. /\ calls[t].pc = "reading" /\ calls[t].queue = {}
      /\ UNCHANGED <<indexes, clock, due, raced, contended>>
      /\ \/ calls' = [calls EXCEPT ![t] = Idle] /\ db' = db
         \/ /\ calls' = [calls EXCEPT ![t] = e]
            /\ db' = [x \in DbKeys |-> IF x \in o THEN EntryValue(x[4], db[DocKey(x[4])]) ELSE db[x]]
  BY <1>0, Zenon DEF Backfill
<1>2. CASE calls' = [calls EXCEPT ![t] = Idle] /\ db' = db
  <2>1. CallInv(t)' /\ Busy(t)' = {}
    BY <1>2, OneMoves, IdleFits, Zenon DEF Inv
  <2>2. Idle.pc \notin Builds \cup {"writing"} /\ calls[t].pc # "marking" /\ Busy(t)' \subseteq Busy(t)
    BY <1>1, <2>1 DEF Idle, Builds
  <2>3. UNCHANGED shared /\ UNCHANGED <<raced, contended>>
    BY <1>1, <1>2, Zenon DEF shared
  <2>. QED  BY <1>2, <2>1, <2>2, <2>3, CallShrinks, Zenon
<1>3. CASE /\ calls' = [calls EXCEPT ![t] = e]
           /\ db' = [x \in DbKeys |-> IF x \in o THEN EntryValue(x[4], db[DocKey(x[4])]) ELSE db[x]]
  <2>1. e.pc = "marking" /\ e.field = f
    OBVIOUS
  <2>. HIDE DEF e
  <2>2. /\ calls'[t] = e
        /\ \A u \in Threads : u # t => calls'[u] = calls[u]
        /\ DOMAIN calls' = Threads
    BY <1>3, OneMoves, Zenon DEF Inv
  <2>3. /\ f \in Fields /\ o \in SUBSET IndexKeysOf(f) /\ BackfillReads(t)
        /\ calls[t].pc \in Builds /\ DbTyped
    BY <1>0, <1>1 DEF Inv, CallsInv, CallInv, CallTyped, Builds
  <2>4. BackfillAdded(f, o) /\ DbTyped'
    BY <1>3, <2>3, BackfillAdds, Zenon
  <2>5. /\ \A k \in Keys : db'[DocKey(k)] = db[DocKey(k)] /\ db'[ExpiryKey(k)] = db[ExpiryKey(k)]
        /\ \A k \in Keys : Expired(k)' = Expired(k)
        /\ \A g, v : \A k \in Keys : Holds(g, v, k)' = Holds(g, v, k)
        /\ \A g : \A k \in Keys : Owed(g, k)' = Owed(g, k) /\ Entry(g, k)' = Entry(g, k)
    BY <1>1, <2>4, SameDocument, Zenon DEF BackfillAdded
  <2>6. \A g \in Fields, v \in Values, k \in Keys :
            /\ Has(IndexKey(g, v, k))' <=> Has(IndexKey(g, v, k)) \/ IndexKey(g, v, k) \in o
            /\ IndexKey(g, v, k) \in o => g = f
    BY <2>4, AbsentAssumption DEF Has, BackfillAdded
  <2>7. ASSUME NEW g, NEW k \in Keys, Owed(g, k), Has(Entry(g, k)) \/ Entry(g, k) \in o
        PROVE  Has(Entry(g, k))'
    <3>1. PICK v \in Values : Entry(g, k) = IndexKey(g, v, k) /\ g \in Fields
      BY <2>3, <2>7, EntryIs
    <3>2. Entry(g, k)' = IndexKey(g, v, k) /\ Has(IndexKey(g, v, k))'
      BY <2>5, <2>6, <2>7, <3>1, Zenon
    <3>. QED  BY <3>2 DEF Has
  <2>8. Functions' /\ SetsTyped' /\ ExpiryKept'
    BY <1>1, <2>2, <2>5 DEF Inv, Functions, SetsTyped, ExpiryKept
  <2>9. CallInv(t)' /\ Busy(t)' = {}
    <3>1. f \notin raced => \A k \in Keys : Owed(f, k) => Entry(f, k) \in o
      BY <1>0, <1>1, <2>3 DEF BackfillReads, ReadSoFar
    <3>2. BackfillDone(t)'
      BY <1>1, <2>1, <2>2, <2>5, <2>7, <3>1, Zenon DEF BackfillDone
    <3>. QED  BY <2>1, <2>2, <2>3, <3>2 DEF CallInv, CallTyped, SweepDue, Works, Builds, Busy
  <2>10. ASSUME NEW u \in Threads, u # t PROVE CallInv(u)'
    <3>1. calls[u].pc = "writing" => f \in raced
      BY <1>0, <2>3, Zenon DEF Inv, BuildersAlone
    <3>2. CallInv(u) /\ calls'[u] = calls[u]
      BY <2>2, <2>10 DEF Inv, CallsInv
    <3>. QED  BY <1>1, <2>5, <2>6, <2>7, <3>1, <3>2, CallKept, Zenon
  <2>11. CallsInv'
    BY <2>9, <2>10, Zenon DEF CallsInv
  <2>12. BuildersAlone' /\ Contention'
    BY <1>0, <1>1, <1>3, <2>1, <2>3, <2>9, NothingOverlaps, Zenon
  <2>13. Complete'
    BY <1>1, <2>5, <2>7 DEF Inv, Complete
  <2>14. StaleFree'
    <3>. SUFFICES ASSUME NEW k \in Keys \ contended, NEW g \in Fields \ raced, NEW v \in Values,
                         Has(IndexKey(g, v, k))'
                  PROVE  Holds(g, v, k)
      BY <1>1, <2>5 DEF StaleFree
    <3>1. CASE Has(IndexKey(g, v, k))
      BY <3>1, Zenon DEF Inv, StaleFree
    <3>2. CASE IndexKey(g, v, k) \in o
      BY <1>0, <2>3, <2>6, <3>2, Zenon DEF BackfillReads, ReadSoFar
    <3>. QED  BY <2>6, <3>1, <3>2, Zenon
  <2>15. Unbuilt'
    <3>. SUFFICES ASSUME NEW g \in Fields \ (indexes \cup raced)
                  PROVE  \/ \E u \in Threads : calls'[u].pc = "marking" /\ calls'[u].field = g
                         \/ \A k \in Keys, v \in Values : ~Has(IndexKey(g, v, k))'
      BY <1>1 DEF Unbuilt
    <3>1. CASE g = f
      BY <2>1, <2>2, <3>1, Zenon
    <3>2. CASE \E u \in Threads : calls[u].pc = "marking" /\ calls[u].field = g
      BY <1>1, <2>2, <3>2
    <3>3. CASE g # f /\ \A k \in Keys, v \in Values : ~Has(IndexKey(g, v, k))
      BY <2>6, <3>3, Zenon
    <3>. QED  BY <3>1, <3>2, <3>3 DEF Inv, Unbuilt
  <2>. QED  BY <2>4, <2>8, <2>11, <2>12, <2>13, <2>14, <2>15, Zenon DEF Inv
<1>. QED  BY <1>1, <1>2, <1>3

\* create_index marks the field as indexed.
LEMMA MarkStep ==
    ASSUME Inv, NEW t \in Threads, Mark(t)
    PROVE  Inv'
<1>1. PICK f : f = calls[t].field
  OBVIOUS
<1>2. /\ calls[t].pc = "marking" /\ indexes' = indexes \cup {f}
      /\ calls' = [calls EXCEPT ![t] = Idle] /\ UNCHANGED <<db, clock, due, raced, contended>>
  BY <1>1 DEF Mark
<1>3. /\ calls'[t] = Idle
      /\ \A u \in Threads : u # t => calls'[u] = calls[u]
      /\ DOMAIN calls' = Threads
  BY <1>2, OneMoves, Zenon DEF Inv
<1>4. CallInv(t)' /\ Busy(t)' = {}
  BY <1>3, IdleFits, Zenon
<1>5. f \in Fields /\ (f \notin raced => \A k \in Keys : Owed(f, k) => Has(Entry(f, k)))
  BY <1>1, <1>2, Zenon DEF Inv, CallsInv, CallInv, CallTyped, BackfillDone, Builds
<1>6. /\ \A x : Has(x)' = Has(x)
      /\ \A g, v, k : Holds(g, v, k)' = Holds(g, v, k)
      /\ \A g, k : Owed(g, k)' = Owed(g, k) /\ Entry(g, k)' = Entry(g, k)
      /\ \A g, k : Has(Entry(g, k))' = Has(Entry(g, k))
      /\ \A k : Expired(k)' = Expired(k)
  BY <1>2, Zenon DEF Has, Holds, Owed, Entry, Expired
<1>7. Functions' /\ SetsTyped' /\ DbTyped' /\ ExpiryKept'
  BY <1>2, <1>3, <1>5 DEF Inv, Functions, SetsTyped, DbTyped, ExpiryKept
<1>8. ASSUME NEW u \in Threads, u # t PROVE CallInv(u)'
  <2>1. calls[u].pc = "writing" => f \in raced
    BY <1>1, <1>2, Zenon DEF Inv, BuildersAlone, Builds
  <2>2. CallInv(u) /\ calls'[u] = calls[u]
    BY <1>3, <1>8 DEF Inv, CallsInv
  <2>. QED  BY <1>2, <1>6, <2>1, <2>2, CallKept, Zenon
<1>9. CallsInv'
  BY <1>4, <1>8, Zenon DEF CallsInv
<1>10. Idle.pc # "writing" /\ Idle.pc \notin Builds
  BY DEF Idle, Builds
<1>11. BuildersAlone' /\ Contention'
  BY <1>2, <1>4, <1>10, NothingOverlaps, Zenon
<1>12. Complete' /\ StaleFree'
  BY <1>2, <1>5, <1>6, Zenon DEF Inv, Complete, StaleFree
<1>13. Unbuilt'
  BY <1>1, <1>2, <1>3, <1>6 DEF Inv, Unbuilt
<1>. QED  BY <1>7, <1>9, <1>11, <1>12, <1>13, Zenon DEF Inv

-----------------------------------------------------------------------------
(* The invariant and what follows from it.                                 *)

\* A new collection satisfies the invariant.
LEMMA InvInit == Init => Inv
<1>. SUFFICES ASSUME Init PROVE Inv
  OBVIOUS
<1>1. /\ \A x \in DbKeys : db[x] = NoValue
      /\ \A k \in Keys : ~Has(DocKey(k)) /\ ~Has(ExpiryKey(k))
      /\ \A f \in Fields, v \in Values, k \in Keys : ~Has(IndexKey(f, v, k))
  BY KeysAre DEF Init, Has
<1>2. \A t \in Threads : calls[t].pc = "idle"
  BY DEF Init, Idle
<1>3. Functions /\ SetsTyped
  <2>1. Functions
    BY DEF Init, Functions
  <2>2. SetsTyped
    BY CollectionAssumption DEF Init, SetsTyped
  <2>. QED  BY <2>1, <2>2
<1>4. DbTyped /\ ExpiryKept
  BY <1>1, KeysAre DEF Init, DbTyped, ExpiryKept
<1>5. CallsInv
  BY <1>2, Zenon DEF CallsInv, CallInv, CallTyped, SweepDue, Works, Builds
<1>6. BuildersAlone
  BY <1>2 DEF BuildersAlone, Builds
<1>7. Contention
  BY <1>2, Zenon DEF Contention, Busy
<1>8. Complete /\ StaleFree /\ Unbuilt
  BY <1>1, Zenon DEF Complete, StaleFree, Unbuilt, Owed, Init
<1>. QED  BY <1>3, <1>4, <1>5, <1>6, <1>7, <1>8 DEF Inv

\* Every step of a thread and of the clock keeps it.
LEMMA InvNext == Inv /\ [Next]_vars => Inv'
<1>. SUFFICES ASSUME Inv, [Next]_vars PROVE Inv'
  OBVIOUS
<1>1. CASE UNCHANGED vars
  <2>1. \A t \in Threads : CallInv(t)'
    BY <1>1, CallStays DEF vars, Inv, CallsInv
  <2>2. /\ \A x : Has(x)' = Has(x)
        /\ \A f, v, k : Holds(f, v, k)' = Holds(f, v, k)
        /\ \A f, k : Owed(f, k)' = Owed(f, k) /\ Entry(f, k)' = Entry(f, k)
        /\ \A t \in Threads : Busy(t)' = Busy(t)
    BY <1>1, Zenon DEF vars, Has, Holds, Owed, Entry, Expired, Busy
  <2>3. Functions' /\ SetsTyped' /\ DbTyped' /\ ExpiryKept' /\ BuildersAlone'
    BY <1>1 DEF vars, Inv, Functions, SetsTyped, DbTyped, ExpiryKept, BuildersAlone
  <2>4. CallsInv' /\ Contention' /\ Complete' /\ StaleFree' /\ Unbuilt'
    BY <1>1, <2>1, <2>2, Zenon DEF vars, Inv, CallsInv, Contention, Complete, StaleFree, Unbuilt
  <2>. QED  BY <2>3, <2>4, Zenon DEF Inv
<1>2. CASE Tick
  BY <1>2, TickStep
<1>3. ASSUME NEW t \in Threads, Step(t) PROVE Inv'
  <2>1. CASE \E k \in Keys, doc \in Documents, ttl \in Lifetimes \cup {NoValue} : Set(t, k, doc, ttl)
    BY <2>1, SetStep, Zenon
  <2>2. CASE \E k \in Keys : Delete(t, k) \/ SweepNext(t, k) \/ CreateRead(t, k)
    BY <2>2, DeleteStep, SweepNextStep, CreateReadStep, Zenon
  <2>3. CASE DeleteBody(t)
    BY <2>3, DeleteBodyStep, Zenon
  <2>4. CASE SweepList(t)
    BY <2>4, SweepListStep, Zenon
  <2>5. CASE \E f \in Fields : CreateIndex(t, f)
    BY <2>5, CreateIndexStep, Zenon
  <2>6. CASE CreateList(t)
    BY <2>6, CreateListStep, Zenon
  <2>7. CASE Backfill(t)
    BY <2>7, BackfillStep, Zenon
  <2>8. CASE Mark(t)
    BY <2>8, MarkStep, Zenon
  <2>9. CASE Conflict(t)
    BY <2>9, ConflictStep, Zenon
  <2>10. CASE Publish(t)
    BY <2>10, PublishStep, Zenon
  <2>. QED
    BY <1>3, <2>1, <2>2, <2>3, <2>4, <2>5, <2>6, <2>7, <2>8, <2>9, <2>10, Zenon DEF Step
<1>. QED  BY <1>1, <1>2, <1>3, Zenon DEF Next

\* The invariant holds of every collection, for any threads, keys and fields.
THEOREM CollectionInvariance == Spec => []Inv
BY InvInit, InvNext, PTL DEF Spec

\* TypeOK: the database of a collection maps document keys to documents,
\* expiry keys to times and index keys to the key they end in.
THEOREM CollectionTypes == Spec => []TypeOK
<1>1. Inv => TypeOK
  <2>. SUFFICES ASSUME Inv PROVE TypeOK
    OBVIOUS
  <2>1. \A k \in Keys : /\ db[DocKey(k)] \in Documents \cup {NoValue}
                        /\ db[ExpiryKey(k)] \in Nat \cup {NoValue}
    BY Zenon DEF Inv, DbTyped
  <2>2. ASSUME NEW f \in Fields, NEW x \in IndexKeysOf(f) PROVE db[x] \in {x[4], NoValue}
    <3>1. PICK v \in Values, k \in Keys : x = IndexKey(f, v, k)
      BY KeysAre, Zenon
    <3>2. x[4] = k
      BY <3>1, KeysDiffer
    <3>. QED  BY <3>1, <3>2 DEF Inv, DbTyped
  <2>3. \A t \in Threads : calls[t].pc \in
            {"idle", "writing", "deleting", "sweeping", "listing", "reading", "marking"}
    BY Zenon DEF Inv, CallsInv, CallInv, CallTyped, Works, Builds
  <2>. QED  BY <2>1, <2>2, <2>3 DEF TypeOK, Inv, SetsTyped
<1>. QED  BY <1>1, CollectionInvariance, PTL

\* QueryAgrees: a query finds the same documents with the indexes as by a
\* full scan, apart from an index that a writer raced with and documents
\* without the field (Query.all, _candidate_keys, set, delete, create_index).
THEOREM QueriesAgree == Spec => []QueryAgrees
<1>1. Inv => QueryAgrees
  <2>. SUFFICES ASSUME Inv, NEW usable \in SUBSET (indexes \ raced), NEW equals \in Documents
                PROVE  /\ All(equals, usable) \subseteq All(equals, {})
                       /\ \A k \in All(equals, {}) \ All(equals, usable) :
                             ~(DOMAIN equals \cap usable \subseteq DOMAIN db[DocKey(k)])
    BY DEF QueryAgrees
  <2>1. Candidates(equals, {}) = LiveKeys /\ Candidates(equals, usable) \subseteq Keys
    BY DEF Candidates, LiveKeys
  <2>2. \A k \in Keys : Has(DocKey(k)) /\ ~Expired(k) => k \in LiveKeys
    BY DEF LiveKeys
  <2>3. All(equals, usable) \subseteq All(equals, {})
    BY <2>1, <2>2 DEF All
  <2>4. ASSUME NEW k \in All(equals, {}), DOMAIN equals \cap usable \subseteq DOMAIN db[DocKey(k)]
        PROVE  k \in All(equals, usable)
    <3>1. /\ k \in LiveKeys /\ k \in Keys /\ Has(DocKey(k)) /\ ~Expired(k)
          /\ Matches(db[DocKey(k)], equals)
      BY <2>1 DEF All, LiveKeys
    <3>2. ASSUME NEW f \in DOMAIN equals \cap usable PROVE Has(IndexKey(f, equals[f], k))
      <4>1. f \in indexes \ raced /\ f \in DOMAIN db[DocKey(k)]
        BY <2>4, Zenon
      <4>2. Has(Entry(f, k))
        BY <3>1, <4>1, Zenon DEF Inv, Complete, Owed
      <4>3. Token(db[DocKey(k)][f]) = Token(equals[f])
        BY <3>1, <4>1 DEF Matches, FieldOf
      <4>. QED  BY <4>2, <4>3 DEF Entry, IndexKey
    <3>3. k \in Candidates(equals, usable)
      BY <3>1, <3>2, Zenon DEF Candidates
    <3>. QED  BY <3>1, <3>3 DEF All
  <2>. QED  BY <2>3, <2>4, Zenon
<1>. QED  BY <1>1, CollectionInvariance, PTL

\* UncontendedExact: without overlapping calls on a key its entries are those
\* of its document and its expiry is that of its last set().
THEOREM UncontendedIsExact == Spec => []UncontendedExact
<1>1. Inv => UncontendedExact
  <2>. SUFFICES ASSUME Inv, NEW k \in Keys \ contended
                PROVE  /\ db[ExpiryKey(k)] = due[k]
                       /\ \A f \in indexes \ raced, v \in Values :
                             /\ Has(IndexKey(f, v, k)) => Holds(f, v, k)
                             /\ Holds(f, v, k) => Has(IndexKey(f, v, k)) \/ Expired(k)
    BY Zenon DEF UncontendedExact, Holds
  <2>1. db[ExpiryKey(k)] = due[k]
    BY DEF Inv, ExpiryKept
  <2>2. ASSUME NEW f \in indexes \ raced, NEW v \in Values, Has(IndexKey(f, v, k))
        PROVE  Holds(f, v, k)
    BY <2>2 DEF Inv, StaleFree, SetsTyped
  <2>3. ASSUME NEW f \in indexes \ raced, NEW v \in Values, Holds(f, v, k), ~Expired(k)
        PROVE  Has(IndexKey(f, v, k))
    <3>1. Has(Entry(f, k))
      BY <2>3 DEF Inv, Complete, Owed, Holds
    <3>. QED  BY <2>3, <3>1 DEF Entry, Holds, IndexKey
  <2>. QED  BY <2>1, <2>2, <2>3
<1>. QED  BY <1>1, CollectionInvariance, PTL

\* SweepSparesLive: a sweep() that no call on the key overlapped with removes
\* only what is expired when it commits, although it decided before.
THEOREM SweepsSpareLive == Spec => SweepSparesLive
<1>1. Inv => \A t \in Threads : Publish(t) /\ calls[t].op = "sweep" /\ calls[t].key \notin contended
                 => Expired(calls[t].key)
  BY Zenon DEF Inv, CallsInv, CallInv, SweepDue, Publish, Works
<1>2. Inv /\ [Next]_vars =>
          [\A t \in Threads : Publish(t) /\ calls[t].op = "sweep" /\ calls[t].key \notin contended
              => Expired(calls[t].key)]_vars
  BY <1>1
<1>. QED  BY <1>2, CollectionInvariance, PTL DEF Spec, SweepSparesLive
=============================================================================
