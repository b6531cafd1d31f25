# Verification of ImmuStore DB

TLA+ models of the storage engine, both indexes, the database handle, the
document collection, the changefeed server and the Raft layer under
`src/imustore/`, checked by TLC on small instances; and proofs, checked by TLAPS,
that the storage engine survives faults and implements an atomic map, that
processes sharing a file lose no staged update, that the handle implements
snapshot isolation, that a collection's indexes never change what a query finds,
and that Raft is safe: one leader per term, matching logs,
complete leaders and databases that never disagree. `PROJECT.json` lists the runs, the source
lines behind every definition, the hazards and the findings.

## The system

| Part | State | Operations | What is hard |
|---|---|---|---|
| Storage (`physical.py`) | two meta slots, appended records, cached `_meta` | commit, open with recovery, close | a crash between any two writes; failed writes; a rotted slot |
| Logical layer, indexes (`logical.py`, `bplus_tree.py`, `binary_tree.py`) | staged copy-on-write tree, its count or stored lengths | set, delete, get, range scan, length, audit | splits, borrows and merges of internal nodes; the incremental count |
| Database handle (`interface.py`, `mvcc.py`, `locking.py`) | write mutex, file lock, snapshot count, staged tree | commit, snapshot, transaction, compact | threads and processes between the steps of one call |
| Server and broker (`server.py`, `pubsub.py`) | job queue of one database thread, subscriptions, bounded queues | SET, DEL, reads, SUBSCRIBE, UNSUBSCRIBE, QUIT | a commit on one thread and its event on another; slow subscribers |
| Raft (`raft/`) | term, vote, log on disk; role, indexes in memory; applied entries in the database | tick, step, submit, restart | lost, late and repeated messages; a crash between applying and saving |
| Collection (`collection.py`) | documents, indexes and expiries as keys | set, delete, create_index, sweep, query | reads outside the transaction that uses them |

The handle stages changes in a tree, whose commit the storage engine makes
atomic. The server runs one handle on one thread and announces what it
committed. A Raft node applies each committed entry by a commit to its own
database. A collection writes documents, their index entries and their expiries
by transactions of the handle. The remaining parts (RESP framing, codecs,
metrics, the command line) carry no protocol of their own; see "components" in
`PROJECT.json`.

What correctness means, by part:

- a fault never corrupts the file, never shows half a commit, and never takes
  back an acknowledged one;
- processes that share a file neither cut each other's records nor publish over
  each other's commits;
- either tree is the sorted map it stands for after any history;
- a snapshot is one version, a transaction never publishes over a value it did
  not start from, compaction changes nothing, no call keeps the mutex;
- a query finds the same documents by index as by scan; nothing expires early;
- the feed announces what was committed, in that order; reads are of the
  committed map;
- at most one leader per term, committed entries are permanent, databases
  agree, and a command that submit() acknowledges is applied.

## Modules

Composition is by abstraction: each module takes the guarantee of the one below
as its unit of atomicity.

**AtomicStore** is what the engine promises a client: three maps, `working`
(staged), `visible` (what an open would read) and `durable` (what a power loss
leaves), which change only as wholes.

**Storage** is one handle on a file. `slots`/`recs` are what reads return,
`dslots`/`drecs` what the last fsync made durable; addresses and lengths are
counted in records. `commit()` is the sequence `Commit`, `StoreValue`,
`StoreRoot`, `FlushData`, `WriteSlot`, `FlushMeta`, with a fault possible
between any two. The staged tree is one leaf. `OpenClean`, `OpenTruncate` and
`FinishOpen` are `_ensure_meta`; `Refresh` is the re-reading of the meta block
by `stats()` and `snapshot()`. The faults are `Kill` (the page cache survives),
`PowerLoss` (each unsynced slot or record is old, new or garbage), `Rot` and
`IOError`. A failed fsync leaves its pages dirty. Storage refines AtomicStore
by reading `View` through the best slot.

**Handles** is several processes on one file, each with a handle: the lock, the
metadata a handle cached when it last read the slots, and its staged tree. A
commit appends one record, its whole map, and is atomic towards faults, which
Storage justifies; what matters here is the order of the steps of different
processes. `FindNew` and `Create` are the two halves of opening an empty file,
which takes no lock; `Recover` opens any other file, under the lock. `Store` and
`Publish` are `commit()`, whose lock is taken in between when nothing was staged.
`ReadMeta` renews the cached metadata alone; `TxLock` and `TxConflict` are the
ends of a transaction's commit that matter to other processes. `Close` is also
the death of a process. `astray` records that a process published over, or wiped,
commits it had not read, which the code does in two cases: `commit()` with
nothing staged after another process committed (`handles_idle`), and two
processes that create a file at once. The properties claim nothing from then on,
and `handles` does not go on (`OnCourse`).

**BPlusTree** and **BinaryTree** are the algorithms as recursive operators that
follow the code function by function. **Index** is `LogicalBase` over either of
them, chosen once as `DBDB.__init__` does, beside the map that the tree should
stand for.

**SnapshotIsolation** is what the handle promises the threads of one process: a
snapshot is the map of the moment it began and its size; a transaction commits
all at once, and only if nobody changed a value it writes. Compaction does not
exist at this level, nor do the separate steps of opening and committing.

**Database** is the handle shared by threads. A file is the sequence of maps
committed to it, which Storage justifies; a root address is a position in that
sequence. A snapshot takes three steps (root, count, open), a transaction's
commit two inside the mutex, a compaction three. Database refines
SnapshotIsolation: `store` is the newest map of the current file, and a thread's
`txs` is what its reader finds in the file it opened (`Snapshots`). `Features`
switches on plain staged writes, other processes, crashes and errors inside `compact()`. Opening a
snapshot fails in two ways: `SnapshotFails` is `os.open` raising, after which the
snapshot is uncounted; `SnapshotRaises` is the constructor `Snapshot(...)` raising,
which `snapshot()` calls outside its `try` (`interface.py:148`), so that the snapshot
stays counted although nobody has it. `stranded` is a history variable that counts
these. Plain writes and `commit()` take no mutex in the code; the model has them
between the calls of other threads (`Quiet`), as a program must that shares a handle:
beside a committing transaction `lock()` on the locked handle returns False, and the
write would join the transaction's tree. The server and the Raft node make every such
call from one thread.

**Collection** is the collection over the handle. Documents, index entries and
expiries are keys of one map; a transaction is its overlay and what its snapshot
holds for the overlay's keys, and its commit is one step, which the refinement of
SnapshotIsolation justifies. `delete()` reads before its transaction, `sweep()`
before its deletions and `create_index` beside its transaction, so each of these
reads is a step of its own. `Token` models how values are made comparable: an int
and the float equal to it share an entry. `raced`, `contended` and `due` are
history variables.

**Changefeed** is the event loop, the single database thread and the broker. A
prefix is the set of keys it matches. GET, EXISTS, KEYS and DBSIZE change
nothing; they are operators for what the thread would answer next, from the
handle's map, in which a write whose commit raised is still staged. `feed`,
`failed`, `known` and `lossy` are history variables that no action of the code
reads.

**Raft** is the cluster. Messages are a set from which a delivery may or may
not remove one, so delay, loss, reordering and repetition need no action of
their own. Timers are events that may come at any time. Every handler saves
before it replies, so a crash inside one is visible only between `_apply` and
`_persist` of `_handle_append_entries`: `CrashInAccept`. `Submit` is the part of
`submit()` up to `propose`, `waiting` the calls that wait, and `Return` and
`GiveUp` the two ways its wait ends. `ballots` (votes
cast), `leaders`, `stood` (the log a node stood for election with, per term) and
`ledger` (the longest log the leader of a term had) are history variables.

`MC*` modules add what TLC alone needs: symmetry, and for Raft a budget of
events and a later initial state.

## Runs

| Run | Result | Question |
|---|---|---|
| `storage_crash` | holds | kills and power losses at every step: corruption, count, durability of acknowledged commits, the spared slot, refinement of AtomicStore |
| `storage_faults` | holds | failed I/O calls and retries, a rotted slot, power loss: corruption, distance of the fallback |
| `index` | holds | lookups, scans, lengths and audit of both indexes against the reference map |
| `raft` | holds | election safety, log matching, leader completeness, state machine safety, applied entries stay replicated, monotonic commit index, what submit() acknowledges while its node leads |
| `database_threads` | holds | threads of one process: refinement of SnapshotIsolation, snapshots, compaction, release of the mutex |
| `database_processes` | holds | with staging, other processes, crashes, errors: the count of open snapshots, the age of a snapshot's count, first committer wins |
| `changefeed` | holds | order and truth of the feed, reads of the committed map, up-to-date subscribers, answers |
| `collection` | holds | queries by index against scans, entries and expiries without contention, what a sweep may delete |
| `handles` | holds | processes on one file: what recovery may cut, what a commit of staged writes publishes |
| `handles_idle` | violated | `commit()` with nothing staged writes over the newest slot |
| `compact_leftover` | violated | compaction over the temporary file that an error or a crash left |
| `raft_submit` | violated | a submit() whose command another leader overwrote |

The three violations are findings: each quotes the document, docstring or test
it contradicts.

The exceptions that the collection's properties name are also the code's, found
by TLC when they are left out: an index built while a writer is active (`raced`)
misses what was written meanwhile; `where(field, None)` finds documents without
the field by scan and not by index, against `collection.py:12` "identical
results"; a sweep deletes a document renewed after it was listed (`contended`).
The entries a stale `delete()` leaves behind are harmless, because `_matches`
checks every candidate again. Likewise, beside other processes a snapshot's
count may be of a later version than its root: `snapshot()` reads the two one
after the other, and SnapshotConsistent is stated for one process only.
A snapshot whose constructor raised stays counted, and from then on `compact()`
raises "cannot compact while snapshots or transactions are open" although none is,
until the process ends: SnapshotsCounted says that these and no others are counted
beyond the snapshots that are open.
A write whose commit raised stays staged in the server's handle, and the next
commit takes it along without an event, against `server.py:13-14` "After each
committed mutation the server publishes a change event": FeedFollowsStore and
ReadsCommitted except the keys of such writes (`failed`). ElectionSafety needs
`--raft-log`, without which `docker-compose.yml` starts its nodes: with
`LogPersisted = FALSE` a node that restarts between two elections votes twice in
a term.

### Bounds

- `storage_crash`: two keys, one value, two commits: one per slot, so that a
  commit overwrites the initial slot and then the other. Deletions and
  overwrites make consecutive maps differ. `storage_faults`: one key and three
  commits, so that a slot is reused after a failed commit. The theorems below
  remove these bounds for what they cover.
- `handles`: three processes, so that one recovers or reads between the steps of
  two others; two keys, so that an update can be lost; two commits, one per slot,
  and a third record that no commit covers. The theorems remove these bounds.
  `handles_idle`: two processes and one key suffice.
- `index`: order 3 is the smallest the code accepts; nine keys give three
  levels, where internal nodes split, borrow both ways and merge. The binary tree
  has seven keys: every shape of two levels, and chains up to seven. One value
  version is enough to tell presence; keys tell values apart.
- Raft: three nodes, the smallest cluster where a majority excludes a node.
  `raft` joins three scenarios. From the start, two elections and one client
  command, so logs diverge and are repaired. After one election (`LateInit`,
  reachable by losing every other message), a crash inside a handler and any three
  of a timeout, a heartbeat, a restart and a repeated delivery. After one election, a
  command whose submit() returns or gives up, and another election. The theorems
  remove these bounds. The single-node
  cluster, where `Timeout` elects at once, is the guard `HasMajority(1)`; it is
  false for three nodes. Budgets end behaviours, so deadlock is not checked
  here. Nodes are symmetric.
- Database: two threads, two commits per file and two files: a conflict, a
  compaction, and a commit on either side of it. `MaxStranded` bounds the snapshots
  whose constructor raises: one in `database_processes`, since the first locks
  compaction out; none in `database_threads`, where the theorems cover them. Threads
  and values are symmetric in `database_processes`. `database_threads` leaves
  `Features` empty because it states what the code guarantees for one process;
  with staging or other processes, CompactionPreserves fails (staged writes are
  compacted in, commits of other processes between copy and replace are lost), and
  with crashes or errors as `compact_leftover` shows.
- Collection: one key, one field, the values null, int and float, two threads
  and one tick, so that every pair of calls overlaps on the key and a lifetime
  ends during either; two ticks gave the same answers (2.1 million states). Keys
  meet only in the loops of sweep() and create_index, which take them one by
  one; the same properties held on two keys with null values and one tick (6.3
  million states). Threads are symmetric. The theorems remove these bounds.
- Changefeed: two clients, one of them a subscriber (`Subscribers`), two keys,
  two overlapping prefixes and queues of two messages, so that a queue fills
  and an event is delivered twice. One job per client is in flight by
  construction.

### Fairness

- Database: a thread inside a call goes on (`WF` of the steps within
  `snapshot()`, `commit()` and `compact()`), because the interpreter runs every
  ready thread and nothing in those sections waits for another. Nothing obliges
  a program to begin or to end a transaction.
- Changefeed: the database thread takes the next job and the event loop the
  next completion. Both are loops of the runtime. Clients and the pump are not
  assumed to run, and failure is never forced.
- Storage, Handles, Index, Collection and Raft state safety only. Raft's liveness depends on
  timing that the model abstracts.

## Proofs

### Storage

`StorageProofs` holds for all `Keys`, `Values`, `Faults` and bounds that satisfy
`StorageAssumption`.

| Theorem | Statement | Extra assumption |
|---|---|---|
| `Invariance` | `Spec => []Inv` | none |
| `TypeCorrect` | `Spec => []TypeOK` | none |
| `CrashNeverCorrupts` | `Spec => []NeverCorrupt` | none |
| `AckedIsDurable` | `Spec => AckMeansDurable` | none |
| `FallbackWithinOne` | `Spec => []FallbackIsPrevious` | none |
| `CountIsRight` | `Spec => []CountMatches` | none |
| `NewestSpared` | `Spec => NewestSlotSpared` | no failing I/O call |
| `Refinement` | `Spec => AtomicSpec` | no failing I/O call, no rot |

NeverCorrupt speaks of the best slot only, and is not inductive: a power loss
may bring back any slot and any older length. `Inv` adds that

- every valid slot, shown or synced, has an intact tree whose records are all
  synced (`SlotsSafe`), so no power loss can tear them;
- one valid slot is synced (`Anchored`), so one always survives;
- an older transaction never covers more records (`Ordered`, `BestCovers`), so
  truncating to the best slot's length hurts no other slot;
- the handle's cached metadata belongs to a valid slot (`MetaCurrent`), its
  stored references point at what they stand for (`TreeStored`), and between
  the two fsyncs only the slot being written is unsynced (`SyncedData`).

The proof has one lemma per action. Two invariants stand on top of `Inv`.
`Consecutive` says that any two valid slots a power loss may leave together are
one transaction apart. `CountsRight` says that the count is right for the staged
tree and for every valid slot, shown or synced: CountMatches alone is not
inductive, since recovery may publish the fallback's count. `Keys` need not be
finite for it, only what is in the tree. The refinement needs also that the cached
slot is the newest and that an unsynced slot is never the best of the synced
ones (`CachedIsBest`). This is false after a failed I/O call, when the slot on
disk may be newer than the cached one: hence the assumption. A rotted slot
takes back the newest commit, which AtomicStore rightly does not allow.

### Handles

`HandlesProofs` holds for all sets of processes, keys and values and all bounds
that satisfy `HandlesAssumption`.

| Theorem | Statement |
|---|---|
| `HandlesInvariance` | `Spec => []Inv` |
| `RecoveryCutsNothingNeeded` | `Spec => []RootsReadable` |
| `NoUpdateLost` | `Spec => StagedCommitExtends` |

`Inv` has the types; that only the process with the lock has staged anything
(`Locked`); and, unless a process went astray, that the newest commit covers every
root but that of a commit under way (`AllCovered`), that the process with the
lock staged on the newest commit (`LockCurrent`), and that a file without slots is
empty and open nowhere (`Uncreated`). Recovery runs while the lock is free, when
nobody has staged anything, so whatever it cuts is covered by nobody's root.
`LockCurrent` is what a stale read before staging would break, and what a commit
without staged writes lacks: this is why `astray` is needed.

### Database

`DatabaseProofs` holds for all sets of keys, values and threads and all bounds
that satisfy `DatabaseAssumption`.

| Theorem | Statement | Extra assumption |
|---|---|---|
| `Invariance` | `Spec => []Inv` | none |
| `TypeCorrect` | `Spec => []TypeOK` | none |
| `CountIsExact` | `Spec => []SnapshotsCounted` | none |
| `ReadersKeepTheirFile` | `Spec => []SnapshotPinned` | none |
| `NoLostUpdate` | `Spec => FirstCommitterWins` | none |
| `CountIsRecent` | `Spec => []SnapshotCountRecent` | none |
| `SnapshotIsOneVersion` | `Spec => []SnapshotConsistent` | `Features = {}` |
| `CompactionIsFaithful` | `Spec => CompactionPreserves` | `Features = {}` |
| `ImplementsIsolation` | `Spec => IsolationSpec` | `Features = {}` |

`Inv` adds to the properties that the mutex is held exactly by the thread inside a
critical section (`Exclusive`), that a root is a committed version of the file
the path names (`RootsValid`) and that its reader opened that file
(`ReadersPinned`). The last two survive a compaction only because it runs with no
snapshot open (`CompactsAlone`), which is where the exact count is needed: a count of
zero means no open snapshot, stranded ones or not. A
committing transaction holds the lock and the committed tree (`CommitsCurrent`).
`Alone` adds, for one process that neither stages plain writes nor crashes nor
fails inside a compaction, that the lock is that of a commit, that the temporary file exists only inside a
compaction and holds the committed map, and that a root is the newest version
until its keys are counted. The three theorems that assume
`Features = {}` are false otherwise; see the findings and hazards. In the
refinement, the step that reads the root begins a transaction of
SnapshotIsolation, the step that publishes commits it, ending it or
failing to open it ends it, and every other step stutters.

### Collection

`CollectionProofs` holds for all sets of keys, fields, numbers, lifetimes and
threads that satisfy `CollectionAssumption`, and for a `NoValue` that is neither a
document, a number nor a key (`AbsentAssumption`).

| Theorem | Statement |
|---|---|
| `CollectionInvariance` | `Spec => []Inv` |
| `CollectionTypes` | `Spec => []TypeOK` |
| `QueriesAgree` | `Spec => []QueryAgrees` |
| `UncontendedIsExact` | `Spec => []UncontendedExact` |
| `SweepsSpareLive` | `Spec => SweepSparesLive` |

A query agrees with the scan when every document that is alive has its entry in
every index (`Complete`). A commit keeps this only if its overlay, computed when the
transaction began, is right when it is published, so `Inv` follows each call from
its first step:

- a transaction writes the entries of its document for every index and no others,
  and only keys that belong to its document (`EntriesWritten`, `OverlayTyped`).
  This needs that nobody marks an index while a transaction is open: while an
  index is built nobody writes, or its field is in `raced` (`BuildersAlone`);
- a backfill finds every document it owes an entry either in the list it has yet
  to read or in its overlay, and then in the index (`BackfillReads`,
  `BackfillDone`). Documents may expire meanwhile, which only takes them off the
  list; a delete that has not begun its transaction is harmless;
- a field without an index has no entries before its backfill commits
  (`Unbuilt`), so entries of an earlier document cannot wait in it.

For UncontendedExact, a transaction on a key that no other call works on also
overwrites every entry the key has and leaves the expiry it was called with
(`OldReplaced`), and `delete()` still knows the document that is there
(`DocCurrent`). This is what the overlap of two calls breaks: `contended` contains
every key that two calls share (`Contention`). For SweepSparesLive, everything a
sweep has yet to delete is expired (`SweepDue`): the clock never goes back, and only
another call on the key could renew it. TLC checked `Inv` on the states of
`collection` before it was proved.

### Raft

The theorems of `RaftSafety` hold for every finite set of nodes and every bound on
terms and logs, under loss, delay, reordering, repetition, restarts and crashes
while saving, when the log is persisted (`LogPersisted`).

| Theorem | Statement |
|---|---|
| `RaftInvariance` | `LogPersisted /\ Spec => []RaftInv` |
| `TypesHold` | `LogPersisted /\ Spec => []TypeOK` |
| `OneLeaderPerTerm` | `LogPersisted /\ Spec => []ElectionSafety` |
| `LogsMatch` | `LogPersisted /\ Spec => []LogMatching` |
| `LeadersAreComplete` | `LogPersisted /\ Spec => []LeaderCompleteness` |
| `DatabasesAgree` | `LogPersisted /\ Spec => []StateMachineSafety` |
| `AppliedStaysReplicated` | `LogPersisted /\ Spec => []AppliedIsReplicated` |
| `CommitNeverGoesBack` | `LogPersisted /\ Spec => CommitMonotonic` |
| `SubmitIsApplied` | `LogPersisted /\ Spec => SubmitAppliesWhileLeading` |

`RaftInv` (module `RaftInvariants`) is the conjunction of three invariants, each of
which needs the ones before it. TLC checked all of it on the states of `raft`
before it was proved.

*Elections* (`ElectionInv`, `RaftProofs`). A voter's ballots of one term are all for
one candidate, because a vote is saved in `votedFor` before the reply is sent and a
restart keeps it; the votes a candidate counts are ballots for it; two majorities of
a finite set meet. Without `LogPersisted` a restart loses the vote.

*Logs* (`LogInv`, `RaftLogProofs`). LogMatching compares two logs; no step keeps it by
itself, because what arrives was cut from a third one some time ago. So every log, and
the log every candidate stood with, is traced to the ledgers instead (`Traced`): an
entry stands where the leader of its term put it, after the entries that leader had
before it. An AppendEntries message is a stretch of its term's ledger (`MessageOK`).
The ledger of a term is the log its leader stood with and then entries of this term
(`Founded`). `AppendFrom` keeps a matching prefix, truncates at a conflict and appends
the rest; `AppendFromIs` says what it returns and `AcceptIs` that the result is traced.
A new leader's ledger is empty before it leads (`LedgerFree`), by election safety.

*Commitment* (`CommitInv`, `RaftCommitProofs`). A node has secured index `i` of term
`t` (`Secured`) when its log is at least as up to date as a log that ends there, and
every vote it cast in a later term went to a log that is too. Logs never grow older
and votes go only to logs that are not older than the voter's, so what is secured
stays secured, across restarts and overwritten suffixes. An index of the leader's own
term that a majority has secured is chosen (`Chosen`). `Complete` shows, by the
smallest later term that would lack it, that a chosen entry is in the ledger of every
later term: the majority that elected its leader meets the majority that secured the
entry. The invariant says that a leader's `match_index` and a follower's confirmation
are secured, that every commit index points at a chosen entry, that the commit index a
leader tells is within what it sends, and that every database is a prefix of a chosen
ledger. LeaderCompleteness, StateMachineSafety, AppliedIsReplicated and what submit()
may report follow. CommitMonotonic needs the third of these facts:
`_handle_append_entries` takes the smaller of the leader's commit index and the last
index of the message, and would step back if a leader told more than it sent.

`MajorityFacts` and `ListFacts`, on which the steps rest, are proved in `RaftSafety`
from the library's theorems on finite sets and on well-founded relations. MaxTerm and
MaxLog bound the terms and the proposals of a behaviour; the theorems hold for every
value of either.

### Only model-checked

- Changefeed. FeedFollowsStore and SubscriberCurrent are about what a sequence of
  events adds up to (`Replay`, a fold), and TypeOK says that this is a map: each
  needs induction over the events. ReadsCommitted
  does not, and remains to be proved.
- The indexes (TypeOK, GetAgrees, RangeAgrees, AuditOk), whose recursive operators
  would need induction over trees.
- The liveness properties CommandsAnswered and MutexReleased: the proof system does
  not reason about fairness here.

## Not modelled

- Durability `none`; a creation of the file that is cut off half way; handles that
  keep an inode which a compaction of another process replaced; kernels that drop dirty pages after a failed fsync.
- An index of several nodes inside Storage: copy-on-write writes each dirty
  node once, children first, which one leaf with its values already shows.
  Snapshots of a database with the binary index.
- Elapsed ticks, asyncio connections, wire encoding. Crashes inside a Raft
  handler other than between applying and saving: between two saves of one
  handler they leave a newer term with no vote, and inside a leader's `_apply`
  a shorter prefix of what the log already holds.
- An exception inside Raft's `apply()`: `_apply` increases `last_applied` before the
  call (`node.py:262`) and the server drops the exception (`raft/server.py:132`), so the
  entry would be skipped, or applied only with the next one. Raft takes `apply()` to
  succeed, and `last_applied` to be the number of entries in the database.
- Plain writes and commits of one thread in the middle of another thread's
  transaction, snapshot or compaction (`Quiet`). An exception inside `compact()` after
  the handle is closed: the handle stays closed and the program opens another, which
  for the files and the idle threads is `Crash`.
- Query predicates (`filter`), which are applied alike to either plan. RESP,
  codecs, metrics, command line: bytes, text and counters without protocol.

## Plan

1. Compaction in Handles: a replaced inode under long-lived handles.
2. Proofs: ReadsCommitted for Changefeed.
