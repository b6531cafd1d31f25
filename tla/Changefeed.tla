---------------------------- MODULE Changefeed -----------------------------
(***************************************************************************)
(* The network server (server.py) and its change broker (pubsub.py).       *)
(*                                                                         *)
(* A connection is a coroutine that handles one command at a time.  A      *)
(* command that writes is a job of the single database thread; the         *)
(* coroutine goes on when the event loop reaches the job's completion, and *)
(* between there and its next await it publishes the changes.  The thread  *)
(* takes jobs, and the loop takes completions, in the order they came.     *)
(*                                                                         *)
(* A prefix is the set of the keys that start with it.  Commands that only *)
(* read are operators, for what they would return if they ran next; the    *)
(* argument checks are left out.                                           *)
(***************************************************************************)
EXTENDS Integers, FiniteSets, Sequences, SequencesExt

CONSTANTS
    Clients, Keys, Values, NoValue,
    Subscribers,    \* bound: the clients that ever subscribe
    KeyPrefixes,    \* the prefixes they subscribe to, as sets of keys
    QueueMax,       \* _queue_maxsize
    Faults          \* "io": a commit may raise OSError

ASSUME ChangefeedAssumption ==
    /\ NoValue \notin Values
    /\ Subscribers \subseteq Clients
    /\ KeyPrefixes \subseteq SUBSET Keys
    /\ QueueMax \in Nat \ {0}
    /\ Faults \subseteq {"io"}

VARIABLES
    store, staged,  \* the committed map, and the handle's map
    jobs,           \* submitted to the database thread
    ready,          \* completions the event loop has not reached
    conn,           \* per client: "idle", "waiting" for a job, or "closed"
    subs,           \* per client, the prefixes it is subscribed to
    queue,          \* per client, the messages the pump has not sent
    feed,           \* history: the map that all published changes amount to
    failed,         \* history: the keys last written by a job whose commit raised
    known, lossy    \* history: what the client makes of its messages, and
                    \* whether some were dropped or are left from a
                    \* subscription it ended

database == <<store, staged, failed>>
broker == <<subs, queue, known, lossy>>
vars == <<store, staged, failed, jobs, ready, conn, subs, queue, feed, known, lossy>>

Map == [Keys -> Values \cup {NoValue}]
Change == [key : Keys, val : Values \cup {NoValue}]
Job == [client : Clients, keys : SUBSET Keys, val : Values \cup {NoValue}]
Empty == [k \in Keys |-> NoValue]

\* A map after a sequence of changes.
Replay(m, changes) == FoldLeft(LAMBDA n, e : [n EXCEPT ![e.key] = e.val], m, changes)

Init ==
    /\ store = Empty /\ staged = Empty
    /\ jobs = <<>> /\ ready = <<>>
    /\ conn = [c \in Clients |-> "idle"]
    /\ subs = [c \in Clients |-> {}]
    /\ queue = [c \in Clients |-> <<>>]
    /\ feed = Empty /\ failed = {}
    /\ known = [c \in Clients |-> Empty]
    /\ lossy = [c \in Clients |-> FALSE]

-----------------------------------------------------------------------------
(* The database thread.                                                    *)

\* SET of one key, or DEL (val is NoValue) of several; not in subscribe mode.
Submit(c, ks, v) ==
    /\ conn[c] = "idle"
    /\ subs[c] = {}
    /\ jobs' = Append(jobs, [client |-> c, keys |-> ks, val |-> v])
    /\ conn' = [conn EXCEPT ![c] = "waiting"]
    /\ UNCHANGED <<database, ready, feed, broker>>

\* The keys a job writes: a DEL skips those that are not there.
Touched(j) == {k \in j.keys : j.val # NoValue \/ staged[k] # NoValue}

Changes(j) == SetToSeq({[key |-> k, val |-> j.val] : k \in Touched(j)})

Staged(j) == [k \in Keys |-> IF k \in Touched(j) THEN j.val ELSE staged[k]]

\* Mutant: a deletion is staged and not committed.
CommittedSet(j) == IF j.val = NoValue THEN store ELSE Staged(j)

\* A DEL that found no key does not commit.
Committed(j) == IF Touched(j) = {} THEN store ELSE Staged(j)

Done(j, ok, changes) == [client |-> j.client, ok |-> ok, changes |-> changes]

\* Mutant: the thread takes the job submitted last.
ExecuteNewest ==
    LET j == Last(jobs) IN
    /\ jobs # <<>>
    /\ jobs' = Front(jobs)
    /\ staged' = Staged(j)
    /\ store' = Committed(j)
    /\ ready' = Append(ready, Done(j, TRUE, Changes(j)))
    /\ failed' = failed \ Touched(j)
    /\ UNCHANGED <<conn, feed, broker>>

\* _set, _delete: the writes are staged, and committed if there are any.
Execute ==
    LET j == Head(jobs) IN
    /\ jobs # <<>>
    /\ jobs' = Tail(jobs)
    /\ staged' = Staged(j)
    /\ store' = Committed(j)
    /\ ready' = Append(ready, Done(j, TRUE, Changes(j)))
    /\ failed' = failed \ Touched(j)
    /\ UNCHANGED <<conn, feed, broker>>

\* commit() raises, before or after it wrote the meta block: what the job
\* staged stays in the handle.
ExecuteFails ==
    LET j == Head(jobs) IN
    /\ "io" \in Faults
    /\ jobs # <<>>
    /\ Touched(j) # {}
    /\ jobs' = Tail(jobs)
    /\ staged' = Staged(j)
    /\ store' \in {store, Staged(j)}
    /\ ready' = Append(ready, Done(j, FALSE, <<>>))
    /\ failed' = failed \cup Touched(j)
    /\ UNCHANGED <<conn, feed, broker>>

\* GET, EXISTS, KEYS and DBSIZE read the handle's map.
Lookup(k) == staged[k]
MatchKeys(p) == {k \in p : Lookup(k) # NoValue}
Exists(ks) == Cardinality(MatchKeys(ks))
DbSize == Exists(Keys)

-----------------------------------------------------------------------------
(* The event loop.                                                         *)

\* Mutant: a change goes to the subscribers of one matching prefix only.
MessagesOfOnePrefix(c, changes) ==
    LET first == CHOOSE p \in KeyPrefixes : p # {}
    IN  SelectSeq(changes, LAMBDA e : first \in subs[c] /\ e.key \in first)

\* publish(): a message for every prefix of the client that matches.
Messages(c, changes) ==
    LET copies(e) == [i \in 1..Cardinality({p \in subs[c] : e.key \in p}) |-> e]
    IN  FlattenSeq([i \in 1..Len(changes) |-> copies(changes[i])])

\* Mutant: the queue has no bound.
FitsAlways(q, ms) == q \o ms

\* put_nowait on a full queue drops the message.
Fits(q, ms) ==
    IF Len(q) + Len(ms) <= QueueMax THEN q \o ms ELSE SubSeq(q \o ms, 1, QueueMax)

Closed(c) ==
    /\ conn' = [conn EXCEPT ![c] = "closed"]
    /\ subs' = [subs EXCEPT ![c] = {}]
    /\ queue' = [queue EXCEPT ![c] = <<>>]
    /\ known' = [known EXCEPT ![c] = Empty]
    /\ lossy' = [lossy EXCEPT ![c] = FALSE]

\* Mutant: the completion that came last is handled first.
ResumeNewest ==
    LET newest == Last(ready).ok
        d == IF newest THEN Last(ready) ELSE Head(ready) IN
    /\ ready # <<>>
    /\ d.ok
    /\ ready' = IF newest THEN Front(ready) ELSE Tail(ready)
    /\ queue' = [c \in Clients |-> Fits(queue[c], Messages(c, d.changes))]
    /\ lossy' = [c \in Clients |->
                    lossy[c] \/ Len(queue[c]) + Len(Messages(c, d.changes)) > QueueMax]
    /\ known' = [c \in Clients |-> IF lossy'[c] THEN Empty ELSE known[c]]
    /\ feed' = Replay(feed, d.changes)
    /\ conn' = [conn EXCEPT ![d.client] = "idle"]
    /\ UNCHANGED <<database, jobs, subs>>

\* _cmd_set, _cmd_del after their await: publish, then the reply.
Resume ==
    LET d == Head(ready) IN
    /\ ready # <<>>
    /\ d.ok
    /\ ready' = Tail(ready)
    /\ queue' = [c \in Clients |-> Fits(queue[c], Messages(c, d.changes))]
    /\ lossy' = [c \in Clients |->
                    lossy[c] \/ Len(queue[c]) + Len(Messages(c, d.changes)) > QueueMax]
    /\ known' = [c \in Clients |-> IF lossy'[c] THEN Empty ELSE known[c]]
    /\ feed' = Replay(feed, d.changes)
    /\ conn' = [conn EXCEPT ![d.client] = "idle"]
    /\ UNCHANGED <<database, jobs, subs>>

\* The exception ends the connection: serve() tears it down.
ResumeFailed ==
    LET d == Head(ready) IN
    /\ ready # <<>>
    /\ ~d.ok
    /\ ready' = Tail(ready)
    /\ Closed(d.client)
    /\ UNCHANGED <<database, jobs, feed>>

\* What a client knows of the keys it follows; a new subscription starts
\* from the feed's current state, and a lossy client knows nothing.
Knows(c) ==
    [k \in Keys |-> IF lossy'[c] \/ k \notin UNION subs'[c] THEN NoValue
                    ELSE IF k \in UNION subs[c] THEN known[c][k]
                    ELSE feed[k]]

Subscribe(c, p) ==
    /\ conn[c] = "idle"
    /\ subs' = [subs EXCEPT ![c] = @ \cup {p}]
    /\ UNCHANGED lossy
    /\ known' = [known EXCEPT ![c] = Knows(c)]
    /\ UNCHANGED <<database, jobs, ready, conn, feed, queue>>

\* What is already queued is still sent.
Unsubscribe(c, p) ==
    /\ conn[c] = "idle"
    /\ p \in subs[c]
    /\ subs' = [subs EXCEPT ![c] = @ \ {p}]
    /\ lossy' = [lossy EXCEPT ![c] = @ \/ queue[c] # <<>>]
    /\ known' = [known EXCEPT ![c] = Knows(c)]
    /\ UNCHANGED <<database, jobs, ready, conn, feed, queue>>

Pump(c) ==
    /\ queue[c] # <<>>
    /\ queue' = [queue EXCEPT ![c] = Tail(@)]
    /\ known' = [known EXCEPT ![c] = IF lossy[c] THEN @ ELSE Replay(@, <<Head(queue[c])>>)]
    /\ UNCHANGED <<database, jobs, ready, conn, feed, subs, lossy>>

\* QUIT, or the client is gone when its connection reads the next command.
Disconnect(c) ==
    /\ conn[c] = "idle"
    /\ Closed(c)
    /\ UNCHANGED <<database, jobs, ready, feed>>

Connect(c) ==
    /\ conn[c] = "closed"
    /\ conn' = [conn EXCEPT ![c] = "idle"]
    /\ UNCHANGED <<database, jobs, ready, feed, broker>>

Next ==
    \/ \E c \in Clients, k \in Keys, v \in Values : Submit(c, {k}, v)
    \/ \E c \in Clients, ks \in SUBSET Keys \ {{}} : Submit(c, ks, NoValue)
    \/ Execute
    \/ ExecuteFails
    \/ Resume
    \/ ResumeFailed
    \/ \E c \in Subscribers, p \in KeyPrefixes : Subscribe(c, p) \/ Unsubscribe(c, p)
    \/ \E c \in Clients : Pump(c) \/ Disconnect(c) \/ Connect(c)

\* The database thread and the event loop run; clients need not do anything.
Spec == Init /\ [][Next]_vars /\ WF_vars(Execute) /\ WF_vars(Resume) /\ WF_vars(ResumeFailed)

-----------------------------------------------------------------------------
(* Properties.                                                             *)

\* Type correctness; no queue outgrows its bound.
TypeOK ==
    /\ store \in Map /\ staged \in Map /\ feed \in Map
    /\ failed \subseteq Keys
    /\ jobs \in Seq(Job)
    /\ ready \in Seq([client : Clients, ok : BOOLEAN, changes : Seq(Change)])
    /\ conn \in [Clients -> {"idle", "waiting", "closed"}]
    /\ subs \in [Clients -> SUBSET KeyPrefixes]
    /\ \A c \in Clients : queue[c] \in Seq(Change) /\ Len(queue[c]) <= QueueMax
    /\ known \in [Clients -> Map]
    /\ lossy \in [Clients -> BOOLEAN]

\* The feed after the changes whose coroutine has yet to publish them.
Announced == Replay(feed, FlattenSeq([i \in 1..Len(ready) |-> ready[i].changes]))

\* The feed tells the truth in the right order: replaying every change that
\* is published or about to be gives the committed map, save for keys whose
\* last write was by a job whose commit raised (_cmd_set, _cmd_del publish
\* only after their job succeeded).  Such a write stays staged, and the next
\* commit takes it along without an event.
FeedFollowsStore == \A k \in Keys \ failed : Announced[k] = store[k]

\* Readers see the committed map: GET and KEYS return no uncommitted value,
\* except of keys last written by a job whose commit raised, and the counts
\* of EXISTS and DBSIZE are off by no more than those keys.
ReadsCommitted ==
    LET committed == {k \in Keys : store[k] # NoValue} IN
    /\ \A k \in Keys \ failed : Lookup(k) = store[k]
    /\ \A p \in KeyPrefixes : MatchKeys(p) \ failed = (p \cap committed) \ failed
    /\ DbSize \in Cardinality(committed \ failed)..Cardinality(committed \cup failed)

\* A subscriber that lost nothing is up to date on every key it follows once
\* its queue is drained, however its prefixes overlap and whenever it came.
SubscriberCurrent ==
    \A c \in Clients : ~lossy[c] =>
        \A k \in UNION subs[c] : Replay(known[c], queue[c])[k] = feed[k]

\* A command that waits for the database thread is answered, or its
\* connection closed, however busy the other clients keep the thread.
CommandsAnswered == \A c \in Clients : conn[c] = "waiting" ~> conn[c] # "waiting"
=============================================================================
