------------------------------- MODULE Raft -------------------------------
(***************************************************************************)
(* A Raft cluster: the deterministic node (raft/node.py) on its persistent *)
(* log (raft/log.py), applying to its database (raft/statemachine.py), and *)
(* the clients of its server (raft/server.py).                             *)
(*                                                                         *)
(* A message in flight may be delivered at any later time, in any order,   *)
(* or never (the transport opens a connection per message and drops what   *)
(* fails; partitions and crashed receivers lose messages too).  A reply    *)
(* from a term or an election that is over is ignored by the code, which   *)
(* is the same as never being delivered.  `msgs` is a set, and a message   *)
(* that was delivered may stay in it: that stands for equal messages sent  *)
(* several times, such as heartbeats.  Timers are abstracted: an election  *)
(* timeout or a heartbeat may come at any time.                            *)
(*                                                                         *)
(* Every handler that changes the term, the vote or the log saves them     *)
(* before it returns, so between handlers memory and disk agree; a crash   *)
(* inside a handler is an action of its own where they would not.          *)
(***************************************************************************)
EXTENDS Integers, FiniteSets, Sequences

CONSTANTS
    Nodes,
    Commands, Noop,
    Nil,            \* voted_for = None
    LogPersisted,   \* RaftLog was given a path, so a restart reloads it
    MaxTerm,        \* bound: terms the checker explores
    MaxLog          \* bound: log length up to which clients propose

ASSUME RaftAssumption ==
    /\ IsFiniteSet(Nodes) /\ Nodes # {}
    /\ Nil \notin Nodes
    /\ Noop \notin Commands
    /\ LogPersisted \in BOOLEAN
    /\ MaxTerm \in Nat /\ MaxLog \in Nat

VARIABLES
    term, votedFor, log,    \* the persistent state
    role, votes,
    commitIndex,
    nextIndex, matchIndex,  \* per peer, meaningful while leading
    db,                     \* the entries applied to the node's database
    msgs,                   \* the envelopes in flight
    waiting,                \* the submit() calls that wait
    ballots, leaders,       \* history: every vote cast, every election won
    stood,                  \* history: the log a node stood for election with
    ledger                  \* history: the last log of the leader of a term

persistent == <<term, votedFor, log>>
election == <<role, votes>>
leadership == <<nextIndex, matchIndex>>
applied == <<commitIndex, db>>
elected == <<leaders, ledger>>
history == <<ballots, stood, elected>>
vars == <<term, votedFor, log, role, votes, commitIndex, nextIndex, matchIndex, db,
          msgs, waiting, ballots, leaders, stood, ledger>>

Entry == [term : Nat, cmd : Commands \cup {Noop}]
Peers(n) == Nodes \ {n}

\* Mutant: half of the cluster, rounded down, counts as a majority.
HasHalf(c) == c >= Cardinality(Nodes) \div 2

\* _has_majority
HasMajority(c) == c >= (Cardinality(Nodes) \div 2) + 1

LastTerm(l) == IF l = <<>> THEN 0 ELSE l[Len(l)].term

\* term_at: 0 before the first entry, -1 past the last one.
TermAt(l, i) == IF i <= 0 THEN 0 ELSE IF i > Len(l) THEN -1 ELSE l[i].term

\* Mutant: an entry that conflicts is kept, and only what lies past the end
\* is appended.
AppendFromKeeps(l, prev, es) ==
    IF prev + Len(es) <= Len(l) THEN l
    ELSE l \o SubSeq(es, Len(l) - prev + 1, Len(es))

\* append_from: entries that match are left alone; from the first that
\* conflicts, or lies past the end, the new entries replace the log.
AppendFrom(l, prev, es) ==
    LET fresh == {j \in 1..Len(es) : TermAt(l, prev + j) # es[j].term}
        first == CHOOSE j \in fresh : \A i \in fresh : j <= i
    IN  IF fresh = {} THEN l
        ELSE SubSeq(l, 1, prev + first - 1) \o SubSeq(es, first, Len(es))

\* Mutant: the entry at last_applied is applied again.
ApplyAgain(d, l, c) ==
    IF Len(d) < c /\ d # <<>> THEN d \o SubSeq(l, Len(d), c)
    ELSE IF Len(d) < c THEN SubSeq(l, 1, c) ELSE d

\* _apply: every committed entry beyond last_applied, which is Len(d).
Apply(d, l, c) == IF Len(d) < c THEN d \o SubSeq(l, Len(d) + 1, c) ELSE d

Init ==
    /\ term = [n \in Nodes |-> 0]
    /\ votedFor = [n \in Nodes |-> Nil]
    /\ log = [n \in Nodes |-> <<>>]
    /\ role = [n \in Nodes |-> "follower"]
    /\ votes = [n \in Nodes |-> {}]
    /\ commitIndex = [n \in Nodes |-> 0]
    /\ nextIndex = [n \in Nodes |-> [p \in Nodes |-> 1]]
    /\ matchIndex = [n \in Nodes |-> [p \in Nodes |-> 0]]
    /\ db = [n \in Nodes |-> <<>>]
    /\ msgs = {}
    /\ waiting = {}
    /\ ballots = {}
    /\ leaders = {}
    /\ stood = [n \in Nodes |-> [t \in 0..MaxTerm |-> <<>>]]
    /\ ledger = [t \in 0..MaxTerm |-> <<>>]

-----------------------------------------------------------------------------
(* Envelopes.                                                              *)

RequestVote(n, p, t) ==
    [type |-> "RequestVote", src |-> n, dst |-> p, term |-> t,
     lastIndex |-> Len(log[n]), lastTerm |-> LastTerm(log[n])]

RequestVoteReply(n, p, t, granted) ==
    [type |-> "RequestVoteReply", src |-> n, dst |-> p, term |-> t, granted |-> granted]

\* _send_append_to: everything from next_index on, in one message.
AppendEntries(n, p, t, l, next, commit) ==
    [type |-> "AppendEntries", src |-> n, dst |-> p, term |-> t,
     prevIndex |-> next - 1, prevTerm |-> TermAt(l, next - 1),
     entries |-> SubSeq(l, next, Len(l)), commit |-> commit]

AppendEntriesReply(n, p, t, success, match) ==
    [type |-> "AppendEntriesReply", src |-> n, dst |-> p, term |-> t,
     success |-> success, match |-> match]

\* _broadcast_append
Broadcast(n, t, l, next, commit) ==
    {AppendEntries(n, p, t, l, next[p], commit) : p \in Peers(n)}

Send(ms) == msgs' = msgs \cup ms

\* m has been handled; an equal message may still be on its way.
Reply(m, ms) == \E left \in {{}, {m}} : msgs' = (msgs \ {m}) \cup left \cup ms

-----------------------------------------------------------------------------
(* Commitment.                                                             *)

\* _maybe_advance_commit: the highest entry of the current term that a
\* majority holds, if it is past the commit index.
Committable(n, t, l, match) ==
    {i \in commitIndex[n] + 1..Len(l) :
        /\ l[i].term = t
        /\ HasMajority(1 + Cardinality({p \in Peers(n) : match[p] >= i}))}

AdvancedCommit(n, t, l, match) ==
    LET c == Committable(n, t, l, match)
    IN  IF c = {} THEN commitIndex[n] ELSE CHOOSE i \in c : \A j \in c : i >= j

CommitAndApply(n, c, l) ==
    /\ commitIndex' = [commitIndex EXCEPT ![n] = c]
    /\ db' = [db EXCEPT ![n] = Apply(db[n], l, c)]

-----------------------------------------------------------------------------
(* Elections.                                                              *)

\* _become_leader: a no-op of the new term is appended, saved and broadcast.
LeaderLog(n, t) == Append(log[n], [term |-> t, cmd |-> Noop])

Announce(n, t) ==
    Broadcast(n, t, LeaderLog(n, t), [p \in Nodes |-> Len(log[n]) + 1], commitIndex[n])

BecomeLeader(n, t) ==
    LET match == [p \in Nodes |-> 0] IN
    /\ role' = [role EXCEPT ![n] = "leader"]
    /\ nextIndex' = [nextIndex EXCEPT ![n] = [p \in Nodes |-> Len(log[n]) + 1]]
    /\ matchIndex' = [matchIndex EXCEPT ![n] = match]
    /\ log' = [log EXCEPT ![n] = LeaderLog(n, t)]
    /\ CommitAndApply(n, AdvancedCommit(n, t, LeaderLog(n, t), match), LeaderLog(n, t))
    /\ leaders' = leaders \cup {[term |-> t, node |-> n]}
    /\ ledger' = [ledger EXCEPT ![t] = LeaderLog(n, t)]

\* tick() of a node that does not lead, its election timeout elapsed.
Timeout(n) ==
    LET t == term[n] + 1 IN
    /\ role[n] # "leader"
    /\ t <= MaxTerm
    /\ term' = [term EXCEPT ![n] = t]
    /\ votedFor' = [votedFor EXCEPT ![n] = n]
    /\ votes' = [votes EXCEPT ![n] = {n}]
    /\ ballots' = ballots \cup {[voter |-> n, term |-> t, for |-> n]}
    /\ stood' = [stood EXCEPT ![n][t] = log[n]]
    /\ IF HasMajority(1)
       THEN BecomeLeader(n, t) /\ Send(Announce(n, t))
       ELSE /\ role' = [role EXCEPT ![n] = "candidate"]
            /\ Send({RequestVote(n, p, t) : p \in Peers(n)})
            /\ UNCHANGED <<log, leadership, applied, elected>>
    /\ UNCHANGED waiting

\* _become_follower on a message of a later term.
StepDown(n, t) ==
    /\ term' = [term EXCEPT ![n] = t]
    /\ votedFor' = [votedFor EXCEPT ![n] = Nil]
    /\ role' = [role EXCEPT ![n] = "follower"]
    /\ UNCHANGED <<log, votes, leadership, applied, history>>

\* Mutant: a candidate's log is not compared with the voter's.
UpToDateUnchecked(m, l) == m.lastIndex >= 0 \/ Len(l) >= 0

UpToDate(m, l) ==
    \/ m.lastTerm > LastTerm(l)
    \/ m.lastTerm = LastTerm(l) /\ m.lastIndex >= Len(l)

HandleRequestVote(n, m) ==
    LET later == m.term > term[n]
        vote == IF later THEN Nil ELSE votedFor[n]
        granted == m.term >= term[n] /\ vote \in {Nil, m.src} /\ UpToDate(m, log[n])
        t == IF later THEN m.term ELSE term[n]
    IN  /\ m.type = "RequestVote"
        /\ term' = [term EXCEPT ![n] = t]
        /\ role' = IF later THEN [role EXCEPT ![n] = "follower"] ELSE role
        /\ votedFor' = [votedFor EXCEPT ![n] = IF granted THEN m.src ELSE vote]
        /\ ballots' = IF granted
                      THEN ballots \cup {[voter |-> n, term |-> t, for |-> m.src]} ELSE ballots
        /\ Reply(m, {RequestVoteReply(n, m.src, t, granted)})
        /\ UNCHANGED <<log, votes, leadership, applied, waiting, stood, elected>>

HandleRequestVoteReply(n, m) ==
    /\ m.type = "RequestVoteReply"
    /\ UNCHANGED waiting
    /\ \/ /\ m.term > term[n]
          /\ StepDown(n, m.term)
          /\ Reply(m, {})
       \/ /\ m.term = term[n] /\ role[n] = "candidate" /\ m.granted
          /\ votes' = [votes EXCEPT ![n] = @ \cup {m.src}]
          /\ IF HasMajority(Cardinality(votes[n] \cup {m.src}))
             THEN BecomeLeader(n, term[n]) /\ Reply(m, Announce(n, term[n]))
             ELSE Reply(m, {}) /\ UNCHANGED <<log, role, leadership, applied, elected>>
          /\ UNCHANGED <<term, votedFor, ballots, stood>>

-----------------------------------------------------------------------------
(* Replication.                                                            *)

\* tick() of the leader, its heartbeat interval elapsed.
Heartbeat(n) ==
    /\ role[n] = "leader"
    /\ Send(Broadcast(n, term[n], log[n], nextIndex[n], commitIndex[n]))
    /\ UNCHANGED <<persistent, election, leadership, applied, waiting, history>>

\* submit(): propose(), and then a wait for last_applied.
Submit(n, c) ==
    LET entry == [term |-> term[n], cmd |-> c]
        l == Append(log[n], entry)
    IN  /\ role[n] = "leader"
        /\ Len(log[n]) < MaxLog
        /\ log' = [log EXCEPT ![n] = l]
        /\ Send(Broadcast(n, term[n], l, nextIndex[n], commitIndex[n]))
        /\ CommitAndApply(n, AdvancedCommit(n, term[n], l, matchIndex[n]), l)
        /\ waiting' = waiting \cup {[node |-> n, index |-> Len(l), entry |-> entry]}
        /\ ledger' = [ledger EXCEPT ![term[n]] = l]
        /\ UNCHANGED <<term, votedFor, election, leadership, ballots, stood, leaders>>

\* Mutant: the wait is over once the entry is in the leader's log.
AppliedOnAppend(w) == w.index <= Len(log[w.node])

\* The condition _await_apply polls.
Applied(w) == w.index <= Len(db[w.node])

\* submit() returns, or its timeout elapses.
Return(w) ==
    /\ Applied(w)
    /\ waiting' = waiting \ {w}
    /\ UNCHANGED <<persistent, election, leadership, applied, msgs, history>>

GiveUp(w) ==
    /\ ~Applied(w)
    /\ waiting' = waiting \ {w}
    /\ UNCHANGED <<persistent, election, leadership, applied, msgs, history>>

\* What a message of term m.term does before it is looked at: a later term
\* clears the vote, and either way its sender leads this term.
Follow(n, m) ==
    /\ term' = [term EXCEPT ![n] = m.term]
    /\ votedFor' = IF m.term > term[n] THEN [votedFor EXCEPT ![n] = Nil] ELSE votedFor
    /\ role' = [role EXCEPT ![n] = "follower"]
    /\ UNCHANGED <<votes, leadership, waiting, history>>

Matches(n, m) ==
    /\ m.prevIndex <= Len(log[n])
    /\ TermAt(log[n], m.prevIndex) = m.prevTerm

\* Mutant: the leader's commit index is taken even when it is lower.
FollowerCommitAny(n, m) == m.commit

\* The commit index a follower takes from the leader, capped by what it holds.
FollowerCommit(n, m) ==
    LET last == m.prevIndex + Len(m.entries)
    IN  IF m.commit > commitIndex[n]
        THEN IF m.commit <= last THEN m.commit ELSE last
        ELSE commitIndex[n]

RejectStale(n, m) ==
    /\ m.type = "AppendEntries"
    /\ m.term < term[n]
    /\ Reply(m, {AppendEntriesReply(n, m.src, term[n], FALSE, Len(log[n]))})
    /\ UNCHANGED <<persistent, election, leadership, applied, waiting, history>>

RejectMismatch(n, m) ==
    /\ m.type = "AppendEntries"
    /\ m.term >= term[n]
    /\ ~Matches(n, m)
    /\ Follow(n, m)
    /\ Reply(m, {AppendEntriesReply(n, m.src, m.term, FALSE, Len(log[n]))})
    /\ UNCHANGED <<log, applied>>

Accept(n, m) ==
    LET l == AppendFrom(log[n], m.prevIndex, m.entries) IN
    /\ m.type = "AppendEntries"
    /\ m.term >= term[n]
    /\ Matches(n, m)
    /\ Follow(n, m)
    /\ log' = [log EXCEPT ![n] = l]
    /\ CommitAndApply(n, FollowerCommit(n, m), l)
    /\ Reply(m, {AppendEntriesReply(n, m.src, m.term, TRUE, m.prevIndex + Len(m.entries))})

\* A rejected leader retries one entry earlier, or right after the last
\* entry the follower reports, and never before the first one.
RollBack(next, last) ==
    LET back == IF next - 1 <= last + 1 THEN next - 1 ELSE last + 1
    IN  IF back >= 1 THEN back ELSE 1

HandleAppendEntriesReply(n, m) ==
    /\ m.type = "AppendEntriesReply"
    /\ UNCHANGED waiting
    /\ \/ /\ m.term > term[n]
          /\ StepDown(n, m.term)
          /\ Reply(m, {})
       \/ LET match == [matchIndex[n] EXCEPT ![m.src] = m.match] IN
          /\ m.term = term[n] /\ role[n] = "leader" /\ m.success
          /\ matchIndex' = [matchIndex EXCEPT ![n] = match]
          /\ nextIndex' = [nextIndex EXCEPT ![n][m.src] = m.match + 1]
          /\ CommitAndApply(n, AdvancedCommit(n, term[n], log[n], match), log[n])
          /\ Reply(m, {})
          /\ UNCHANGED <<persistent, election, history>>
       \/ LET next == RollBack(nextIndex[n][m.src], m.match) IN
          /\ m.term = term[n] /\ role[n] = "leader" /\ ~m.success
          /\ nextIndex' = [nextIndex EXCEPT ![n][m.src] = next]
          /\ Reply(m, {AppendEntries(n, m.src, term[n], log[n], next, commitIndex[n])})
          /\ UNCHANGED <<persistent, election, matchIndex, applied, history>>

-----------------------------------------------------------------------------
(* Crashes.                                                                *)

\* Mutant: the commit index is restored as the position of the last entry.
VolatileCommitsLog(n) ==
    /\ role' = [role EXCEPT ![n] = "follower"]
    /\ votes' = [votes EXCEPT ![n] = {}]
    /\ commitIndex' = [commitIndex EXCEPT ![n] = Len(log[n]) - 1]
    /\ nextIndex' = [nextIndex EXCEPT ![n] = [p \in Nodes |-> 1]]
    /\ matchIndex' = [matchIndex EXCEPT ![n] = [p \in Nodes |-> 0]]
    /\ waiting' = {w \in waiting : w.node # n}

Volatile(n) ==
    /\ role' = [role EXCEPT ![n] = "follower"]
    /\ votes' = [votes EXCEPT ![n] = {}]
    /\ commitIndex' = [commitIndex EXCEPT ![n] = 0]
    /\ nextIndex' = [nextIndex EXCEPT ![n] = [p \in Nodes |-> 1]]
    /\ matchIndex' = [matchIndex EXCEPT ![n] = [p \in Nodes |-> 0]]
    /\ waiting' = {w \in waiting : w.node # n}

Reload(n) ==
    IF LogPersisted THEN UNCHANGED persistent
    ELSE /\ term' = [term EXCEPT ![n] = 0]
         /\ votedFor' = [votedFor EXCEPT ![n] = Nil]
         /\ log' = [log EXCEPT ![n] = <<>>]

\* The node stops and starts again: last_applied comes from its database.
Restart(n) ==
    /\ Volatile(n)
    /\ Reload(n)
    /\ UNCHANGED <<db, msgs, history>>

\* Mutant: the reply leaves before the log is saved.
CrashInAcceptAcked(n, m) ==
    LET l == AppendFrom(log[n], m.prevIndex, m.entries) IN
    /\ LogPersisted
    /\ m.dst = n
    /\ m.type = "AppendEntries"
    /\ m.term >= term[n]
    /\ Matches(n, m)
    /\ term' = [term EXCEPT ![n] = m.term]
    /\ votedFor' = IF m.term > term[n] THEN [votedFor EXCEPT ![n] = Nil] ELSE votedFor
    /\ Volatile(n)
    /\ Reply(m, {AppendEntriesReply(n, m.src, m.term, TRUE, m.prevIndex + Len(m.entries))})
    /\ UNCHANGED <<log, db, history>>

\* The node dies in _handle_append_entries after applying some entries and
\* before _persist: the database has them, the saved log does not.
CrashInAccept(n, m) ==
    LET l == AppendFrom(log[n], m.prevIndex, m.entries) IN
    /\ LogPersisted
    /\ m.dst = n
    /\ m.type = "AppendEntries"
    /\ m.term >= term[n]
    /\ Matches(n, m)
    /\ \E c \in Len(db[n]) + 1..FollowerCommit(n, m) :
          db' = [db EXCEPT ![n] = Apply(@, l, c)]
    /\ term' = [term EXCEPT ![n] = m.term]
    /\ votedFor' = IF m.term > term[n] THEN [votedFor EXCEPT ![n] = Nil] ELSE votedFor
    /\ Volatile(n)
    /\ Reply(m, {})
    /\ UNCHANGED <<log, history>>

Receive(n, m) ==
    /\ m.dst = n
    /\ \/ HandleRequestVote(n, m)
       \/ HandleRequestVoteReply(n, m)
       \/ RejectStale(n, m)
       \/ RejectMismatch(n, m)
       \/ Accept(n, m)
       \/ HandleAppendEntriesReply(n, m)

Next ==
    \E n \in Nodes :
        \/ Timeout(n)
        \/ Heartbeat(n)
        \/ \E c \in Commands : Submit(n, c)
        \/ \E w \in waiting : w.node = n /\ (Return(w) \/ GiveUp(w))
        \/ Restart(n)
        \/ \E m \in msgs : Receive(n, m) \/ CrashInAccept(n, m)

Spec == Init /\ [][Next]_vars

-----------------------------------------------------------------------------
(* Properties.                                                             *)

\* Type correctness of the cluster's state.
TypeOK ==
    /\ term \in [Nodes -> Nat]
    /\ votedFor \in [Nodes -> Nodes \cup {Nil}]
    /\ log \in [Nodes -> Seq(Entry)]
    /\ role \in [Nodes -> {"follower", "candidate", "leader"}]
    /\ votes \in [Nodes -> SUBSET Nodes]
    /\ commitIndex \in [Nodes -> Nat]
    /\ nextIndex \in [Nodes -> [Nodes -> Nat \ {0}]]
    /\ matchIndex \in [Nodes -> [Nodes -> Nat]]
    /\ db \in [Nodes -> Seq(Entry)]
    /\ waiting \subseteq [node : Nodes, index : Nat, entry : Entry]

\* Election safety: at most one node ever leads a term, and no node votes
\* twice in one (_become_candidate, _handle_request_vote; a vote is saved
\* before it is sent and survives a restart).
ElectionSafety ==
    /\ \A a, b \in leaders : a.term = b.term => a.node = b.node
    /\ \A a, b \in ballots : a.voter = b.voter /\ a.term = b.term => a.for = b.for

\* Log matching: logs that agree on the term of an entry agree on that entry
\* and on everything before it (append_from, the prev_log check).
LogMatching ==
    \A i, j \in Nodes :
    \A x \in 1..Len(log[i]) :
        x <= Len(log[j]) /\ log[i][x].term = log[j][x].term
            => SubSeq(log[i], 1, x) = SubSeq(log[j], 1, x)

\* Leader completeness: a leader's log holds whatever any node of an earlier
\* or equal term has applied (the up-to-date voting restriction).
LeaderCompleteness ==
    \A i, j \in Nodes :
        role[i] = "leader" /\ term[i] >= term[j] =>
            \A x \in 1..commitIndex[j] : x <= Len(log[i]) /\ log[i][x] = log[j][x]

\* State machine safety: no two databases ever apply different entries at
\* the same index, through crashes between applying and saving the log.
StateMachineSafety ==
    \A i, j \in Nodes :
    \A x \in 1..Len(db[i]) : x <= Len(db[j]) => db[i][x] = db[j][x]

\* A database never runs ahead of its cluster: whatever it applied, some
\* majority still has in its saved logs.
AppliedIsReplicated ==
    \A i \in Nodes :
    \A x \in 1..Len(db[i]) :
        HasMajority(Cardinality({j \in Nodes : x <= Len(log[j]) /\ log[j][x] = db[i][x]}))

\* While a node runs, its commit index never goes back and never passes its
\* log, whatever old or reordered AppendEntries reach it.
CommitMonotonic ==
    [][\A n \in Nodes :
          \/ commitIndex'[n] >= commitIndex[n] /\ commitIndex'[n] <= Len(log'[n])
          \/ Volatile(n)]_vars

Delivered(w) == w.index <= Len(db[w.node]) /\ db[w.node][w.index] = w.entry

\* When submit() returns, its command has been applied: what last_applied
\* reached is the entry that was proposed and not another leader's.
SubmitApplies == [][\A w \in waiting : Return(w) => Delivered(w)]_vars

\* The same, for a submit() whose node still leads the term it proposed in
\* when it returns.
SubmitAppliesWhileLeading ==
    [][\A w \in waiting :
          Return(w) /\ role[w.node] = "leader" /\ term[w.node] = w.entry.term
              => Delivered(w)]_vars
=============================================================================
