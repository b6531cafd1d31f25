----------------------------- MODULE RaftProofs -----------------------------
(***************************************************************************)
(* Proofs about Raft, for clusters of any size and any delivery of         *)
(* messages: the elections, and lemmas about logs, ledgers and what is     *)
(* committed.                                                              *)
(***************************************************************************)
EXTENDS RaftInvariants, TLAPS

-----------------------------------------------------------------------------
(* Places in a log.                                                        *)

\* An index of a log is an index of every longer stretch of entries.
LEMMA IndexOfLonger == \A len, c \in Nat : \A x \in 1..len : len <= c => x \in 1..c
OBVIOUS

\* A log with a place in it is not empty.
LEMMA PlaceInLog ==
    \A q \in Seq(Entry) : Len(q) \in Nat /\ \A c \in 1..Len(q) : c \in Nat /\ c <= Len(q) /\ q # <<>>
OBVIOUS

\* An index up to the length of a log is a place in it.
LEMMA PlaceBelow == \A c, len \in Nat : c # 0 /\ c <= len => c \in 1..len
OBVIOUS

\* The index after a place in a log is at most one past the log's end.
LEMMA NextPlace == \A len \in Nat : \A c \in 1..len : c + 1 \in Nat \ {0} /\ c + 1 <= len + 1
OBVIOUS

\* What a leader sends from `next` on (its log's tail) is a log, place by place.
LEMMA TailIs ==
    \A q \in Seq(Entry), next \in Nat \ {0} : next <= Len(q) + 1 =>
        /\ SubSeq(q, next, Len(q)) \in Seq(Entry)
        /\ Len(SubSeq(q, next, Len(q))) = Len(q) + 1 - next
        /\ \A j \in 1..Len(q) + 1 - next : SubSeq(q, next, Len(q))[j] = q[next + j - 1]
OBVIOUS

\* Logs that agree up to a place have the same beginning there.
LEMMA SameBeginning ==
    \A q, r \in Seq(Entry) : \A x \in 1..Len(q) :
        x \in 1..Len(r) /\ (\A y \in 1..x : q[y] = r[y]) => SubSeq(q, 1, x) = SubSeq(r, 1, x)
OBVIOUS

\* Of two terms in order that differ the second is later.
LEMMA LaterOf == \A a, b \in Nat : a <= b /\ a # b => b > a
OBVIOUS

-----------------------------------------------------------------------------
(* Elections.                                                              *)

\* A step that casts and counts no vote: terms only grow, a vote is
\* forgotten only with its term, nobody becomes a candidate or a leader and
\* no message grants a vote.
NoVote ==
    /\ UNCHANGED <<ballots, leaders>>
    /\ ElectionTyped'
    /\ \A n \in Nodes :
          /\ term'[n] >= term[n]
          /\ term'[n] = term[n] => votedFor'[n] = votedFor[n]
          /\ role'[n] = "candidate" =>
                role[n] = "candidate" /\ term'[n] = term[n] /\ votes'[n] = votes[n]
    /\ \A m \in msgs' \ msgs :
          /\ m.src \in Nodes /\ m.dst \in Nodes /\ m.term \in Nat
          /\ m.type # "RequestVoteReply"

\* The invariant gives election safety.
LEMMA InvElectionSafety == MajorityFacts /\ ElectionInv => ElectionSafety
<1> SUFFICES ASSUME MajorityFacts, ElectionInv, NEW a \in leaders, NEW b \in leaders, a.term = b.term
             PROVE  a.node = b.node
  BY DEF ElectionSafety, ElectionInv, OneVote
<1>1. PICK P \in SUBSET Nodes :
        HasMajority(Cardinality(P)) /\ \A v \in P : Ballot(v, a.term, a.node) \in ballots
  BY DEF ElectionInv, Elected, Won
<1>2. PICK Q \in SUBSET Nodes :
        HasMajority(Cardinality(Q)) /\ \A v \in Q : Ballot(v, b.term, b.node) \in ballots
  BY DEF ElectionInv, Elected, Won
<1>3. PICK v \in P \cap Q : TRUE
  BY <1>1, <1>2 DEF MajorityFacts
<1>4. Ballot(v, a.term, a.node) \in ballots /\ Ballot(v, a.term, b.node) \in ballots
  BY <1>1, <1>2, <1>3
<1> QED
  BY <1>4 DEF ElectionInv, OneVote, Ballot

\* A step that casts no vote keeps the invariant.
LEMMA NoVoteInv == ElectionInv /\ NoVote => ElectionInv'
<1> SUFFICES ASSUME ElectionInv, NoVote PROVE ElectionInv'
  OBVIOUS
<1>1. ballots' = ballots /\ leaders' = leaders /\ ElectionTyped /\ ElectionTyped'
  BY DEF NoVote, ElectionInv
<1>2. \A m \in msgs' : Honest(m)'
  BY <1>1 DEF ElectionInv, NoVote, Honest
<1>3. BallotsSaved'
  <2> SUFFICES ASSUME NEW b \in ballots
               PROVE  /\ b.voter \in Nodes /\ b.for \in Nodes /\ b.term \in Nat
                      /\ b.term <= term'[b.voter]
                      /\ b.term = term'[b.voter] => votedFor'[b.voter] = b.for
    BY <1>1 DEF BallotsSaved
  <2>1. /\ b.voter \in Nodes /\ b.for \in Nodes /\ b.term \in Nat
        /\ b.term <= term[b.voter]
        /\ b.term = term[b.voter] => votedFor[b.voter] = b.for
    BY DEF ElectionInv, BallotsSaved
  <2>2. /\ term[b.voter] \in Nat /\ term'[b.voter] \in Nat
        /\ term'[b.voter] >= term[b.voter]
        /\ term'[b.voter] = term[b.voter] => votedFor'[b.voter] = votedFor[b.voter]
    BY <1>1, <2>1 DEF ElectionTyped, NoVote
  <2> QED
    BY <2>1, <2>2
<1>4. OneVote' /\ Elected'
  BY <1>1 DEF ElectionInv, OneVote, Elected, Won
<1>5. VotesCast'
  BY <1>1 DEF ElectionInv, VotesCast, NoVote
<1> QED
  BY <1>1, <1>2, <1>3, <1>4, <1>5 DEF ElectionInv

\* Before the first election there is nothing to break.
LEMMA InitElection == Init => ElectionInv
  BY DEF Init, ElectionInv, ElectionTyped, BallotsSaved, OneVote, VotesCast, Elected

-----------------------------------------------------------------------------
(* Steps that cast no vote.                                                *)

\* Heartbeats and submit() send AppendEntries only; its answers send nothing.
LEMMA ClientNoVote ==
    ASSUME ElectionInv, NEW n \in Nodes,
           \/ Heartbeat(n)
           \/ \E c \in Commands : Submit(n, c)
           \/ \E w \in waiting : Return(w) \/ GiveUp(w)
    PROVE  NoVote
<1>1. UNCHANGED <<term, votedFor, role, votes, ballots, leaders>>
  <2>1. CASE \E c \in Commands : Submit(n, c)
    BY <2>1 DEF Submit, election
  <2>2. CASE Heartbeat(n) \/ \E w \in waiting : Return(w) \/ GiveUp(w)
    BY <2>2 DEF Heartbeat, Return, GiveUp, persistent, election, history, elected
  <2> QED
    BY <2>1, <2>2
<1>2. ElectionTyped /\ ElectionTyped'
  BY <1>1 DEF ElectionInv, ElectionTyped
<1>3. ASSUME NEW l, NEW next, NEW commit, NEW m \in Broadcast(n, term[n], l, next, commit)
      PROVE  m.src \in Nodes /\ m.dst \in Nodes /\ m.term \in Nat /\ m.type # "RequestVoteReply"
  BY <1>2 DEF Broadcast, AppendEntries, Peers, ElectionTyped
<1>4. \A m \in msgs' \ msgs :
         m.src \in Nodes /\ m.dst \in Nodes /\ m.term \in Nat /\ m.type # "RequestVoteReply"
  <2>1. CASE \E c \in Commands : Submit(n, c)
    <3>1. \E l, next, commit : msgs' = msgs \cup Broadcast(n, term[n], l, next, commit)
      BY <2>1, Zenon DEF Submit, Send
    <3> QED
      BY <1>3, <3>1
  <2>2. CASE Heartbeat(n)
    BY <1>3, <2>2 DEF Heartbeat, Send
  <2>3. CASE \E w \in waiting : Return(w) \/ GiveUp(w)
    BY <2>3 DEF Return, GiveUp
  <2> QED
    BY <2>1, <2>2, <2>3
<1> QED
  BY <1>1, <1>2, <1>4 DEF NoVote, ElectionTyped

\* A restart keeps the saved term and vote.
LEMMA RestartNoVote ==
    ASSUME ElectionInv, LogPersisted, NEW n \in Nodes, Restart(n)
    PROVE  NoVote
<1>1. /\ UNCHANGED <<term, votedFor, ballots, leaders, msgs>>
      /\ role' = [role EXCEPT ![n] = "follower"] /\ votes' = [votes EXCEPT ![n] = {}]
  BY DEF Restart, Reload, Volatile, persistent, history, elected
<1> QED
  BY <1>1 DEF NoVote, ElectionInv, ElectionTyped

\* A later term clears the vote and the role.
LEMMA LaterTerm ==
    ASSUME ElectionInv, NEW n \in Nodes, NEW t \in Nat, t >= term[n],
           term' = [term EXCEPT ![n] = t],
           votedFor' = IF t > term[n] THEN [votedFor EXCEPT ![n] = Nil] ELSE votedFor,
           role' = [role EXCEPT ![n] = "follower"],
           votes' = votes \/ votes' = [votes EXCEPT ![n] = {}]
    PROVE  /\ ElectionTyped'
           /\ \A u \in Nodes :
                 /\ term'[u] >= term[u]
                 /\ term'[u] = term[u] => votedFor'[u] = votedFor[u]
                 /\ role'[u] = "candidate" =>
                       role[u] = "candidate" /\ term'[u] = term[u] /\ votes'[u] = votes[u]
  BY DEF ElectionInv, ElectionTyped

\* AppendEntries and its reply, and a vote's reply of a later term, at most
\* raise the term.
LEMMA ReceiveNoVote ==
    ASSUME ElectionInv, NEW n \in Nodes, NEW m \in msgs, m.dst = n,
           \/ RejectStale(n, m) \/ RejectMismatch(n, m) \/ Accept(n, m)
           \/ HandleAppendEntriesReply(n, m) \/ CrashInAccept(n, m)
           \/ m.type = "RequestVoteReply" /\ m.term > term[n] /\ StepDown(n, m.term) /\ Reply(m, {})
    PROVE  NoVote
<1>1. m.src \in Nodes /\ m.dst \in Nodes /\ m.term \in Nat /\ ElectionTyped /\ term[n] \in Nat
  BY DEF ElectionInv, Honest, ElectionTyped
<1>2. ASSUME NEW ms, Reply(m, ms)
      PROVE  msgs' \ msgs \subseteq ms
  BY <1>2 DEF Reply
<1>3. ASSUME NEW ms, Reply(m, ms), UNCHANGED <<ballots, leaders>>,
             \A x \in ms : /\ x.src \in Nodes /\ x.dst \in Nodes /\ x.term \in Nat
                           /\ x.type # "RequestVoteReply",
             \/ UNCHANGED <<term, votedFor, role, votes>>
             \/ /\ m.term >= term[n]
                /\ term' = [term EXCEPT ![n] = m.term]
                /\ votedFor' = IF m.term > term[n] THEN [votedFor EXCEPT ![n] = Nil] ELSE votedFor
                /\ role' = [role EXCEPT ![n] = "follower"]
                /\ votes' = votes \/ votes' = [votes EXCEPT ![n] = {}]
      PROVE  NoVote
  <2>1. \A x \in msgs' \ msgs : /\ x.src \in Nodes /\ x.dst \in Nodes /\ x.term \in Nat
                                /\ x.type # "RequestVoteReply"
    BY <1>2, <1>3
  <2>2. CASE UNCHANGED <<term, votedFor, role, votes>>
    BY <1>1, <1>3, <2>1, <2>2 DEF NoVote, ElectionTyped
  <2>3. CASE ~UNCHANGED <<term, votedFor, role, votes>>
    BY <1>1, <1>3, <2>1, <2>3, LaterTerm DEF NoVote
  <2> QED
    BY <2>2, <2>3
<1>f. ASSUME NEW ms, Reply(m, ms), UNCHANGED <<ballots, leaders>>, m.term >= term[n],
             \A x \in ms : /\ x.src \in Nodes /\ x.dst \in Nodes /\ x.term \in Nat
                           /\ x.type # "RequestVoteReply",
             term' = [term EXCEPT ![n] = m.term],
             votedFor' = IF m.term > term[n] THEN [votedFor EXCEPT ![n] = Nil] ELSE votedFor,
             role' = [role EXCEPT ![n] = "follower"],
             votes' = votes \/ votes' = [votes EXCEPT ![n] = {}]
      PROVE  NoVote
  BY <1>3, <1>f
<1>4. ASSUME NEW t \in Nat, NEW s, NEW i
      PROVE  \A x \in {AppendEntriesReply(n, m.src, t, s, i)} :
                 /\ x.src \in Nodes /\ x.dst \in Nodes /\ x.term \in Nat
                 /\ x.type # "RequestVoteReply"
  BY <1>1 DEF AppendEntriesReply
<1>5. CASE RejectStale(n, m)
  <2> DEFINE ms == {AppendEntriesReply(n, m.src, term[n], FALSE, Len(log[n]))}
  <2>1. \A x \in ms : x.src \in Nodes /\ x.dst \in Nodes /\ x.term \in Nat /\ x.type # "RequestVoteReply"
    BY <1>1, <1>4, Zenon
  <2>2. Reply(m, ms) /\ UNCHANGED <<ballots, leaders, term, votedFor, role, votes>>
    BY <1>5 DEF RejectStale, persistent, election, history, elected
  <2> HIDE DEF ms
  <2> QED
    BY <1>3, <2>1, <2>2
<1>6. CASE RejectMismatch(n, m)
  <2> DEFINE ms == {AppendEntriesReply(n, m.src, m.term, FALSE, Len(log[n]))}
  <2>1. \A x \in ms : x.src \in Nodes /\ x.dst \in Nodes /\ x.term \in Nat /\ x.type # "RequestVoteReply"
    BY <1>1, <1>4, Zenon
  <2>2. Reply(m, ms) /\ m.term >= term[n] /\ Follow(n, m)
    BY <1>6 DEF RejectMismatch
  <2> HIDE DEF ms
  <2> QED
    BY <1>f, <2>1, <2>2 DEF Follow, history, elected
<1>7. CASE Accept(n, m)
  <2> DEFINE ms == {AppendEntriesReply(n, m.src, m.term, TRUE, m.prevIndex + Len(m.entries))}
  <2>1. \A x \in ms : x.src \in Nodes /\ x.dst \in Nodes /\ x.term \in Nat /\ x.type # "RequestVoteReply"
    BY <1>1, <1>4, Zenon
  <2>2. Reply(m, ms) /\ m.term >= term[n] /\ Follow(n, m)
    BY <1>7 DEF Accept
  <2> HIDE DEF ms
  <2> QED
    BY <1>f, <2>1, <2>2 DEF Follow, history, elected
<1>8. CASE CrashInAccept(n, m)
  <2>1. /\ Reply(m, {}) /\ UNCHANGED <<ballots, leaders>> /\ m.term >= term[n]
        /\ term' = [term EXCEPT ![n] = m.term]
        /\ votedFor' = IF m.term > term[n] THEN [votedFor EXCEPT ![n] = Nil] ELSE votedFor
        /\ role' = [role EXCEPT ![n] = "follower"] /\ votes' = [votes EXCEPT ![n] = {}]
    BY <1>8 DEF CrashInAccept, Volatile, history, elected
  <2> QED
    BY <1>f, <2>1
<1>9. ASSUME m.term > term[n], StepDown(n, m.term), Reply(m, {})
      PROVE  NoVote
  BY <1>1, <1>3, <1>9 DEF StepDown, history, elected
<1>10. CASE HandleAppendEntriesReply(n, m)
  <2>1. CASE m.success
    <3>1. \/ m.term > term[n] /\ StepDown(n, m.term) /\ Reply(m, {})
          \/ Reply(m, {}) /\ UNCHANGED <<term, votedFor, role, votes, ballots, leaders>>
      BY <1>10, <2>1, Zenon
         DEF HandleAppendEntriesReply, persistent, election, history, elected
    <3> QED
      BY <1>1, <1>3, <1>9, <3>1
  <2>2. ASSUME NEW l, NEW next, NEW c
        PROVE  \A x \in {AppendEntries(n, m.src, term[n], l, next, c)} :
                   /\ x.src \in Nodes /\ x.dst \in Nodes /\ x.term \in Nat
                   /\ x.type # "RequestVoteReply"
    BY <1>1, SMTT(60) DEF AppendEntries
  <2>3. CASE ~m.success
    BY <1>1, <1>3, <1>9, <1>10, <2>2, <2>3 DEF HandleAppendEntriesReply, persistent, election, history, elected
  <2> QED
    BY <2>1, <2>3
<1> QED
  BY <1>5, <1>6, <1>7, <1>8, <1>9, <1>10

-----------------------------------------------------------------------------
(* Steps that cast or count votes.                                         *)

\* A vote for a candidate that a node has not given away keeps every older
\* one: the candidate's own vote and a granted one.
LEMMA CastInv ==
    ASSUME ElectionInv, NEW n \in Nodes, NEW t \in Nat, NEW c \in Nodes,
           t >= term[n], t = term[n] => votedFor[n] \in {Nil, c},
           term' = [term EXCEPT ![n] = t], votedFor' = [votedFor EXCEPT ![n] = c],
           ballots' = ballots \cup {Ballot(n, t, c)}
    PROVE  BallotsSaved' /\ OneVote'
<1>1. ElectionTyped /\ BallotsSaved /\ OneVote /\ Nil \notin Nodes
  BY RaftAssumption DEF ElectionInv
<1>2. /\ term'[n] = t /\ votedFor'[n] = c /\ term[n] \in Nat
      /\ \A u \in Nodes \ {n} : term'[u] = term[u] /\ votedFor'[u] = votedFor[u]
  BY <1>1 DEF ElectionTyped
<1>3. \A b \in ballots : b.voter = n /\ b.term = t => b.for = c
  BY <1>1, <1>2 DEF BallotsSaved
<1>4. BallotsSaved'
  <2> SUFFICES ASSUME NEW b \in ballots'
               PROVE  /\ b.voter \in Nodes /\ b.for \in Nodes /\ b.term \in Nat
                      /\ b.term <= term'[b.voter]
                      /\ b.term = term'[b.voter] => votedFor'[b.voter] = b.for
    BY DEF BallotsSaved
  <2>1. CASE b \in ballots
    <3>1. /\ b.voter \in Nodes /\ b.for \in Nodes /\ b.term \in Nat /\ b.term <= term[b.voter]
          /\ b.term = term[b.voter] => votedFor[b.voter] = b.for
      BY <1>1, <2>1 DEF BallotsSaved
    <3>2. CASE b.voter = n
      BY <1>2, <1>3, <2>1, <3>1, <3>2
    <3>3. CASE b.voter # n
      BY <1>2, <3>1, <3>3
    <3> QED
      BY <3>2, <3>3
  <2>2. CASE b = Ballot(n, t, c)
    BY <1>2, <2>2 DEF Ballot
  <2> QED
    BY <2>1, <2>2
<1>5. OneVote'
  BY <1>1, <1>3 DEF OneVote, Ballot
<1> QED
  BY <1>4, <1>5

\* More ballots keep every majority and every honest message.
LEMMA MoreBallots ==
    ASSUME ElectionInv, ballots \subseteq ballots'
    PROVE  /\ \A t, n : Won(t, n) => Won(t, n)'
           /\ \A m \in msgs : Honest(m)'
  BY DEF ElectionInv, Won, Honest

\* A vote is granted once per term.
LEMMA RequestVoteInv ==
    ASSUME ElectionInv, NEW n \in Nodes, NEW m \in msgs, m.dst = n, HandleRequestVote(n, m)
    PROVE  ElectionInv'
<1>0. m.src \in Nodes /\ m.term \in Nat /\ term[n] \in Nat /\ ElectionTyped
  BY DEF ElectionInv, Honest, ElectionTyped
<1>1. PICK t \in Nat, granted \in BOOLEAN, v \in Nodes \cup {Nil} :
        /\ t >= term[n] /\ (t = term[n] => v = votedFor[n])
        /\ granted => v \in {Nil, m.src}
        /\ term' = [term EXCEPT ![n] = t] /\ votes' = votes
        /\ role' = [role EXCEPT ![n] = "follower"] \/ (role' = role /\ t = term[n])
        /\ votedFor' = [votedFor EXCEPT ![n] = IF granted THEN m.src ELSE v]
        /\ ballots' = IF granted THEN ballots \cup {Ballot(n, t, m.src)} ELSE ballots
        /\ leaders' = leaders
        /\ Reply(m, {RequestVoteReply(n, m.src, t, granted)})
  <2> DEFINE later == m.term > term[n]
             vote == IF later THEN Nil ELSE votedFor[n]
             yes == m.term >= term[n] /\ vote \in {Nil, m.src} /\ UpToDate(m, log[n])
             t == IF later THEN m.term ELSE term[n]
  <2>1. /\ t \in Nat /\ yes \in BOOLEAN /\ vote \in Nodes \cup {Nil} /\ t >= term[n]
        /\ t = term[n] => vote = votedFor[n]
    BY <1>0 DEF ElectionTyped
  <2>2. /\ term' = [term EXCEPT ![n] = t] /\ votes' = votes
        /\ role' = IF later THEN [role EXCEPT ![n] = "follower"] ELSE role
        /\ votedFor' = [votedFor EXCEPT ![n] = IF yes THEN m.src ELSE vote]
        /\ ballots' = IF yes THEN ballots \cup {Ballot(n, t, m.src)} ELSE ballots
        /\ leaders' = leaders
        /\ Reply(m, {RequestVoteReply(n, m.src, t, yes)})
    BY DEF HandleRequestVote, Ballot, elected
  <2>3. role' = [role EXCEPT ![n] = "follower"] \/ (role' = role /\ t = term[n])
    BY <2>2
  <2>4. yes => vote \in {Nil, m.src}
    OBVIOUS
  <2> HIDE DEF t, yes, vote, later
  <2> QED
    BY <2>1, <2>2, <2>3, <2>4, Zenon
<1>2. term'[n] = t /\ \A u \in Nodes \ {n} : term'[u] = term[u] /\ role'[u] = role[u]
  BY <1>0, <1>1 DEF ElectionTyped
<1>3. ElectionTyped'
  BY <1>0, <1>1 DEF ElectionTyped
<1>4. BallotsSaved' /\ OneVote'
  <2>1. CASE granted
    <3>1. /\ votedFor' = [votedFor EXCEPT ![n] = m.src]
          /\ ballots' = ballots \cup {Ballot(n, t, m.src)}
          /\ t = term[n] => votedFor[n] \in {Nil, m.src}
      BY <1>1, <2>1
    <3> QED
      BY <1>0, <1>1, <3>1, CastInv, Zenon
  <2>2. CASE ~granted
    <3>1. ballots' = ballots /\ votedFor' = [votedFor EXCEPT ![n] = v]
      BY <1>1, <2>2
    <3> QED
      BY <1>0, <1>1, <3>1 DEF ElectionInv, BallotsSaved, OneVote, ElectionTyped
  <2> QED
    BY <2>1, <2>2
<1>5. ballots \subseteq ballots'
  BY <1>1
<1>6. Elected'
  BY <1>1, <1>5, MoreBallots DEF ElectionInv, Elected
<1>7. \A x \in msgs' : Honest(x)'
  <2>1. Honest(RequestVoteReply(n, m.src, t, granted))'
    BY <1>0, <1>1 DEF Honest, RequestVoteReply
  <2>2. msgs' \subseteq msgs \cup {RequestVoteReply(n, m.src, t, granted)}
    BY <1>1 DEF Reply
  <2> QED
    BY <1>5, <2>1, <2>2, MoreBallots
<1>8. VotesCast'
  BY <1>0, <1>1, <1>2, <1>5 DEF ElectionInv, VotesCast, ElectionTyped
<1> QED
  BY <1>3, <1>4, <1>6, <1>7, <1>8 DEF ElectionInv

\* The messages of a new leader grant no vote.
LEMMA LeaderMessages ==
    ASSUME NEW n \in Nodes, NEW t \in Nat, NEW m \in Announce(n, t)
    PROVE  m.src \in Nodes /\ m.dst \in Nodes /\ m.term \in Nat /\ m.type # "RequestVoteReply"
<1>1. ASSUME NEW l, NEW next, NEW c, NEW x \in Broadcast(n, t, l, next, c)
      PROVE  x.src \in Nodes /\ x.dst \in Nodes /\ x.term \in Nat /\ x.type # "RequestVoteReply"
  BY DEF Broadcast, AppendEntries, Peers
<1> QED
  BY <1>1 DEF Announce

\* A candidate votes for itself in a term it has never been in.
LEMMA TimeoutInv ==
    ASSUME MajorityFacts, ElectionInv, NEW n \in Nodes, Timeout(n)
    PROVE  ElectionInv'
<1>0. ElectionTyped /\ term[n] \in Nat
  BY DEF ElectionInv, ElectionTyped
<1>1. PICK t \in Nat : t = term[n] + 1
  BY <1>0
<1>2. /\ term' = [term EXCEPT ![n] = t] /\ votedFor' = [votedFor EXCEPT ![n] = n]
      /\ votes' = [votes EXCEPT ![n] = {n}] /\ ballots' = ballots \cup {Ballot(n, t, n)}
  BY <1>1 DEF Timeout, Ballot
<1>3. \/ /\ HasMajority(1) /\ leaders' = leaders \cup {[term |-> t, node |-> n]}
         /\ role' = [role EXCEPT ![n] = "leader"] /\ msgs' = msgs \cup Announce(n, t)
      \/ /\ leaders' = leaders /\ role' = [role EXCEPT ![n] = "candidate"]
         /\ msgs' = msgs \cup {RequestVote(n, p, t) : p \in Peers(n)}
  BY <1>1 DEF Timeout, BecomeLeader, Send, elected
<1>4. ElectionTyped'
  BY <1>0, <1>2, <1>3 DEF ElectionTyped
<1>5. BallotsSaved' /\ OneVote'
  <2>1. t >= term[n] /\ t # term[n]
    BY <1>0, <1>1
  <2> QED
    BY <1>2, <2>1, CastInv, Zenon
<1>6. ballots \subseteq ballots' /\ Ballot(n, t, n) \in ballots'
  BY <1>2
<1>7. \A m \in msgs' : Honest(m)'
  <2>1. \A m \in {RequestVote(n, p, t) : p \in Peers(n)} :
          m.src \in Nodes /\ m.dst \in Nodes /\ m.term \in Nat /\ m.type # "RequestVoteReply"
    BY DEF RequestVote, Peers
  <2>2. \A m \in msgs' \ msgs :
          m.src \in Nodes /\ m.dst \in Nodes /\ m.term \in Nat /\ m.type # "RequestVoteReply"
    BY <1>3, <2>1, LeaderMessages
  <2>3. \A m \in msgs' \ msgs : Honest(m)'
    BY <2>2 DEF Honest
  <2> QED
    BY <1>6, <2>3, MoreBallots
<1>8. VotesCast'
  BY <1>0, <1>2, <1>3, <1>6 DEF ElectionInv, VotesCast, ElectionTyped
<1>9. HasMajority(1) => Won(t, n)'
  <2>1. Cardinality({n}) = 1
    BY DEF MajorityFacts
  <2> QED
    BY <1>6, <2>1 DEF Won
<1>10. Elected'
  BY <1>3, <1>6, <1>9, MoreBallots DEF ElectionInv, Elected
<1> QED
  BY <1>4, <1>5, <1>7, <1>8, <1>10 DEF ElectionInv

\* A candidate counts a vote, and leads with a majority of them.
LEMMA CountInv ==
    ASSUME ElectionInv, NEW n \in Nodes, NEW m \in msgs, m.dst = n,
           HandleRequestVoteReply(n, m), ~(m.term > term[n])
    PROVE  ElectionInv'
<1>1. /\ ElectionTyped /\ m.src \in Nodes /\ m.term \in Nat
      /\ m.term = term[n] /\ role[n] = "candidate" /\ m.granted
      /\ Ballot(m.src, term[n], n) \in ballots
  BY Zenon DEF HandleRequestVoteReply, ElectionInv, Honest
<1>2. /\ votes' = [votes EXCEPT ![n] = @ \cup {m.src}]
      /\ UNCHANGED <<term, votedFor, ballots>>
  BY Zenon DEF HandleRequestVoteReply
<1>3. \/ /\ HasMajority(Cardinality(votes[n] \cup {m.src}))
         /\ leaders' = leaders \cup {[term |-> term[n], node |-> n]}
         /\ role' = [role EXCEPT ![n] = "leader"] /\ Reply(m, Announce(n, term[n]))
      \/ UNCHANGED <<leaders, role>> /\ Reply(m, {})
  BY Zenon DEF HandleRequestVoteReply, BecomeLeader, elected
<1>4. ElectionTyped'
  BY <1>1, <1>2, <1>3 DEF ElectionTyped
<1>5. BallotsSaved' /\ OneVote'
  BY <1>2 DEF ElectionInv, BallotsSaved, OneVote
<1>6. \A x \in msgs' : Honest(x)'
  <2>1. \A x \in msgs' \ msgs : x \in Announce(n, term[n])
    BY <1>3 DEF Reply
  <2>2. term[n] \in Nat
    BY <1>1
  <2>3. \A x \in msgs' \ msgs : Honest(x)'
    BY <2>1, <2>2, LeaderMessages DEF Honest
  <2> QED
    BY <1>2, <2>3, MoreBallots
<1>7. \A v \in votes[n] \cup {m.src} : Ballot(v, term[n], n) \in ballots
  BY <1>1 DEF ElectionInv, VotesCast
<1>8. VotesCast'
  BY <1>1, <1>2, <1>3, <1>7 DEF ElectionInv, VotesCast, ElectionTyped
<1>9. Elected'
  <2>1. ASSUME HasMajority(Cardinality(votes[n] \cup {m.src}))
        PROVE  Won(term[n], n)
    BY <1>1, <1>7, <2>1 DEF Won, ElectionTyped
  <2> QED
    BY <1>2, <1>3, <2>1 DEF ElectionInv, Elected, Won
<1> QED
  BY <1>4, <1>5, <1>6, <1>8, <1>9 DEF ElectionInv

\* No step of any node breaks the invariant, when restarts reload the log.
LEMMA ElectionNext == LogPersisted /\ MajorityFacts /\ ElectionInv /\ [Next]_vars => ElectionInv'
<1> SUFFICES ASSUME LogPersisted, MajorityFacts, ElectionInv, [Next]_vars PROVE ElectionInv'
  OBVIOUS
<1>1. CASE UNCHANGED vars
  BY <1>1 DEF vars, ElectionInv, ElectionTyped, Honest, BallotsSaved, OneVote, VotesCast, Elected, Won
<1>2. CASE Next
  <2>1. PICK n \in Nodes :
          \/ Timeout(n)
          \/ Heartbeat(n) \/ (\E c \in Commands : Submit(n, c))
          \/ \E w \in waiting : Return(w) \/ GiveUp(w)
          \/ Restart(n)
          \/ \E m \in msgs : Receive(n, m) \/ CrashInAccept(n, m)
    BY <1>2 DEF Next
  <2>2. ASSUME NEW m \in msgs, Receive(n, m) \/ CrashInAccept(n, m)
        PROVE  ElectionInv'
    <3>1. m.dst = n
      BY <2>2 DEF Receive, CrashInAccept
    <3>2. CASE HandleRequestVote(n, m)
      BY <3>1, <3>2, RequestVoteInv
    <3>3. CASE HandleRequestVoteReply(n, m) /\ ~(m.term > term[n])
      BY <3>1, <3>3, CountInv
    <3>4. CASE HandleRequestVoteReply(n, m) /\ m.term > term[n]
      <4>1. m.term \in Nat /\ term[n] \in Nat
        BY DEF ElectionInv, Honest, ElectionTyped
      <4>2. m.type = "RequestVoteReply" /\ StepDown(n, m.term) /\ Reply(m, {})
        BY <3>4, <4>1, SMTT(60) DEF HandleRequestVoteReply
      <4> QED
        BY <3>1, <3>4, <4>2, ReceiveNoVote, NoVoteInv
    <3> QED
      BY <2>2, <3>1, <3>2, <3>3, <3>4, ReceiveNoVote, NoVoteInv DEF Receive
  <2> QED
    BY <2>1, <2>2, TimeoutInv, ClientNoVote, RestartNoVote, NoVoteInv
<1> QED
  BY <1>1, <1>2

-----------------------------------------------------------------------------
(* Logs.                                                                   *)

\* Terms are numbers.
LEMMA TermsAreNat == Terms \subseteq Nat
  BY RaftAssumption DEF Terms

\* Entries have natural terms.
LEMMA EntryTerms ==
    ASSUME NEW l \in Seq(Entry)
    PROVE  Len(l) \in Nat /\ \A i \in 1..Len(l) : l[i] \in Entry /\ l[i].term \in Nat
<1>1. Len(l) \in Nat /\ \A i \in 1..Len(l) : l[i] \in Entry
  OBVIOUS
<1>2. \A e \in Entry : e.term \in Nat
  BY DEF Entry
<1> QED
  BY <1>1, <1>2

\* Terms below one bound are below every higher one.
LEMMA BeforeLater ==
    ASSUME NEW l \in Seq(Entry), NEW b \in Nat, NEW c \in Nat, c >= b, Before(l, b + 1)
    PROVE  Before(l, c + 1)
<1>1. \A x \in 1..Len(l) : l[x].term \in Nat
  BY EntryTerms
<1> QED
  BY <1>1 DEF Before

\* Logs traced to the same ledgers that have the same term at an index are
\* the same up to it.
LEMMA TracedSame ==
    ASSUME NEW L, NEW l, NEW k, Traced(l, L), Traced(k, L),
           NEW x \in 1..Len(l), x \in 1..Len(k), l[x].term = k[x].term
    PROVE  \A y \in 1..x : l[y] = k[y]
  BY DEF Traced

\* A log stays traced when the ledgers grow.
LEMMA TracedGrows ==
    ASSUME NEW L \in Ledgers, NEW M \in Ledgers, \A t \in Terms : Starts(L[t], M[t]),
           NEW l \in Seq(Entry), Traced(l, L)
    PROVE  Traced(l, M)
<1> SUFFICES ASSUME NEW x \in 1..Len(l)
             PROVE  /\ l[x].term \in Terms /\ x <= Len(M[l[x].term])
                    /\ \A y \in 1..x : l[y] = M[l[x].term][y]
  BY DEF Traced
<1>1. PICK t \in Terms : t = l[x].term /\ x <= Len(L[t]) /\ \A y \in 1..x : l[y] = L[t][y]
  BY DEF Traced
<1>2. Len(L[t]) \in Nat /\ Len(M[t]) \in Nat /\ x \in Nat
  BY DEF Ledgers
<1>3. Len(L[t]) <= Len(M[t]) /\ \A y \in 1..Len(L[t]) : L[t][y] = M[t][y]
  BY DEF Starts
<1> QED
  BY <1>1, <1>2, <1>3

\* The beginning of a traced log is traced.
LEMMA TracedStart ==
    ASSUME NEW L, NEW l \in Seq(Entry), NEW k \in Seq(Entry), Traced(k, L), Starts(l, k)
    PROVE  Traced(l, L)
  BY DEF Traced, Starts

\* What append_from returns: up to the end of the message the leader's
\* ledger, and the old log unless that did not hold all of it.
LEMMA AppendFromIs ==
    ASSUME ListFacts, NEW L \in Ledgers, NEW l \in Seq(Entry), Traced(l, L),
           NEW k \in Seq(Entry), Traced(k, L), NEW prev \in Nat, NEW es \in Seq(Entry),
           prev + Len(es) <= Len(k), \A j \in 1..Len(es) : es[j] = k[prev + j],
           prev <= Len(l), TermAt(l, prev) = TermAt(k, prev)
    PROVE  Appended(AppendFrom(l, prev, es), l, k, prev + Len(es))
<1> DEFINE fresh == {j \in 1..Len(es) : TermAt(l, prev + j) # es[j].term}
           first == CHOOSE j \in fresh : \A i \in fresh : j <= i
           r == AppendFrom(l, prev, es)
           z == prev + Len(es)
<1>1. /\ Len(l) \in Nat /\ \A i \in 1..Len(l) : l[i] \in Entry /\ l[i].term \in Nat
      /\ Len(k) \in Nat /\ \A i \in 1..Len(k) : k[i] \in Entry /\ k[i].term \in Nat
      /\ Len(es) \in Nat /\ \A i \in 1..Len(es) : es[i] \in Entry
  BY EntryTerms
<1>2. ASSUME NEW j \in 0..Len(es), \A i \in 1..j : i \notin fresh
      PROVE  prev + j <= Len(l) /\ \A y \in 1..prev + j : l[y] = k[y]
  <2>1. prev + j <= Len(l) /\ prev + j <= Len(k)
    <3>1. CASE j = 0
      BY <1>1, <3>1
    <3>2. CASE j # 0
      <4>1. j \in 1..j /\ j \in 1..Len(es) /\ prev + j \in 1..Len(k) /\ es[j] = k[prev + j]
        BY <1>1, <3>2
      <4>2. TermAt(l, prev + j) = k[prev + j].term
        BY <1>2, <4>1
      <4>3. TermAt(l, prev + j) # -1
        BY <1>1, <4>1, <4>2
      <4> QED
        BY <1>1, <4>1, <4>3 DEF TermAt
    <3> QED
      BY <3>1, <3>2
  <2>2. CASE prev + j = 0
    BY <2>2
  <2>3. CASE prev + j # 0
    <3>1. prev + j \in 1..Len(l) /\ prev + j \in 1..Len(k)
      BY <1>1, <2>1, <2>3
    <3>2. l[prev + j].term = k[prev + j].term
      <4>1. CASE j = 0
        BY <1>1, <3>1, <4>1 DEF TermAt
      <4>2. CASE j # 0
        <5>1. j \in 1..j /\ j \in 1..Len(es) /\ es[j] = k[prev + j]
          BY <1>1, <4>2
        <5>2. TermAt(l, prev + j) = k[prev + j].term
          BY <1>2, <5>1
        <5> QED
          BY <1>1, <3>1, <5>2 DEF TermAt
      <4> QED
        BY <4>1, <4>2
    <3> QED
      BY <2>1, <3>1, <3>2, TracedSame
  <2> QED
    BY <2>2, <2>3
<1>3. CASE fresh = {}
  <2>1. r = l
    BY <1>3 DEF AppendFrom
  <2>2. Len(es) \in 0..Len(es)
    BY <1>1
  <2>3. z <= Len(l) /\ \A y \in 1..z : l[y] = k[y]
    <3> HIDE DEF fresh
    <3> QED
      BY <1>2, <1>3, <2>2
  <2> HIDE DEF fresh, r, z
  <2>4. Appended(r, l, k, z)
    BY <2>1, <2>3 DEF Appended
  <2> QED
    BY <2>4 DEF r, z
<1>4. CASE fresh # {}
  <2>1. first \in fresh /\ \A i \in fresh : first <= i
    <3>1. fresh \in SUBSET Nat
      BY <1>1
    <3> HIDE DEF fresh
    <3>2. \E j \in fresh : \A i \in fresh : j <= i
      BY <1>4, <3>1, Zenon DEF ListFacts
    <3> QED
      BY <3>2
  <2>2. r = SubSeq(l, 1, prev + first - 1) \o SubSeq(es, first, Len(es))
    BY <1>4, Zenon DEF AppendFrom
  <2>3. first \in 1..Len(es) /\ first - 1 \in 0..Len(es) /\ TermAt(l, prev + first) # es[first].term
    BY <1>1, <2>1
  <2> HIDE DEF first, fresh, r, z
  <2>4. ASSUME NEW i \in 1..first - 1 PROVE i \notin fresh
    BY <2>1, <2>3
  <2>5. prev + (first - 1) <= Len(l) /\ \A y \in 1..prev + (first - 1) : l[y] = k[y]
    BY <1>2, <2>3, <2>4, Zenon
  <2> DEFINE a == SubSeq(l, 1, prev + first - 1)
             b == SubSeq(es, first, Len(es))
  <2>6. /\ a \in Seq(Entry) /\ Len(a) = prev + first - 1
        /\ \A i \in 1..prev + first - 1 : a[i] = l[i]
    <3>1. \A i \in 1..prev + first - 1 : l[i] \in Entry
      BY <1>1, <2>3, <2>5
    <3>2. prev + first - 1 \in Nat
      BY <2>3
    <3> QED
      BY <3>1, <3>2
  <2>7. /\ b \in Seq(Entry) /\ Len(b) = Len(es) - first + 1
        /\ \A i \in 1..Len(es) - first + 1 : b[i] = es[first + i - 1]
    BY <1>1, <2>3
  <2> HIDE DEF a, b
  <2>8. /\ r \in Seq(Entry) /\ Len(r) = z
        /\ \A i \in 1..z : r[i] = IF i <= Len(a) THEN a[i] ELSE b[i - Len(a)]
    <3>1. r = a \o b
      BY <2>2 DEF a, b
    <3>2. Len(a) + Len(b) = z
      BY <1>1, <2>3, <2>6, <2>7 DEF z
    <3>3. /\ a \o b \in Seq(Entry) /\ Len(a \o b) = Len(a) + Len(b)
          /\ \A i \in 1..Len(a) + Len(b) :
                (a \o b)[i] = IF i <= Len(a) THEN a[i] ELSE b[i - Len(a)]
      BY <2>6, <2>7, Zenon DEF ListFacts
    <3> QED
      BY <3>1, <3>2, <3>3, Zenon
  <2>9. ASSUME NEW y \in 1..z PROVE r[y] = k[y]
    <3>1. CASE y <= prev + first - 1
      <4>1. y \in 1..prev + first - 1 /\ y \in 1..prev + (first - 1)
        BY <1>1, <2>3, <3>1 DEF z
      <4>2. r[y] = a[y]
        BY <2>6, <2>8, <3>1
      <4> QED
        BY <2>5, <2>6, <4>1, <4>2
    <3>2. CASE ~(y <= prev + first - 1)
      <4>1. r[y] = b[y - (prev + first - 1)]
        BY <2>6, <2>8, <3>2
      <4>2. y - (prev + first - 1) \in 1..Len(es) - first + 1
        BY <1>1, <2>3, <3>2 DEF z
      <4>3. first + (y - (prev + first - 1)) - 1 = y - prev /\ y - prev \in 1..Len(es)
        BY <1>1, <2>3, <4>2
      <4>4. r[y] = es[y - prev]
        BY <2>7, <4>1, <4>2, <4>3
      <4>5. prev + (y - prev) = y
        BY <1>1 DEF z
      <4> QED
        BY <4>3, <4>4, <4>5
    <3> QED
      BY <3>1, <3>2
  <2>10. z > Len(l) \/ \E x \in 1..z : l[x].term # k[x].term
    <3>1. prev + first \in 1..z /\ es[first] = k[prev + first]
      BY <1>1, <2>3 DEF z
    <3>2. CASE prev + first > Len(l)
      BY <1>1, <3>1, <3>2 DEF z
    <3>3. CASE ~(prev + first > Len(l))
      <4>1. TermAt(l, prev + first) = l[prev + first].term
        BY <1>1, <2>3, <3>3 DEF TermAt
      <4> QED
        BY <2>3, <3>1, <4>1
    <3> QED
      BY <3>2, <3>3
  <2>11. z <= Len(r)
    BY <1>1, <2>8 DEF z
  <2> QED
    BY <2>8, <2>9, <2>10, <2>11 DEF Appended, r, z
<1> QED
  BY <1>3, <1>4

\* The commit index after _maybe_advance_commit is the old one, or that of
\* a committable entry.
LEMMA AdvancedIs ==
    ASSUME ListFacts, LogsTyped, NEW n \in Nodes, NEW t, NEW l \in Seq(Entry), NEW match
    PROVE  LET a == AdvancedCommit(n, t, l, match) IN
           /\ a \in Nat /\ a >= commitIndex[n]
           /\ a = commitIndex[n] \/ a \in Committable(n, t, l, match)
<1> DEFINE C == Committable(n, t, l, match)
<1>1. commitIndex[n] \in Nat /\ Len(l) \in Nat
  BY DEF LogsTyped
<1>2. \A j \in C : j \in Nat /\ j > commitIndex[n] /\ j <= Len(l)
  BY <1>1 DEF Committable
<1> HIDE DEF C
<1>3. CASE C = {}
  BY <1>1, <1>3 DEF AdvancedCommit, C
<1>4. CASE C # {}
  <2>1. \E k \in C : \A j \in C : k >= j
    <3>1. C \in SUBSET Nat /\ \A j \in C : j <= Len(l)
      BY <1>2
    <3> QED
      BY <1>1, <1>4, <3>1, Zenon DEF ListFacts
  <2>2. AdvancedCommit(n, t, l, match) = CHOOSE i \in C : \A j \in C : i >= j
    BY <1>4 DEF AdvancedCommit, C
  <2>3. AdvancedCommit(n, t, l, match) \in C
    BY <2>1, <2>2
  <2> QED
    BY <1>1, <1>2, <2>3 DEF C
<1> QED
  BY <1>3, <1>4

\* What _send_append_to cuts from its ledger.
LEMMA SentOK ==
    ASSUME NEW L \in Ledgers, NEW t \in Terms, NEW n, NEW p, NEW tm, NEW st, NEW c \in Nat,
           NEW next \in Nat \ {0}, next <= Len(L[t]) + 1,
           Len(L[t]) > 0, L[t][Len(L[t])].term = t
    PROVE  MessageOK(AppendEntries(n, p, t, L[t], next, c), tm, st, L)
<1> DEFINE l == L[t]
           es == SubSeq(l, next, Len(l))
           m == AppendEntries(n, p, t, l, next, c)
<1>1. l \in Seq(Entry) /\ Len(l) \in Nat /\ \A i \in 1..Len(l) : l[i] \in Entry
  BY DEF Ledgers
<1> HIDE DEF l
<1>2. /\ es \in Seq(Entry) /\ Len(es) = Len(l) + 1 - next
      /\ \A j \in 1..Len(l) + 1 - next : es[j] = l[next + j - 1]
  BY <1>1, TailIs, Zenon DEF l
<1> HIDE DEF es
<1>3. /\ m.type = "AppendEntries" /\ m.term = t /\ m.prevIndex = next - 1
      /\ m.prevTerm = TermAt(l, next - 1) /\ m.entries = es /\ m.commit = c
  BY DEF AppendEntries, es
<1> HIDE DEF m
<1>4. m.prevIndex \in Nat /\ Last(m) = Len(l) /\ Last(m) \in 1..Len(l)
  BY <1>1, <1>2, <1>3 DEF Last, l
<1>5. ASSUME NEW j \in 1..Len(es) PROVE es[j] = l[(next - 1) + j]
  BY <1>1, <1>2
<1>6. l[Last(m)].term = t
  BY <1>4 DEF l
<1>7. /\ Last(m) \in 1..Len(L[m.term]) /\ L[m.term][Last(m)].term = m.term
      /\ m.prevTerm = TermAt(L[m.term], m.prevIndex)
      /\ \A j \in 1..Len(m.entries) : m.entries[j] = L[m.term][m.prevIndex + j]
  BY <1>3, <1>4, <1>5, <1>6, Zenon DEF l
<1>8. m.type # "RequestVote" /\ m.type # "AppendEntriesReply"
  BY <1>3
<1>9. m.term \in Terms /\ m.prevIndex \in Nat /\ m.entries \in Seq(Entry) /\ m.commit \in Nat
  BY <1>2, <1>3, <1>4, Zenon
<1>10. MessageOK(m, tm, st, L)
  BY <1>7, <1>8, <1>9, Zenon DEF MessageOK
<1> QED
  BY <1>10, Zenon DEF m, l

\* Handling m adds to the messages nothing but the answer.
LEMMA ReplyAdds == ASSUME NEW m \in msgs, NEW ms, Reply(m, ms) PROVE msgs' \ msgs \subseteq ms
  BY DEF Reply

\* The terms of a ledger's entries go up to its own.
LEMMA LedgerTerms ==
    ASSUME LogInv, NEW t \in Terms
    PROVE  ledger[t] \in Seq(Entry) /\ Traced(ledger[t], ledger) /\ Before(ledger[t], t + 1)
<1>1. ledger \in Ledgers /\ stood \in [Nodes -> Ledgers] /\ t \in Nat
  BY RaftAssumption DEF LogInv, LogsTyped, Terms
<1>2. ledger[t] \in Seq(Entry) /\ Traced(ledger[t], ledger)
  BY <1>1 DEF Ledgers, LogInv, LogsTraced
<1>3. CASE ledger[t] = <<>>
  BY <1>2, <1>3 DEF Before
<1>4. CASE ledger[t] # <<>>
  <2>1. PICK a \in leaders : a.term = t
    BY <1>4 DEF LogInv, LeadersFounded
  <2>2. PICK s \in Seq(Entry) : Before(s, t) /\ Founded(s, t, ledger[t])
    <3>1. a.node \in Nodes /\ Founded(stood[a.node][t], t, ledger[t])
      BY <2>1 DEF LogInv, LeadersFounded
    <3>2. Before(stood[a.node][t], t)
      BY <3>1 DEF LogInv, LogsTraced
    <3>3. stood[a.node][t] \in Seq(Entry)
      BY <1>1, <3>1 DEF Ledgers
    <3> QED
      BY <3>1, <3>2, <3>3
  <2>3. /\ Len(s) \in Nat /\ Len(ledger[t]) \in Nat
        /\ \A i \in 1..Len(s) : s[i].term \in Nat
        /\ \A i \in 1..Len(ledger[t]) : ledger[t][i].term \in Nat
    BY <1>2, EntryTerms
  <2>4. ASSUME NEW x \in 1..Len(ledger[t]) PROVE ledger[t][x].term < t + 1
    <3>1. CASE x <= Len(s)
      <4>1. x \in 1..Len(s) /\ ledger[t][x] = s[x]
        BY <2>2, <2>3, <3>1 DEF Founded, Starts
      <4>2. s[x].term < t /\ s[x].term \in Nat
        BY <2>2, <2>3, <4>1 DEF Before
      <4> QED
        BY <1>1, <4>1, <4>2
    <3>2. CASE ~(x <= Len(s))
      <4>1. x \in Len(s) + 1..Len(ledger[t])
        BY <2>3, <3>2
      <4>2. ledger[t][x].term = t
        BY <2>2, <4>1, Zenon DEF Founded
      <4> QED
        BY <1>1, <4>2
    <3> QED
      BY <3>1, <3>2
  <2> QED
    BY <1>2, <2>4 DEF Before
<1> QED
  BY <1>3, <1>4

\* The log a follower has after AppendEntries: the sender's ledger up to the
\* end of the message, and past it only if the old log held all of that.
LEMMA AcceptIs ==
    ASSUME ListFacts, ElectionInv, LogInv, NEW n \in Nodes, NEW m \in msgs,
           m.type = "AppendEntries", m.term >= term[n], Matches(n, m)
    PROVE  LET r == AppendFrom(log[n], m.prevIndex, m.entries)
               k == ledger[m.term]
           IN  /\ r \in Seq(Entry) /\ Traced(r, ledger) /\ Before(r, m.term + 1)
               /\ m.term \in Terms /\ Last(m) \in 1..Len(k) /\ k[Last(m)].term = m.term
               /\ Appended(r, log[n], k, Last(m))
<1> DEFINE r == AppendFrom(log[n], m.prevIndex, m.entries)
           k == ledger[m.term]
<1>1. /\ m.term \in Terms /\ m.prevIndex \in Nat /\ m.entries \in Seq(Entry)
      /\ Last(m) \in 1..Len(k) /\ k[Last(m)].term = m.term
      /\ m.prevTerm = TermAt(k, m.prevIndex)
      /\ \A j \in 1..Len(m.entries) : m.entries[j] = k[m.prevIndex + j]
  BY Zenon DEF LogInv, MessagesOK, MessageOK
<1>2. /\ log[n] \in Seq(Entry) /\ ledger \in Ledgers /\ term[n] \in Nat /\ m.term \in Nat
      /\ Traced(log[n], ledger) /\ Before(log[n], term[n] + 1)
  <2>1. /\ log[n] \in Seq(Entry) /\ ledger \in Ledgers /\ term[n] \in Terms
        /\ Traced(log[n], ledger) /\ Before(log[n], term[n] + 1)
    BY Zenon DEF LogInv, LogsTyped, LogsTraced
  <2> QED
    BY <1>1, <2>1, TermsAreNat, Zenon
<1>3. k \in Seq(Entry) /\ Traced(k, ledger) /\ Before(k, m.term + 1)
  BY <1>1, LedgerTerms, Zenon
<1>4. m.prevIndex <= Len(log[n]) /\ TermAt(log[n], m.prevIndex) = TermAt(k, m.prevIndex)
  BY <1>1 DEF Matches
<1>5. Last(m) = m.prevIndex + Len(m.entries) /\ Last(m) <= Len(k) /\ Len(k) \in Nat
  BY <1>1, <1>3, PlaceInLog, Zenon DEF Last
<1> HIDE DEF k
<1>6. Appended(r, log[n], k, Last(m))
  <2>1. m.prevIndex + Len(m.entries) <= Len(k)
    BY <1>5
  <2>2. Appended(r, log[n], k, m.prevIndex + Len(m.entries))
    BY <1>1, <1>2, <1>3, <1>4, <2>1, AppendFromIs, Zenon
  <2> QED
    BY <1>5, <2>2
<1> HIDE DEF r
<1>a. /\ r \in Seq(Entry) /\ Last(m) <= Len(r) /\ \A y \in 1..Last(m) : r[y] = k[y]
      /\ r = log[n] \/ Len(r) = Last(m)
  BY <1>6 DEF Appended
<1>7. Traced(r, ledger) /\ Before(r, m.term + 1)
  <2>1. CASE r = log[n]
    <3>1. \A x \in 1..Len(log[n]) : log[n][x].term \in Nat
      BY <1>2, EntryTerms
    <3> QED
      BY <1>2, <2>1, <3>1 DEF Before
  <2>2. CASE Len(r) = Last(m)
    <3>1. Starts(r, k) /\ Len(r) <= Len(k)
      BY <1>5, <1>a, <2>2 DEF Starts
    <3>2. Traced(r, ledger)
      BY <1>3, <1>a, <3>1, TracedStart
    <3>3. \A x \in 1..Len(r) : x \in 1..Len(k) /\ r[x] = k[x]
      BY <1>5, <1>a, <2>2, <3>1
    <3>4. Before(r, m.term + 1)
      BY <1>3, <3>3, Zenon DEF Before
    <3> QED
      BY <3>2, <3>4
  <2> QED
    BY <1>a, <2>1, <2>2, Zenon
<1> QED
  BY <1>1, <1>6, <1>a, <1>7, Zenon DEF r, k

\* Answers that need no ledger behind them, and a confirmation.
LEMMA AnswersOK ==
    ASSUME NEW n, NEW p, NEW t \in Terms, NEW g, NEW i \in Nat, NEW tm, NEW st, NEW L
    PROVE  /\ MessageOK(RequestVoteReply(n, p, t, g), tm, st, L)
           /\ MessageOK(AppendEntriesReply(n, p, t, FALSE, i), tm, st, L)
           /\ i \in 1..Len(L[t]) => MessageOK(AppendEntriesReply(n, p, t, TRUE, i), tm, st, L)
  BY Zenon DEF MessageOK, RequestVoteReply, AppendEntriesReply

\* A follower's commit index is a number.
LEMMA FollowerCommitIs ==
    ASSUME NEW n, NEW m, m.commit \in Nat, m.prevIndex \in Nat, m.entries \in Seq(Entry),
           commitIndex[n] \in Nat
    PROVE  FollowerCommit(n, m) \in Nat
<1>1. Len(m.entries) \in Nat
  OBVIOUS
<1> QED
  BY <1>1 DEF FollowerCommit

\* A ledger starts with itself.
LEMMA SameStarts ==
    ASSUME NEW L \in Ledgers PROVE \A t \in Terms : Starts(L[t], L[t])
<1>1. \A t \in Terms : Len(L[t]) \in Nat
  BY DEF Ledgers
<1> QED
  BY <1>1 DEF Starts

\* Nobody has led a term before the node that wins its election.
LEMMA LedgerFree ==
    ASSUME ElectionSafety', LogInv, NEW n \in Nodes, NEW t \in Terms,
           t >= term[n], t = term[n] => role[n] = "candidate",
           leaders' = leaders \cup {[term |-> t, node |-> n]}
    PROVE  ledger[t] = <<>>
<1> SUFFICES ASSUME ledger[t] # <<>> PROVE FALSE
  OBVIOUS
<1>1. PICK a \in leaders : a.term = t
  BY Zenon DEF LogInv, LeadersFounded
<1>2. a.node = n
  <2>1. \A x, y \in leaders' : x.term = y.term => x.node = y.node
    BY Zenon DEF ElectionSafety
  <2>2. a \in leaders' /\ [term |-> t, node |-> n] \in leaders'
    BY Zenon
  <2> QED
    BY <1>1, <2>1, <2>2, Zenon
<1>3. a.term <= term[n] /\ (a.term = term[n] => role[n] # "candidate")
  BY <1>2, Zenon DEF LogInv, LeadersFounded
<1>4. t \in Nat /\ term[n] \in Nat
  <2>1. term \in [Nodes -> Terms]
    BY Zenon DEF LogInv, LogsTyped
  <2> QED
    BY <2>1, TermsAreNat, Zenon
<1> QED
  BY <1>1, <1>3, <1>4

-----------------------------------------------------------------------------
(* What is committed, for any logs and ledgers.                            *)

\* The last term of a log.
LEMMA LastIs ==
    ASSUME NEW l \in Seq(Entry)
    PROVE  /\ LastTerm(l) \in Nat /\ Len(l) \in Nat
           /\ l = <<>> => LastTerm(l) = 0 /\ Len(l) = 0
           /\ l # <<>> => Len(l) \in 1..Len(l) /\ LastTerm(l) = l[Len(l)].term
<1>1. Len(l) \in Nat /\ \A i \in 1..Len(l) : l[i].term \in Nat
  BY EntryTerms
<1>2. CASE l = <<>>
  BY <1>1, <1>2 DEF LastTerm
<1>3. CASE l # <<>>
  <2>1. Len(l) \in 1..Len(l)
    BY <1>1, <1>3
  <2> QED
    BY <1>1, <1>3, <2>1 DEF LastTerm
<1> QED
  BY <1>2, <1>3

\* A log that is not older than one that is up to date is up to date.
LEMMA StaysUpToDate ==
    ASSUME NEW l \in Seq(Entry), NEW k \in Seq(Entry), NEW t \in Nat, NEW i \in Nat,
           NotOlder(k, l), AtLeast(l, t, i)
    PROVE  AtLeast(k, t, i)
<1>1. LastTerm(l) \in Nat /\ Len(l) \in Nat /\ LastTerm(k) \in Nat /\ Len(k) \in Nat
  BY LastIs
<1> QED
  BY <1>1 DEF NotOlder, AtLeast

\* No log is older than itself.
LEMMA SameIsNotOlder == ASSUME NEW l \in Seq(Entry) PROVE NotOlder(l, l)
<1>1. LastTerm(l) \in Nat /\ Len(l) \in Nat
  BY LastIs
<1> QED
  BY <1>1 DEF NotOlder

\* Nor than what it becomes with an entry of a term that is not lower.
LEMMA LongerIsNotOlder ==
    ASSUME NEW l \in Seq(Entry), NEW t \in Nat, Before(l, t + 1),
           NEW k \in Seq(Entry), Len(k) = Len(l) + 1, k[Len(k)].term = t
    PROVE  NotOlder(k, l)
<1>1. /\ LastTerm(l) \in Nat /\ Len(l) \in Nat /\ Len(k) \in Nat
      /\ l = <<>> => LastTerm(l) = 0
      /\ l # <<>> => Len(l) \in 1..Len(l) /\ LastTerm(l) = l[Len(l)].term
  BY LastIs
<1>2. k # <<>>
  BY <1>1
<1>3. LastTerm(k) = t
  BY <1>2, LastIs
<1>4. LastTerm(l) <= t
  <2>1. CASE l = <<>>
    BY <1>1, <2>1
  <2>2. CASE l # <<>>
    BY <1>1, <2>2 DEF Before
  <2> QED
    BY <2>1, <2>2
<1> QED
  BY <1>1, <1>3, <1>4 DEF NotOlder

\* append_from makes no log older: it drops entries only for those of the
\* leader of a later term.
LEMMA AppendedIsNotOlder ==
    ASSUME NEW L \in Ledgers, NEW T \in Terms, NEW l \in Seq(Entry), Traced(l, L),
           Before(l, T + 1), NEW k \in Seq(Entry), k = L[T], NEW z \in 1..Len(k),
           k[z].term = T, NEW r, Appended(r, l, k, z)
    PROVE  NotOlder(r, l)
<1>1. /\ r \in Seq(Entry) /\ z <= Len(r) /\ \A y \in 1..z : r[y] = k[y]
      /\ \/ r = l
         \/ Len(r) = z /\ (z > Len(l) \/ \E x \in 1..z : l[x].term # k[x].term)
  BY DEF Appended
<1>2. CASE r = l
  BY <1>2, SameIsNotOlder
<1>3. CASE Len(r) = z /\ (z > Len(l) \/ \E x \in 1..z : l[x].term # k[x].term)
  <2>1. /\ LastTerm(l) \in Nat /\ Len(l) \in Nat /\ Len(k) \in Nat /\ T \in Nat
        /\ l # <<>> => Len(l) \in 1..Len(l) /\ LastTerm(l) = l[Len(l)].term
        /\ l = <<>> => LastTerm(l) = 0 /\ Len(l) = 0
    BY LastIs, TermsAreNat
  <2>2. LastTerm(r) = T
    <3>1. r # <<>> /\ Len(r) = z /\ r[z] = k[z]
      BY <1>1, <1>3
    <3> QED
      BY <1>1, <3>1, LastIs
  <2>3. LastTerm(l) <= T
    BY <2>1 DEF Before
  <2>4. CASE LastTerm(l) = T /\ l # <<>>
    <3>1. \A y \in 1..Len(l) : l[y] = k[y]
      BY <2>1, <2>4 DEF Traced
    <3>2. z >= Len(l)
      BY <1>3, <2>1, <3>1
    <3> QED
      BY <1>3, <2>2, <2>4, <3>2 DEF NotOlder
  <2>5. CASE LastTerm(l) # T \/ l = <<>>
    BY <1>3, <2>1, <2>2, <2>3, <2>5 DEF NotOlder
  <2> QED
    BY <2>4, <2>5
<1> QED
  BY <1>1, <1>2, <1>3

\* A log holds what was chosen in its term or before, as its ledger does.
LEMMA LedgerHolds ==
    ASSUME NEW L \in Ledgers, NEW C, ChosenOK(C, L), NEW T \in Terms,
           NEW l \in Seq(Entry), Traced(l, L), Before(l, T + 1), L[T] # <<>>,
           NEW c \in Nat, c # 0, CommittedIn(l, c, C)
    PROVE  c \in 1..Len(l) /\ c <= Len(L[T]) /\ \A y \in 1..c : l[y] = L[T][y]
<1> DEFINE u == l[c].term
<1>1. c \in 1..Len(l) /\ <<u, c>> \in C
  BY DEF CommittedIn
<1>2. u \in Terms /\ c <= Len(L[u]) /\ \A y \in 1..c : l[y] = L[u][y]
  BY <1>1, Zenon DEF Traced
<1>3. u < T + 1
  BY <1>1, Zenon DEF Before
<1> HIDE DEF u
<1>4. CASE u = T
  BY <1>1, <1>2, <1>4
<1>5. CASE u # T
  <2>1. u < T
    BY <1>2, <1>3, <1>5, TermsAreNat
  <2>2. <<u, c>>[1] = u /\ <<u, c>>[2] = c
    OBVIOUS
  <2>3. c <= Len(L[T]) /\ \A y \in 1..c : L[T][y] = L[u][y]
    <3>1. T > u
      BY <1>2, <2>1, TermsAreNat
    <3> QED
      BY <1>1, <2>2, <3>1, Zenon DEF ChosenOK
  <2> QED
    BY <1>1, <1>2, <2>3, Zenon
<1> QED
  BY <1>4, <1>5

\* append_from keeps what is committed.
LEMMA KeepsCommitted ==
    ASSUME NEW L \in Ledgers, NEW C, ChosenOK(C, L), NEW T \in Terms,
           NEW l \in Seq(Entry), Traced(l, L), Before(l, T + 1),
           NEW k \in Seq(Entry), k = L[T], NEW z \in 1..Len(k), NEW r, Appended(r, l, k, z),
           NEW c \in Nat, CommittedIn(l, c, C)
    PROVE  CommittedIn(r, c, C)
<1>1. CASE c = 0
  BY <1>1 DEF CommittedIn
<1>2. CASE c # 0
  <2>1. Len(k) \in Nat /\ Len(l) \in Nat /\ k # <<>>
    BY PlaceInLog, Zenon
  <2>2. c \in 1..Len(l) /\ c <= Len(k) /\ \A y \in 1..c : l[y] = k[y]
    BY <1>2, <2>1, LedgerHolds
  <2>3. /\ z <= Len(r) /\ \A y \in 1..z : r[y] = k[y]
        /\ \/ r = l
           \/ Len(r) = z /\ (z > Len(l) \/ \E x \in 1..z : l[x].term # k[x].term)
    BY DEF Appended
  <2>4. CASE r = l
    BY <2>4
  <2>5. CASE Len(r) = z /\ (z > Len(l) \/ \E x \in 1..z : l[x].term # k[x].term)
    <3>1. c <= z
      BY <2>1, <2>2, <2>5
    <3>2. c \in 1..z /\ c \in 1..c
      BY <2>1, <2>2, <3>1
    <3>3. c \in 1..Len(r) /\ r[c] = l[c]
      BY <2>2, <2>3, <2>5, <3>2, Zenon
    <3> QED
      BY <3>3, Zenon DEF CommittedIn
  <2> QED
    BY <2>3, <2>4, <2>5
<1> QED
  BY <1>1, <1>2

\* What was applied agrees with what is committed.
LEMMA Agree ==
    ASSUME NEW L \in Ledgers, NEW C, ChosenOK(C, L), NEW T, NEW d \in Seq(Entry),
           AppliedFrom(d, T, C, L), NEW l \in Seq(Entry), Traced(l, L),
           NEW c \in Nat, CommittedIn(l, c, C), NEW y \in 1..Len(d), y <= c
    PROVE  d[y] = l[y]
<1>1. Len(d) \in Nat /\ d # <<>> /\ c # 0 /\ y \in Nat \ {0}
  OBVIOUS
<1>2. PICK b \in C : Len(d) <= b[2] /\ d[y] = L[b[1]][y]
  BY <1>1, Zenon DEF AppliedFrom
<1> DEFINE t == b[1]
           u == l[c].term
<1>3. c \in 1..Len(l) /\ <<u, c>> \in C
  BY <1>1, Zenon DEF CommittedIn
<1>4. u \in Terms /\ c <= Len(L[u]) /\ \A x \in 1..c : l[x] = L[u][x]
  BY <1>3, Zenon DEF Traced
<1>5. t \in Terms /\ b[2] \in 1..Len(L[t])
  BY Zenon DEF ChosenOK
<1>6. L[t] \in Seq(Entry) /\ L[u] \in Seq(Entry)
  BY <1>4, <1>5 DEF Ledgers
<1> HIDE DEF t, u
<1>7. /\ Len(L[t]) \in Nat /\ Len(L[u]) \in Nat /\ t \in Nat /\ u \in Nat
      /\ L[t] # <<>> /\ L[u] # <<>>
  <2>1. t \in Nat /\ u \in Nat
    BY <1>4, <1>5, TermsAreNat, Zenon
  <2>2. Len(L[t]) \in Nat /\ Len(L[u]) \in Nat
    BY <1>6, PlaceInLog, Zenon
  <2>3. c \in 1..Len(L[u])
    BY <1>1, <1>4, <2>2, PlaceBelow, Zenon
  <2>4. L[t] # <<>> /\ L[u] # <<>>
    BY <1>5, <1>6, <2>3, PlaceInLog, Zenon
  <2> QED
    BY <2>1, <2>2, <2>4, Zenon
<1>8. y \in 1..c /\ y \in 1..b[2]
  <2>1. b[2] \in Nat
    BY <1>5, <1>6, PlaceInLog, Zenon
  <2>2. y \in Nat /\ y # 0
    BY <1>1
  <2> QED
    BY <1>1, <1>2, <2>1, <2>2, IndexOfLonger, PlaceBelow, Zenon
<1>9. CASE t = u
  BY <1>2, <1>4, <1>8, <1>9 DEF t
<1>10. CASE u > t
  <2>1. \A x \in 1..b[2] : L[u][x] = L[t][x]
    BY <1>4, <1>7, <1>10, Zenon DEF ChosenOK, t
  <2> QED
    BY <1>2, <1>4, <1>8, <2>1, Zenon DEF t
<1>11. CASE t > u
  <2>1. <<u, c>>[1] = u /\ <<u, c>>[2] = c
    OBVIOUS
  <2>2. \A x \in 1..c : L[t][x] = L[u][x]
    BY <1>3, <1>5, <1>7, <1>11, <2>1, Zenon DEF ChosenOK, u
  <2> QED
    BY <1>2, <1>4, <1>8, <2>2, Zenon DEF t
<1> QED
  BY <1>7, <1>9, <1>10, <1>11

\* _apply extends what was applied by what is committed.
LEMMA ApplyOK ==
    ASSUME ListFacts, NEW L \in Ledgers, NEW C, ChosenOK(C, L), NEW T \in Terms,
           NEW d \in Seq(Entry), AppliedFrom(d, T, C, L),
           NEW l \in Seq(Entry), Traced(l, L), Before(l, T + 1),
           NEW e \in Nat, CommittedIn(l, e, C), NEW c \in Nat, c <= e
    PROVE  Apply(d, l, c) \in Seq(Entry) /\ AppliedFrom(Apply(d, l, c), T, C, L)
<1> DEFINE f == SubSeq(l, Len(d) + 1, c)
<1>1. Len(d) \in Nat /\ Len(l) \in Nat
  OBVIOUS
<1>2. CASE ~(Len(d) < c)
  BY <1>2, Zenon DEF Apply
<1>3. CASE Len(d) < c
  <2>1. e \in 1..Len(l) /\ <<l[e].term, e>> \in C /\ c <= Len(l) /\ c \in 1..Len(l)
    BY <1>1, <1>3 DEF CommittedIn
  <2>2. Apply(d, l, c) = d \o f
    BY <1>3 DEF Apply
  <2>3. f \in Seq(Entry) /\ Len(f) = c - Len(d) /\ \A x \in 1..c - Len(d) : f[x] = l[Len(d) + x]
    <3>1. \A x \in 1..Len(l) : l[x] \in Entry
      OBVIOUS
    <3> QED
      BY <1>1, <1>3, <2>1, <3>1
  <2> DEFINE g == d \o f
  <2> HIDE DEF f
  <2>4. /\ g \in Seq(Entry) /\ Len(g) = Len(d) + Len(f)
        /\ \A x \in 1..Len(d) + Len(f) : g[x] = IF x <= Len(d) THEN d[x] ELSE f[x - Len(d)]
    BY <2>3, Zenon DEF ListFacts
  <2> HIDE DEF g
  <2>5. Len(g) = c
    BY <1>1, <2>3, <2>4
  <2>6. ASSUME NEW y \in 1..c PROVE g[y] = l[y]
    <3>1. CASE y <= Len(d)
      <4>1. y \in 1..Len(d) /\ y <= e
        BY <1>1, <3>1
      <4>2. d[y] = l[y]
        BY <4>1, Agree, Zenon
      <4> QED
        BY <2>4, <2>5, <3>1, <4>2
    <3>2. CASE ~(y <= Len(d))
      <4>1. y - Len(d) \in 1..c - Len(d) /\ Len(d) + (y - Len(d)) = y
        BY <1>1, <3>2
      <4>2. g[y] = f[y - Len(d)]
        BY <2>4, <2>5, <3>2, Zenon
      <4> QED
        BY <2>3, <4>1, <4>2, Zenon
    <3> QED
      BY <3>1, <3>2, Zenon
  <2> DEFINE u == l[e].term
  <2>7. u \in Terms /\ u < T + 1 /\ \A y \in 1..e : l[y] = L[u][y]
    BY <2>1, Zenon DEF Traced, Before
  <2>8. u <= T
    <3>1. u \in Nat /\ T \in Nat
      BY <2>7, TermsAreNat, Zenon
    <3> HIDE DEF u
    <3> QED
      BY <2>7, <3>1
  <2> HIDE DEF u
  <2>9. <<u, e>>[1] = u /\ <<u, e>>[2] = e /\ <<u, e>> \in C
    BY <2>1 DEF u
  <2>10. \A y \in 1..Len(g) : g[y] = L[u][y]
    BY <2>5, <2>6, <2>7
  <2>11. AppliedFrom(g, T, C, L)
    BY <2>5, <2>8, <2>9, <2>10, Zenon DEF AppliedFrom
  <2> QED
    BY <2>2, <2>4, <2>11 DEF g
<1> QED
  BY <1>2, <1>3

\* What a message says is committed or secured stays so.
LEMMA MessageStays ==
    ASSUME NEW L \in Ledgers, NEW M \in Ledgers, \A t \in Terms : Starts(L[t], M[t]),
           NEW S, NEW S2, S \subseteq S2, NEW C, NEW C2, C \subseteq C2,
           NEW m, m.term \in Terms, MessageCommits(m, S, C, L)
    PROVE  MessageCommits(m, S2, C2, M)
<1>1. ASSUME m.type = "AppendEntries" PROVE CommittedIn(M[m.term], m.commit, C2)
  <2>1. CommittedIn(L[m.term], m.commit, C) /\ Starts(L[m.term], M[m.term])
    BY <1>1 DEF MessageCommits
  <2>2. Len(L[m.term]) \in Nat /\ Len(M[m.term]) \in Nat
    BY DEF Ledgers
  <2> QED
    BY <2>1, <2>2, IndexOfLonger, Zenon DEF CommittedIn, Starts
<1> QED
  BY <1>1 DEF MessageCommits

\* What was applied stays chosen.
LEMMA AppliedStays ==
    ASSUME NEW L \in Ledgers, NEW M \in Ledgers, \A t \in Terms : Starts(L[t], M[t]),
           NEW C, NEW C2, C \subseteq C2, \A c \in C : c[1] \in Terms /\ c[2] \in 1..Len(L[c[1]]),
           NEW t \in Nat, NEW u \in Nat, t <= u, NEW d \in Seq(Entry), AppliedFrom(d, t, C, L)
    PROVE  AppliedFrom(d, u, C2, M)
<1>1. CASE d = <<>>
  BY <1>1 DEF AppliedFrom
<1>2. CASE d # <<>>
  <2>1. PICK c \in C : c[1] <= t /\ Len(d) <= c[2] /\ \A y \in 1..Len(d) : d[y] = L[c[1]][y]
    BY <1>2, Zenon DEF AppliedFrom
  <2>2. c[1] \in Terms /\ c[2] \in 1..Len(L[c[1]]) /\ Starts(L[c[1]], M[c[1]])
    OBVIOUS
  <2>3. Len(L[c[1]]) \in Nat /\ c[1] \in Nat /\ Len(d) \in Nat
    <3>1. \A v \in Terms : L[v] \in Seq(Entry)
      BY DEF Ledgers
    <3>2. L[c[1]] \in Seq(Entry) /\ c[1] \in Nat
      BY <2>2, <3>1, TermsAreNat, Zenon
    <3> QED
      BY <3>2
  <2>4. c[1] <= u
    BY <2>1, <2>3
  <2>5. \A y \in 1..Len(d) : d[y] = M[c[1]][y]
    <3>1. \A y \in 1..Len(d) : y \in 1..Len(L[c[1]])
      BY <2>1, <2>2, <2>3
    <3> QED
      BY <2>1, <2>2, <3>1, Zenon DEF Starts
  <2> QED
    BY <2>1, <2>4, <2>5, Zenon DEF AppliedFrom
<1> QED
  BY <1>1, <1>2

\* What submit() waits for stays proposed.
LEMMA ProposedStays ==
    ASSUME NEW L \in Ledgers, NEW M \in Ledgers, \A t \in Terms : Starts(L[t], M[t]),
           NEW w, Proposed(w, L)
    PROVE  Proposed(w, M)
<1> DEFINE t == w.entry.term
<1>1. /\ w \in [node : Nodes, index : Nat, entry : Entry]
      /\ t \in Terms /\ w.index \in 1..Len(L[t]) /\ L[t][w.index] = w.entry
  BY Zenon DEF Proposed
<1> HIDE DEF t
<1>2. Len(L[t]) \in Nat /\ Len(M[t]) \in Nat /\ Starts(L[t], M[t])
  BY <1>1 DEF Ledgers
<1>3. w.index \in 1..Len(M[t]) /\ M[t][w.index] = w.entry
  BY <1>1, <1>2 DEF Starts
<1> QED
  BY <1>1, <1>3, Zenon DEF Proposed, t

\* Votes and rejections commit nothing.
LEMMA AnswersCommit ==
    ASSUME NEW n, NEW p, NEW t, NEW g, NEW i, NEW S, NEW C, NEW L
    PROVE  /\ MessageCommits(RequestVoteReply(n, p, t, g), S, C, L)
           /\ MessageCommits(AppendEntriesReply(n, p, t, FALSE, i), S, C, L)
  BY Zenon DEF MessageCommits, RequestVoteReply, AppendEntriesReply

\* A leader sends what it has committed.
LEMMA SentCommits ==
    ASSUME NEW L, NEW C, NEW S, NEW n, NEW p, NEW t, NEW l \in Seq(Entry), l = L[t],
           NEW next \in Nat \ {0}, next <= Len(l) + 1, NEW c \in Nat, CommittedIn(l, c, C)
    PROVE  MessageCommits(AppendEntries(n, p, t, l, next, c), S, C, L)
<1> DEFINE m == AppendEntries(n, p, t, l, next, c)
<1>1. /\ m.type = "AppendEntries" /\ m.term = t /\ m.commit = c /\ m.prevIndex = next - 1
      /\ m.entries = SubSeq(l, next, Len(l))
  BY Zenon DEF AppendEntries
<1>2. m.type # "AppendEntriesReply"
  BY <1>1
<1>3. Len(l) \in Nat /\ Len(SubSeq(l, next, Len(l))) = Len(l) - next + 1
  OBVIOUS
<1> HIDE DEF m
<1>4. Last(m) = Len(l)
  BY <1>1, <1>3 DEF Last
<1>5. c <= Len(l)
  BY <1>3 DEF CommittedIn
<1>6. MessageCommits(m, S, C, L)
  BY <1>1, <1>2, <1>4, <1>5, Zenon DEF MessageCommits
<1> QED
  BY <1>6 DEF m

\* The entry a new leader appends.
LEMMA NoopIs ==
    ASSUME NEW t \in Nat, NEW l \in Seq(Entry)
    PROVE  LET e == [term |-> t, cmd |-> Noop]
           IN  /\ e \in Entry /\ e.term = t /\ Append(l, e) \in Seq(Entry)
               /\ Len(l) + 1 \in Nat \ {0} /\ Len(l) + 1 <= Len(Append(l, e)) + 1
<1> DEFINE e == [term |-> t, cmd |-> Noop]
<1>1. e \in Entry /\ e.term = t
  BY DEF Entry
<1> HIDE DEF e
<1>2. Append(l, e) \in Seq(Entry) /\ Len(Append(l, e)) = Len(l) + 1 /\ Len(l) \in Nat
  BY <1>1
<1> QED
  BY <1>1, <1>2 DEF e

\* What a leader tells on its new log.
LEMMA BroadcastCommits ==
    ASSUME NEW L, NEW C, NEW S, NEW n, NEW t, NEW l \in Seq(Entry), l = L[t], NEW next,
           \A p \in Nodes : next[p] \in Nat \ {0} /\ next[p] <= Len(l) + 1,
           NEW c \in Nat, CommittedIn(l, c, C), NEW m \in Broadcast(n, t, l, next, c)
    PROVE  MessageCommits(m, S, C, L)
<1>1. PICK p \in Nodes : m = AppendEntries(n, p, t, l, next[p], c)
  BY Zenon DEF Broadcast, Peers
<1>2. next[p] \in Nat \ {0} /\ next[p] <= Len(l) + 1
  BY Zenon
<1> QED
  BY <1>1, <1>2, SentCommits, Zenon
=============================================================================
