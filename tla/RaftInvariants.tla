--------------------------- MODULE RaftInvariants ---------------------------
(***************************************************************************)
(* The inductive invariants of Raft, for clusters that keep their logs in  *)
(* files: of the elections, of the logs and of what is committed.          *)
(***************************************************************************)
EXTENDS Raft

-----------------------------------------------------------------------------
(* Elections.                                                              *)

\* What counting the nodes of a cluster comes to: two majorities meet, a
\* larger set is a majority too, and one more node is counted once.  The
\* steps below assume it; RaftSafety proves it.
MajorityFacts ==
    /\ \A P, Q \in SUBSET Nodes :
          HasMajority(Cardinality(P)) /\ HasMajority(Cardinality(Q)) => P \cap Q # {}
    /\ \A P, Q \in SUBSET Nodes :
          HasMajority(Cardinality(P)) /\ P \subseteq Q => HasMajority(Cardinality(Q))
    /\ \A P \in SUBSET Nodes, n \in Nodes : n \notin P =>
          Cardinality(P \cup {n}) = 1 + Cardinality(P)
    /\ \A n \in Nodes : Cardinality({n}) = 1

Ballot(v, t, n) == [voter |-> v, term |-> t, for |-> n]

\* A majority has voted for n in term t.
Won(t, n) ==
    \E Q \in SUBSET Nodes :
        HasMajority(Cardinality(Q)) /\ \A v \in Q : Ballot(v, t, n) \in ballots

ElectionTyped ==
    /\ term \in [Nodes -> Nat]
    /\ votedFor \in [Nodes -> Nodes \cup {Nil}]
    /\ role \in [Nodes -> {"follower", "candidate", "leader"}]
    /\ votes \in [Nodes -> SUBSET Nodes]

\* An envelope names nodes, and one that grants a vote reports a ballot.
Honest(m) ==
    /\ m.src \in Nodes /\ m.dst \in Nodes /\ m.term \in Nat
    /\ m.type = "RequestVoteReply" /\ m.granted => Ballot(m.src, m.term, m.dst) \in ballots

\* What a node saved covers every vote it ever cast.
BallotsSaved ==
    \A b \in ballots :
        /\ b.voter \in Nodes /\ b.for \in Nodes /\ b.term \in Nat
        /\ b.term <= term[b.voter]
        /\ b.term = term[b.voter] => votedFor[b.voter] = b.for

OneVote == \A a, b \in ballots : a.voter = b.voter /\ a.term = b.term => a.for = b.for

\* The votes a candidate counts were cast for it, in its term.
VotesCast ==
    \A n \in Nodes : role[n] = "candidate" =>
        \A v \in votes[n] : Ballot(v, term[n], n) \in ballots

Elected == \A a \in leaders : Won(a.term, a.node)

ElectionInv ==
    /\ ElectionTyped
    /\ \A m \in msgs : Honest(m)
    /\ BallotsSaved
    /\ OneVote
    /\ VotesCast
    /\ Elected

-----------------------------------------------------------------------------
(* Logs.                                                                   *)

\* What concatenation and the order of the positions come to.  The steps
\* below assume it; RaftSafety proves it.
ListFacts ==
    /\ \A a, b \in Seq(Entry) :
          /\ a \o b \in Seq(Entry) /\ Len(a \o b) = Len(a) + Len(b)
          /\ \A i \in 1..Len(a) + Len(b) :
                (a \o b)[i] = IF i <= Len(a) THEN a[i] ELSE b[i - Len(a)]
    /\ \A S \in SUBSET Nat : S # {} => \E k \in S : \A j \in S : k <= j
    /\ \A S \in SUBSET Nat, b \in Nat :
          S # {} /\ (\A j \in S : j <= b) => \E k \in S : \A j \in S : k >= j

Terms == 0..MaxTerm

Ledgers == [Terms -> Seq(Entry)]

\* Every entry of l stands where the leader of its term put it, after the
\* same entries.
Traced(l, L) ==
    \A x \in 1..Len(l) :
        /\ l[x].term \in Terms
        /\ x <= Len(L[l[x].term])
        /\ \A y \in 1..x : l[y] = L[l[x].term][y]

\* Every entry of l is from a term before t.
Before(l, t) == \A x \in 1..Len(l) : l[x].term < t

\* k starts with l.
Starts(l, k) == Len(l) <= Len(k) /\ \A y \in 1..Len(l) : l[y] = k[y]

\* The last index a message of the leader covers.
Last(m) == m.prevIndex + Len(m.entries)

\* A request tells the log its sender stands with; what a leader sends is
\* the end of its ledger; a follower confirms a part of it.
MessageOK(m, tm, st, L) ==
    /\ m.term \in Terms
    /\ m.type = "RequestVote" =>
          /\ m.term <= tm[m.src]
          /\ m.lastIndex = Len(st[m.src][m.term]) /\ m.lastTerm = LastTerm(st[m.src][m.term])
    /\ m.type = "AppendEntries" =>
          /\ m.prevIndex \in Nat /\ m.entries \in Seq(Entry) /\ m.commit \in Nat
          /\ Last(m) \in 1..Len(L[m.term]) /\ L[m.term][Last(m)].term = m.term
          /\ m.prevTerm = TermAt(L[m.term], m.prevIndex)
          /\ \A j \in 1..Len(m.entries) : m.entries[j] = L[m.term][m.prevIndex + j]
    /\ m.type = "AppendEntriesReply" =>
          /\ m.match \in Nat
          /\ m.success => m.match \in 1..Len(L[m.term])

LogsTyped ==
    /\ term \in [Nodes -> Terms]
    /\ log \in [Nodes -> Seq(Entry)]
    /\ nextIndex \in [Nodes -> [Nodes -> Nat \ {0}]]
    /\ commitIndex \in [Nodes -> Nat]
    /\ stood \in [Nodes -> Ledgers]
    /\ ledger \in Ledgers

LogsTraced ==
    /\ \A n \in Nodes : Traced(log[n], ledger) /\ Before(log[n], term[n] + 1)
    /\ \A n \in Nodes, t \in Terms : Traced(stood[n][t], ledger) /\ Before(stood[n][t], t)
    /\ \A t \in Terms : Traced(ledger[t], ledger)

\* The ledger of a term is what its leader stood with and then entries of
\* that term only.
Founded(s, t, l) ==
    /\ Len(s) < Len(l)
    /\ Starts(s, l)
    /\ \A y \in Len(s) + 1..Len(l) : l[y].term = t

LeadersFounded ==
    /\ \A a \in leaders :
          /\ a.node \in Nodes /\ a.term \in Terms /\ a.term <= term[a.node]
          /\ a.term = term[a.node] => role[a.node] # "candidate"
          /\ Founded(stood[a.node][a.term], a.term, ledger[a.term])
    /\ \A t \in Terms : ledger[t] # <<>> => \E a \in leaders : a.term = t

\* A leader has its ledger for a log, a candidate what it stands with.
Standing ==
    \A n \in Nodes :
        /\ role[n] = "leader" =>
              /\ [term |-> term[n], node |-> n] \in leaders
              /\ log[n] = ledger[term[n]]
              /\ \A p \in Nodes : nextIndex[n][p] <= Len(log[n]) + 1
        /\ role[n] = "candidate" => log[n] = stood[n][term[n]]

MessagesOK == \A m \in msgs : MessageOK(m, term, stood, ledger)

LogInv ==
    /\ LogsTyped
    /\ LogsTraced
    /\ LeadersFounded
    /\ Standing
    /\ MessagesOK

\* r is k up to z, and past it the log l that held all of this before.
Appended(r, l, k, z) ==
    /\ r \in Seq(Entry) /\ z <= Len(r) /\ \A y \in 1..z : r[y] = k[y]
    /\ \/ r = l
       \/ Len(r) = z /\ (z > Len(l) \/ \E x \in 1..z : l[x].term # k[x].term)

-----------------------------------------------------------------------------
(* Commitment.                                                             *)

\* l is at least as up to date as a log that ends with an entry of term t at
\* index i.
AtLeast(l, t, i) == LastTerm(l) > t \/ (LastTerm(l) = t /\ Len(l) >= i)

\* k is at least as up to date as l.
NotOlder(k, l) ==
    \/ LastTerm(k) > LastTerm(l)
    \/ LastTerm(k) = LastTerm(l) /\ Len(k) >= Len(l)

\* <<p, t, i>>: p's log is up to date with index i of term t for good, and p
\* has voted in later terms only for logs that are.
Secured ==
    {s \in Nodes \X Terms \X Nat :
        /\ term[s[1]] >= s[2]
        /\ AtLeast(log[s[1]], s[2], s[3])
        /\ \A b \in ballots : b.voter = s[1] /\ b.term > s[2] =>
              AtLeast(stood[b.for][b.term], s[2], s[3])}

\* <<t, i>>: the leader of t put an entry of its term at index i, and a
\* majority secured it.
Chosen ==
    {c \in Terms \X Nat :
        /\ c[2] \in 1..Len(ledger[c[1]]) /\ ledger[c[1]][c[2]].term = c[1]
        /\ \E Q \in SUBSET Nodes :
              HasMajority(Cardinality(Q)) /\ \A p \in Q : <<p, c[1], c[2]>> \in Secured}

\* The first i entries of l are chosen.
CommittedIn(l, i, C) == i = 0 \/ (i \in 1..Len(l) /\ <<l[i].term, i>> \in C)

\* The entries of d were chosen, in a term up to t.
AppliedFrom(d, t, C, L) ==
    \/ d = <<>>
    \/ \E c \in C : /\ c[1] <= t /\ Len(d) <= c[2]
                    /\ \A y \in 1..Len(d) : d[y] = L[c[1]][y]

\* A leader tells the commit index its ledger has, within what it sends; a
\* follower that confirms an index has secured it.
MessageCommits(m, S, C, L) ==
    /\ m.type = "AppendEntries" => m.commit <= Last(m) /\ CommittedIn(L[m.term], m.commit, C)
    /\ m.type = "AppendEntriesReply" /\ m.success => <<m.src, m.term, m.match>> \in S

\* submit() waits for an entry its node put into the ledger.
Proposed(w, L) ==
    /\ w \in [node : Nodes, index : Nat, entry : Entry]
    /\ w.entry.term \in Terms
    /\ w.index \in 1..Len(L[w.entry.term]) /\ L[w.entry.term][w.index] = w.entry

CommitInv ==
    /\ matchIndex \in [Nodes -> [Nodes -> Nat]] /\ db \in [Nodes -> Seq(Entry)]
    /\ \A b \in ballots : b.term \in Terms /\ b.term <= term[b.for]
    /\ \A m \in msgs : MessageCommits(m, Secured, Chosen, ledger)
    /\ \A n, p \in Nodes : role[n] = "leader" /\ matchIndex[n][p] # 0 =>
          <<p, term[n], matchIndex[n][p]>> \in Secured
    /\ \A n \in Nodes : CommittedIn(log[n], commitIndex[n], Chosen)
    /\ \A n \in Nodes : AppliedFrom(db[n], term[n], Chosen, ledger)
    /\ \A w \in waiting : Proposed(w, ledger)

RaftInv == ElectionInv /\ LogInv /\ CommitInv

-----------------------------------------------------------------------------
(* Steps.                                                                  *)

\* Terms and ledgers only grow, and a node stands anew only in a later term,
\* with the log it has.
Onward ==
    /\ \A k \in Nodes : term'[k] >= term[k]
    /\ \A t \in Terms : Starts(ledger[t], ledger'[t])
    /\ \A k \in Nodes, t \in Terms :
          stood'[k][t] = stood[k][t] \/ (t > term[k] /\ stood'[k][t] = log[k])

\* Logs grow no older, and new votes go to candidates whose logs are not
\* older than the voter's.
Secures ==
    /\ Onward
    /\ \A k \in Nodes : NotOlder(log'[k], log[k])
    /\ \A b \in ballots' \ ballots :
          /\ b.for \in Nodes /\ b.voter \in Nodes /\ b.term \in Terms
          /\ b.term <= term'[b.for]
          /\ NotOlder(stood'[b.for][b.term], log[b.voter])

\* What was chosen is in every ledger of a later term.
ChosenOK(C, L) ==
    \A c \in C :
        /\ c[1] \in Terms /\ c[2] \in 1..Len(L[c[1]])
        /\ \A u \in Terms : u > c[1] /\ L[u] # <<>> =>
              c[2] <= Len(L[u]) /\ \A y \in 1..c[2] : L[u][y] = L[c[1]][y]
=============================================================================
