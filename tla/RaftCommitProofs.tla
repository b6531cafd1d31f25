-------------------------- MODULE RaftCommitProofs --------------------------
(***************************************************************************)
(* Commitment: what a majority has secured is in the ledger of every later *)
(* leader, and only that is committed and applied.  The steps take the     *)
(* invariants of RaftProofs and RaftLogProofs, before and after, as given. *)
(***************************************************************************)
EXTENDS RaftProofs

-----------------------------------------------------------------------------
(* What is secured and chosen stays so.                                    *)

\* A log has a length, and appending an entry to it adds one place at its end.
LEMMA AppendEntry ==
    \A q \in Seq(Entry) :
        /\ Len(q) \in Nat
        /\ \A x \in Entry :
              /\ Append(q, x) \in Seq(Entry) /\ Len(Append(q, x)) = Len(q) + 1
              /\ Append(q, x)[Len(q) + 1] = x
              /\ \A i \in 1..Len(q) : Append(q, x)[i] = q[i]
OBVIOUS

\* The types the steps below need.
LEMMA Typing ==
    ASSUME LogInv
    PROVE  /\ \A n \in Nodes : term[n] \in Terms /\ term[n] \in Nat /\ log[n] \in Seq(Entry)
           /\ \A n \in Nodes : commitIndex[n] \in Nat
           /\ \A n \in Nodes, t \in Terms : stood[n][t] \in Seq(Entry)
           /\ \A t \in Terms : ledger[t] \in Seq(Entry) /\ Len(ledger[t]) \in Nat
<1>1. /\ term \in [Nodes -> Terms] /\ log \in [Nodes -> Seq(Entry)]
      /\ stood \in [Nodes -> Ledgers] /\ ledger \in Ledgers /\ commitIndex \in [Nodes -> Nat]
  BY Zenon DEF LogInv, LogsTyped
<1>2. \A n \in Nodes : stood[n] \in Ledgers
  BY <1>1
<1>3. \A t \in Terms : ledger[t] \in Seq(Entry) /\ Len(ledger[t]) \in Nat
  BY <1>1 DEF Ledgers
<1>4. \A n \in Nodes, t \in Terms : stood[n][t] \in Seq(Entry)
  BY <1>2 DEF Ledgers
<1> QED
  BY <1>1, <1>3, <1>4, TermsAreNat, Zenon

\* Every ledger starts with itself.
LEMMA StartsItself ==
    ASSUME LogInv
    PROVE  \A t \in Terms : Starts(ledger[t], ledger[t])
<1>1. ledger \in Ledgers
  BY Zenon DEF LogInv, LogsTyped
<1> QED
  BY <1>1, SameStarts, Zenon

\* A node that has secured an index keeps it and votes accordingly.
LEMMA SecuredStays ==
    ASSUME ElectionInv, LogInv, LogInv', CommitInv, Secures
    PROVE  Secured \subseteq Secured'
<1> SUFFICES ASSUME NEW p \in Nodes, NEW t \in Terms, NEW i \in Nat, <<p, t, i>> \in Secured
             PROVE  <<p, t, i>> \in Secured'
  BY DEF Secured
<1>1. /\ term[p] >= t /\ AtLeast(log[p], t, i)
      /\ \A b \in ballots : b.voter = p /\ b.term > t => AtLeast(stood[b.for][b.term], t, i)
  BY DEF Secured
<1>2. /\ log[p] \in Seq(Entry) /\ log'[p] \in Seq(Entry) /\ t \in Nat
      /\ \A n \in Nodes : term[n] \in Nat /\ term'[n] \in Nat
      /\ \A n \in Nodes, u \in Terms : stood'[n][u] \in Seq(Entry)
  <2>1. /\ \A n \in Nodes : term'[n] \in Terms /\ log'[n] \in Seq(Entry)
        /\ \A n \in Nodes : stood'[n] \in Ledgers
    BY DEF LogInv, LogsTyped
  <2>2. \A n \in Nodes, u \in Terms : stood'[n][u] \in Seq(Entry)
    BY <2>1 DEF Ledgers
  <2> QED
    BY <2>1, <2>2, Typing, TermsAreNat, Zenon
<1>3. term'[p] >= t
  <2>1. term'[p] >= term[p]
    BY Zenon DEF Secures, Onward
  <2> QED
    BY <1>1, <1>2, <2>1
<1>4. AtLeast(log'[p], t, i)
  <2>1. NotOlder(log'[p], log[p])
    BY Zenon DEF Secures
  <2> QED
    BY <1>1, <1>2, <2>1, StaysUpToDate, Zenon
<1>5. ASSUME NEW b \in ballots', b.voter = p, b.term > t
      PROVE  AtLeast(stood'[b.for][b.term], t, i)
  <2>1. CASE b \in ballots
    <3>1. AtLeast(stood[b.for][b.term], t, i)
      BY <1>1, <1>5, <2>1, Zenon
    <3>2. b.for \in Nodes /\ b.term \in Terms /\ b.term <= term[b.for]
      BY <2>1, Zenon DEF ElectionInv, BallotsSaved, CommitInv
    <3>3. ~(b.term > term[b.for])
      <4>1. b.term \in Nat /\ term[b.for] \in Nat
        BY <1>2, <3>2, TermsAreNat, Zenon
      <4> QED
        BY <3>2, <4>1
    <3>4. stood'[b.for][b.term] = stood[b.for][b.term]
      BY <3>2, <3>3, Zenon DEF Secures, Onward
    <3> QED
      BY <3>1, <3>4
  <2>2. CASE b \notin ballots
    <3>1. /\ b.for \in Nodes /\ b.term \in Terms
          /\ NotOlder(stood'[b.for][b.term], log[p])
      BY <1>5, <2>2 DEF Secures
    <3>2. stood'[b.for][b.term] \in Seq(Entry)
      BY <1>2, <3>1, Zenon
    <3> QED
      BY <1>1, <1>2, <3>1, <3>2, StaysUpToDate, Zenon
  <2> QED
    BY <2>1, <2>2
<1> QED
  BY <1>3, <1>4, <1>5 DEF Secured

\* What was chosen stays chosen.
LEMMA ChosenStays ==
    ASSUME ElectionInv, LogInv, LogInv', CommitInv, Secures
    PROVE  Chosen \subseteq Chosen'
<1> SUFFICES ASSUME NEW t \in Terms, NEW i \in Nat, <<t, i>> \in Chosen
             PROVE  <<t, i>> \in Chosen'
  BY DEF Chosen
<1>1. i \in 1..Len(ledger[t]) /\ ledger[t][i].term = t
  BY DEF Chosen
<1>2. PICK Q \in SUBSET Nodes :
         HasMajority(Cardinality(Q)) /\ \A p \in Q : <<p, t, i>> \in Secured
  BY DEF Chosen
<1>3. \A p \in Q : <<p, t, i>> \in Secured'
  BY <1>2, SecuredStays
<1>4. i \in 1..Len(ledger'[t]) /\ ledger'[t][i] = ledger[t][i]
  <2>1. Len(ledger[t]) \in Nat /\ Len(ledger'[t]) \in Nat
    <3>1. ledger' \in Ledgers
      BY Zenon DEF LogInv, LogsTyped
    <3> QED
      BY <3>1, Typing DEF Ledgers
  <2>2. Starts(ledger[t], ledger'[t])
    BY Zenon DEF Secures, Onward
  <2> QED
    BY <1>1, <2>1, <2>2 DEF Starts
<1> QED
  BY <1>1, <1>2, <1>3, <1>4 DEF Chosen

-----------------------------------------------------------------------------
(* Completeness.                                                           *)

\* In a ledger, only entries of its own term follow one of that term.
LEMMA LedgerOrder ==
    ASSUME LogInv, NEW w \in Terms, NEW x \in 1..Len(ledger[w]), NEW y \in 1..Len(ledger[w]),
           x <= y, ledger[w][x].term = w
    PROVE  ledger[w][y].term = w
<1>1. ledger[w] \in Seq(Entry) /\ Len(ledger[w]) \in Nat /\ w \in Nat
  BY Typing, TermsAreNat, Zenon
<1>2. ledger[w] # <<>>
  BY <1>1
<1>3. PICK a \in leaders : a.term = w
  BY <1>2, Zenon DEF LogInv, LeadersFounded
<1>4. a.node \in Nodes /\ Founded(stood[a.node][w], w, ledger[w])
  BY <1>3, Zenon DEF LogInv, LeadersFounded
<1>5. PICK s \in Seq(Entry) : Before(s, w) /\ Founded(s, w, ledger[w])
  <2>1. Before(stood[a.node][w], w)
    BY <1>4, Zenon DEF LogInv, LogsTraced
  <2> QED
    BY <1>4, <2>1, Typing, Zenon
<1>6. Len(s) \in Nat /\ \A j \in 1..Len(s) : s[j].term \in Nat
  BY EntryTerms
<1>7. x > Len(s)
  <2> SUFFICES ASSUME ~(x > Len(s)) PROVE FALSE
    OBVIOUS
  <2>1. x \in 1..Len(s)
    BY <1>6
  <2>2. ledger[w][x] = s[x] /\ s[x].term < w
    BY <1>5, <2>1, Zenon DEF Founded, Starts, Before
  <2> QED
    BY <1>1, <2>2
<1>8. y \in Len(s) + 1..Len(ledger[w])
  BY <1>1, <1>6, <1>7
<1> QED
  BY <1>5, <1>8, Zenon DEF Founded

\* A log that is up to date with a chosen index holds it.
LEMMA Holds ==
    ASSUME LogInv, NEW t \in Terms, NEW i \in 1..Len(ledger[t]), ledger[t][i].term = t,
           NEW l \in Seq(Entry), Traced(l, ledger), AtLeast(l, t, i),
           LastTerm(l) > t =>
              i <= Len(ledger[LastTerm(l)]) /\ ledger[LastTerm(l)][i].term = t
    PROVE  i <= Len(l) /\ \A y \in 1..i : l[y] = ledger[t][y]
<1> DEFINE w == LastTerm(l)
           n == Len(l)
<1>1. /\ w \in Nat /\ n \in Nat /\ t \in Nat /\ i \in Nat \ {0}
      /\ l = <<>> => w = 0 /\ n = 0
      /\ l # <<>> => n \in 1..n /\ w = l[n].term
  <2>1. Len(ledger[t]) \in Nat /\ t \in Nat
    BY Typing, TermsAreNat, Zenon
  <2> QED
    BY <2>1, LastIs
<1>2. w > t \/ (w = t /\ n >= i)
  BY DEF AtLeast
<1> HIDE DEF w, n
<1>3. n \in 1..n /\ w = l[n].term
  BY <1>1, <1>2
<1>4. w \in Terms /\ n <= Len(ledger[w]) /\ \A y \in 1..n : l[y] = ledger[w][y]
  BY <1>3, Zenon DEF Traced, n
<1>5. CASE w = t
  BY <1>1, <1>2, <1>4, <1>5 DEF n
<1>6. CASE w > t
  <2>1. i <= Len(ledger[w]) /\ ledger[w][i].term = t /\ Len(ledger[w]) \in Nat
    BY <1>4, <1>6, Typing, Zenon DEF w
  <2>2. i <= n
    <3> SUFFICES ASSUME i > n PROVE FALSE
      BY <1>1
    <3>1. n \in 1..Len(ledger[w]) /\ i \in 1..Len(ledger[w]) /\ n <= i
      BY <1>1, <1>3, <2>1
    <3>2. ledger[w][n].term = w
      BY <1>3, <1>4
    <3>3. ledger[w][i].term = w
      BY <1>4, <3>1, <3>2, LedgerOrder, Zenon
    <3> QED
      BY <1>1, <1>6, <2>1, <3>3
  <2>3. i \in 1..Len(l) /\ l[i].term = t
    BY <1>1, <1>4, <2>1, <2>2 DEF n
  <2>4. \A y \in 1..i : l[y] = ledger[t][y]
    BY <2>3, Zenon DEF Traced
  <2> QED
    BY <2>2, <2>4 DEF n
<1> QED
  BY <1>2, <1>5, <1>6

\* What was chosen is in every ledger of a later term: the majority that
\* secured it and the majority that elected the leader have a node in
\* common, which did not vote for a log without it.
LEMMA Complete == MajorityFacts /\ ListFacts /\ ElectionInv /\ LogInv => ChosenOK(Chosen, ledger)
<1> SUFFICES ASSUME MajorityFacts, ListFacts, ElectionInv, LogInv,
                    NEW t \in Terms, NEW i \in Nat, <<t, i>> \in Chosen
             PROVE  /\ i \in 1..Len(ledger[t])
                    /\ \A u \in Terms : u > t /\ ledger[u] # <<>> =>
                          i <= Len(ledger[u]) /\ \A y \in 1..i : ledger[u][y] = ledger[t][y]
  <2>1. \A c \in Chosen : c[1] \in Terms /\ c[2] \in Nat /\ c = <<c[1], c[2]>>
    BY DEF Chosen
  <2> QED
    BY <2>1 DEF ChosenOK
<1>1. i \in 1..Len(ledger[t]) /\ ledger[t][i].term = t
  BY DEF Chosen
<1>2. PICK Q \in SUBSET Nodes :
         HasMajority(Cardinality(Q)) /\ \A p \in Q : <<p, t, i>> \in Secured
  BY DEF Chosen
<1> DEFINE Good(u) == i <= Len(ledger[u]) /\ ledger[u][i].term = t
           Bad == {u \in Terms : u > t /\ ledger[u] # <<>> /\ ~Good(u)}
<1>3. Bad = {}
  <2> SUFFICES ASSUME Bad # {} PROVE FALSE
    OBVIOUS
  <2>1. PICK u \in Bad : \A v \in Bad : u <= v
    <3>1. Bad \in SUBSET Nat
      BY TermsAreNat, Zenon
    <3> HIDE DEF Bad
    <3> QED
      BY <3>1, Zenon DEF ListFacts
  <2>2. u \in Terms /\ u > t /\ ledger[u] # <<>> /\ ~Good(u)
    OBVIOUS
  <2>3. \A v \in Terms : v > t /\ ledger[v] # <<>> /\ ~Good(v) => u <= v
    BY <2>1
  <2> HIDE DEF Bad, Good
  <2>4. PICK a \in leaders : a.term = u
    BY <2>2, Zenon DEF LogInv, LeadersFounded
  <2>5. a.node \in Nodes /\ Founded(stood[a.node][u], u, ledger[u]) /\ Won(u, a.node)
    BY <2>4, Zenon DEF LogInv, LeadersFounded, ElectionInv, Elected
  <2> DEFINE s == stood[a.node][u]
  <2>6. s \in Seq(Entry) /\ Traced(s, ledger) /\ Before(s, u)
    BY <2>2, <2>5, Typing, Zenon DEF LogInv, LogsTraced
  <2>7. AtLeast(s, t, i)
    <3>1. PICK P \in SUBSET Nodes :
             HasMajority(Cardinality(P)) /\ \A v \in P : Ballot(v, u, a.node) \in ballots
      BY <2>5 DEF Won
    <3>2. PICK v \in Nodes : v \in P /\ v \in Q
      BY <1>2, <3>1, Zenon DEF MajorityFacts
    <3>3. <<v, t, i>> \in Secured /\ Ballot(v, u, a.node) \in ballots
      BY <1>2, <3>1, <3>2
    <3>4. \A b \in ballots : b.voter = v /\ b.term > t => AtLeast(stood[b.for][b.term], t, i)
      BY <3>3 DEF Secured
    <3>5. /\ Ballot(v, u, a.node).voter = v /\ Ballot(v, u, a.node).term = u
          /\ Ballot(v, u, a.node).for = a.node
      BY DEF Ballot
    <3> QED
      BY <2>2, <3>3, <3>4, <3>5, Zenon
  <2> HIDE DEF s
  <2>8. LastTerm(s) > t =>
           i <= Len(ledger[LastTerm(s)]) /\ ledger[LastTerm(s)][i].term = t
    <3> SUFFICES ASSUME LastTerm(s) > t PROVE Good(LastTerm(s))
      BY DEF Good
    <3>1. /\ LastTerm(s) \in Nat /\ t \in Nat /\ u \in Nat
          /\ s = <<>> => LastTerm(s) = 0
          /\ s # <<>> => Len(s) \in 1..Len(s) /\ LastTerm(s) = s[Len(s)].term
      BY <2>2, <2>6, LastIs, TermsAreNat
    <3>2. Len(s) \in 1..Len(s) /\ LastTerm(s) = s[Len(s)].term
      BY <3>1
    <3>3. LastTerm(s) \in Terms /\ Len(s) <= Len(ledger[LastTerm(s)]) /\ LastTerm(s) < u
      BY <2>6, <3>2, Zenon DEF Traced, Before
    <3>4. ledger[LastTerm(s)] # <<>>
      BY <3>2, <3>3, Typing
    <3> QED
      BY <2>3, <3>1, <3>3, <3>4
  <2>9. i <= Len(s) /\ \A y \in 1..i : s[y] = ledger[t][y]
    BY <1>1, <2>6, <2>7, <2>8, Holds, Zenon
  <2>10. Len(s) <= Len(ledger[u]) /\ \A y \in 1..Len(s) : s[y] = ledger[u][y]
    BY <2>5, Zenon DEF Founded, Starts, s
  <2>11. Len(s) \in Nat /\ Len(ledger[u]) \in Nat /\ i \in 1..i
    BY <1>1, <2>2, <2>6, Typing
  <2>12. i <= Len(ledger[u]) /\ ledger[u][i] = ledger[t][i]
    BY <1>1, <2>9, <2>10, <2>11
  <2> QED
    BY <1>1, <2>2, <2>12 DEF Good
<1>4. ASSUME NEW u \in Terms, u > t, ledger[u] # <<>>
      PROVE  i <= Len(ledger[u]) /\ \A y \in 1..i : ledger[u][y] = ledger[t][y]
  <2>1. i <= Len(ledger[u]) /\ ledger[u][i].term = t
    BY <1>3, <1>4
  <2>2. Traced(ledger[u], ledger) /\ i \in 1..Len(ledger[u])
    BY <1>1, <2>1, Typing DEF LogInv, LogsTraced
  <2>3. \A y \in 1..i : ledger[u][y] = ledger[t][y]
    BY <2>1, <2>2, Zenon DEF Traced
  <2> QED
    BY <2>1, <2>3
<1> QED
  BY <1>1, <1>4

-----------------------------------------------------------------------------
(* What one step has to keep.                                              *)

\* What is chosen stands in the ledger of its term.
LEMMA ChosenTyped ==
    \A c \in Chosen : c[1] \in Terms /\ c[2] \in Nat /\ c[2] \in 1..Len(ledger[c[1]])
  BY DEF Chosen

\* What a step has to add to keep the invariant: of the messages it sends,
\* and of the nodes and the calls it changes.
LEMMA CommitStep ==
    ASSUME ElectionInv, LogInv, LogInv', CommitInv, Secures,
           matchIndex' \in [Nodes -> [Nodes -> Nat]], db' \in [Nodes -> Seq(Entry)],
           \A m \in msgs' \ msgs : MessageCommits(m, Secured', Chosen', ledger'),
           \A n, p \in Nodes : role'[n] = "leader" /\ matchIndex'[n][p] # 0 =>
              \/ /\ role[n] = "leader" /\ term'[n] = term[n]
                 /\ matchIndex'[n][p] = matchIndex[n][p]
              \/ <<p, term'[n], matchIndex'[n][p]>> \in Secured',
           \A n \in Nodes :
              \/ log'[n] = log[n] /\ commitIndex'[n] = commitIndex[n]
              \/ CommittedIn(log'[n], commitIndex'[n], Chosen'),
           \A n \in Nodes : db'[n] = db[n] \/ AppliedFrom(db'[n], term'[n], Chosen', ledger'),
           \A w \in waiting' \ waiting : Proposed(w, ledger')
    PROVE  CommitInv'
<1>1. Secured \subseteq Secured' /\ Chosen \subseteq Chosen'
  BY SecuredStays, ChosenStays
<1>2. ledger \in Ledgers /\ ledger' \in Ledgers /\ \A t \in Terms : Starts(ledger[t], ledger'[t])
  BY Zenon DEF LogInv, LogsTyped, Secures, Onward
<1>3. \A n \in Nodes : term[n] \in Nat /\ term'[n] \in Nat /\ term[n] <= term'[n]
  <2>1. term \in [Nodes -> Terms] /\ term' \in [Nodes -> Terms]
    BY Zenon DEF LogInv, LogsTyped
  <2>2. \A n \in Nodes : term[n] \in Nat /\ term'[n] \in Nat
    BY <2>1, TermsAreNat, Zenon
  <2>3. \A n \in Nodes : term'[n] >= term[n]
    BY Zenon DEF Secures, Onward
  <2> QED
    BY <2>2, <2>3
<1>4. ASSUME NEW b \in ballots' PROVE b.term \in Terms /\ b.term <= term'[b.for]
  <2>1. CASE b \in ballots
    <3>1. b.for \in Nodes /\ b.term \in Terms /\ b.term <= term[b.for]
      BY <2>1, Zenon DEF ElectionInv, BallotsSaved, CommitInv
    <3>2. b.term \in Nat /\ term[b.for] \in Nat /\ term'[b.for] \in Nat /\ term[b.for] <= term'[b.for]
      BY <1>3, <3>1, TermsAreNat, Zenon
    <3> QED
      BY <3>1, <3>2
  <2>2. CASE b \notin ballots
    BY <2>2 DEF Secures
  <2> QED
    BY <2>1, <2>2
<1>5. ASSUME NEW m \in msgs' PROVE MessageCommits(m, Secured', Chosen', ledger')
  <2>1. CASE m \in msgs
    <3>1. m.term \in Terms /\ MessageCommits(m, Secured, Chosen, ledger)
      BY <2>1, Zenon DEF LogInv, MessagesOK, MessageOK, CommitInv
    <3> QED
      BY <1>1, <1>2, <3>1, MessageStays, Zenon
  <2> QED
    BY <2>1
<1>6. ASSUME NEW n \in Nodes, NEW p \in Nodes, role'[n] = "leader", matchIndex'[n][p] # 0
      PROVE  <<p, term'[n], matchIndex'[n][p]>> \in Secured'
  <2>1. \A k, q \in Nodes : role[k] = "leader" /\ matchIndex[k][q] # 0 =>
           <<q, term[k], matchIndex[k][q]>> \in Secured
    BY Zenon DEF CommitInv
  <2> QED
    BY <1>1, <1>6, <2>1, Zenon
<1>7. ASSUME NEW n \in Nodes PROVE CommittedIn(log'[n], commitIndex'[n], Chosen')
  <2>1. CommittedIn(log[n], commitIndex[n], Chosen)
    BY Zenon DEF CommitInv
  <2> QED
    BY <1>1, <2>1, Zenon DEF CommittedIn
<1>8. ASSUME NEW n \in Nodes PROVE AppliedFrom(db'[n], term'[n], Chosen', ledger')
  <2>1. CASE db'[n] = db[n]
    <3>1. AppliedFrom(db[n], term[n], Chosen, ledger) /\ db \in [Nodes -> Seq(Entry)]
      BY Zenon DEF CommitInv
    <3>2. db[n] \in Seq(Entry)
      BY <3>1
    <3>3. \A c \in Chosen : c[1] \in Terms /\ c[2] \in 1..Len(ledger[c[1]])
      BY ChosenTyped
    <3> QED
      BY <1>1, <1>2, <1>3, <2>1, <3>1, <3>2, <3>3, AppliedStays, Zenon
  <2> QED
    BY <2>1
<1>9. ASSUME NEW w \in waiting' PROVE Proposed(w, ledger')
  <2>1. CASE w \in waiting
    <3>1. Proposed(w, ledger)
      BY <2>1, Zenon DEF CommitInv
    <3> QED
      BY <1>2, <3>1, ProposedStays, Zenon
  <2> QED
    BY <2>1
<1> QED
  BY <1>4, <1>5, <1>6, <1>7, <1>8, <1>9, Zenon DEF CommitInv

\* A step that leaves the logs and the databases alone, lets nobody lead and
\* at most forgets commit indexes and waiting calls.
LEMMA IdleCommit ==
    ASSUME ElectionInv, LogInv, LogInv', CommitInv, Secures, UNCHANGED <<log, db>>,
           matchIndex' \in [Nodes -> [Nodes -> Nat]],
           \A k \in Nodes : role'[k] = "leader" =>
              role[k] = "leader" /\ term'[k] = term[k] /\ matchIndex'[k] = matchIndex[k],
           \A k \in Nodes : commitIndex'[k] = commitIndex[k] \/ commitIndex'[k] = 0,
           waiting' \subseteq waiting,
           \A m \in msgs' \ msgs : MessageCommits(m, Secured, Chosen, ledger)
    PROVE  CommitInv'
<1>1. \A m \in msgs' \ msgs : MessageCommits(m, Secured', Chosen', ledger')
  <2>1. Secured \subseteq Secured' /\ Chosen \subseteq Chosen'
    BY SecuredStays, ChosenStays
  <2>2. ledger \in Ledgers /\ ledger' \in Ledgers /\ \A t \in Terms : Starts(ledger[t], ledger'[t])
    BY Zenon DEF LogInv, LogsTyped, Secures, Onward
  <2>3. \A m \in msgs' : m.term \in Terms
    BY Zenon DEF LogInv, MessagesOK, MessageOK
  <2>4. ASSUME NEW m \in msgs' \ msgs PROVE MessageCommits(m, Secured', Chosen', ledger')
    <3>1. m.term \in Terms /\ MessageCommits(m, Secured, Chosen, ledger)
      BY <2>3
    <3> QED
      BY <2>1, <2>2, <3>1, MessageStays, Zenon
  <2> QED
    BY <2>4
<1>2. \A n \in Nodes : \/ log'[n] = log[n] /\ commitIndex'[n] = commitIndex[n]
                       \/ CommittedIn(log'[n], commitIndex'[n], Chosen')
  BY Zenon DEF CommittedIn
<1>3. db' \in [Nodes -> Seq(Entry)]
  BY Zenon DEF CommitInv
<1>4. \A n, p \in Nodes : role'[n] = "leader" /\ matchIndex'[n][p] # 0 =>
         role[n] = "leader" /\ term'[n] = term[n] /\ matchIndex'[n][p] = matchIndex[n][p]
  BY Zenon
<1>5. waiting' \ waiting = {}
  OBVIOUS
<1> QED
  BY <1>1, <1>2, <1>3, <1>4, <1>5, CommitStep, Zenon

\* Terms may rise.
LEMMA QuietSecures ==
    ASSUME LogInv, UNCHANGED <<log, stood, ledger, ballots>>, \A k \in Nodes : term'[k] >= term[k]
    PROVE  Secures
<1>1. \A t \in Terms : Starts(ledger[t], ledger'[t])
  BY Typing DEF Starts
<1>2. \A k \in Nodes : NotOlder(log'[k], log[k])
  BY Typing, SameIsNotOlder, Zenon
<1>3. ballots' \ ballots = {}
  OBVIOUS
<1> QED
  BY <1>1, <1>2, <1>3, Zenon DEF Secures, Onward

\* A node that follows, in its term or a later one.
LEMMA DownCommit ==
    ASSUME ElectionInv, LogInv, LogInv', CommitInv, NEW n \in Nodes, NEW t \in Terms, t >= term[n],
           term' = [term EXCEPT ![n] = t], role' = [role EXCEPT ![n] = "follower"],
           matchIndex' \in [Nodes -> [Nodes -> Nat]],
           \A k \in Nodes \ {n} : matchIndex'[k] = matchIndex[k],
           \A k \in Nodes : commitIndex'[k] = commitIndex[k] \/ commitIndex'[k] = 0,
           UNCHANGED <<log, stood, ledger, ballots, db>>, waiting' \subseteq waiting,
           \A m \in msgs' \ msgs : MessageCommits(m, Secured, Chosen, ledger)
    PROVE  CommitInv'
<1>1. term \in [Nodes -> Nat] /\ role \in [Nodes -> {"follower", "candidate", "leader"}]
  BY Zenon DEF ElectionInv, ElectionTyped
<1>2. /\ \A k \in Nodes : term'[k] >= term[k]
      /\ \A k \in Nodes : role'[k] = "leader" => k # n /\ role[k] = "leader" /\ term'[k] = term[k]
  BY <1>1, TermsAreNat
<1>3. Secures
  BY <1>2, QuietSecures, Zenon
<1>4. \A k \in Nodes : role'[k] = "leader" =>
         role[k] = "leader" /\ term'[k] = term[k] /\ matchIndex'[k] = matchIndex[k]
  BY <1>2
<1> QED
  BY <1>3, <1>4, IdleCommit, Zenon

-----------------------------------------------------------------------------
(* Steps that commit nothing.                                              *)

\* A step in which nothing but messages, waiting calls and votes counted may
\* change.
LEMMA StillCommit ==
    ASSUME ElectionInv, LogInv, LogInv', CommitInv,
           UNCHANGED <<term, role, log, stood, ledger, ballots, db, matchIndex, commitIndex>>,
           waiting' \subseteq waiting,
           \A m \in msgs' \ msgs : MessageCommits(m, Secured, Chosen, ledger)
    PROVE  CommitInv'
<1>1. \A k \in Nodes : term'[k] >= term[k]
  BY Typing
<1>2. Secures
  BY <1>1, QuietSecures, Zenon
<1>3. matchIndex' \in [Nodes -> [Nodes -> Nat]]
  BY Zenon DEF CommitInv
<1> QED
  BY <1>2, <1>3, IdleCommit, Zenon

\* What a leader knows of its log, and what it may send.
LEMMA LeaderTells ==
    ASSUME LogInv, CommitInv, NEW n \in Nodes, role[n] = "leader", NEW p, NEW next \in Nat \ {0},
           next <= Len(log[n]) + 1
    PROVE  MessageCommits(AppendEntries(n, p, term[n], log[n], next, commitIndex[n]),
                          Secured, Chosen, ledger)
<1>1. log[n] = ledger[term[n]] /\ CommittedIn(log[n], commitIndex[n], Chosen)
  BY Zenon DEF LogInv, Standing, CommitInv
<1>2. log[n] \in Seq(Entry) /\ commitIndex[n] \in Nat
  BY Typing, Zenon
<1> QED
  BY <1>1, <1>2, SentCommits, Zenon

\* Heartbeats, and the end of a wait.
LEMMA WaitCommit ==
    ASSUME ElectionInv, LogInv, LogInv', CommitInv, NEW n \in Nodes,
           Heartbeat(n) \/ \E w \in waiting : Return(w) \/ GiveUp(w)
    PROVE  CommitInv'
<1>1. UNCHANGED <<term, role, log, stood, ledger, ballots, db, matchIndex, commitIndex>>
  BY Zenon DEF Heartbeat, Return, GiveUp, persistent, election, leadership, applied, history, elected
<1>2. waiting' \subseteq waiting
  BY DEF Heartbeat, Return, GiveUp
<1>3. CASE Heartbeat(n)
  <2>1. ASSUME NEW m \in msgs' \ msgs PROVE MessageCommits(m, Secured, Chosen, ledger)
    <3>1. /\ role[n] = "leader"
          /\ m \in Broadcast(n, term[n], log[n], nextIndex[n], commitIndex[n])
      BY <1>3 DEF Heartbeat, Send
    <3>2. PICK p \in Nodes :
            m = AppendEntries(n, p, term[n], log[n], nextIndex[n][p], commitIndex[n])
      BY <3>1, Zenon DEF Broadcast, Peers
    <3>3. nextIndex[n][p] \in Nat \ {0} /\ nextIndex[n][p] <= Len(log[n]) + 1
      <4>1. nextIndex \in [Nodes -> [Nodes -> Nat \ {0}]]
        BY Zenon DEF LogInv, LogsTyped
      <4>2. nextIndex[n][p] <= Len(log[n]) + 1
        BY <3>1, Zenon DEF LogInv, Standing
      <4> QED
        BY <4>1, <4>2
    <3> QED
      BY <3>1, <3>2, <3>3, LeaderTells, Zenon
  <2> QED
    BY <1>1, <1>2, <2>1, StillCommit, Zenon
<1>4. CASE ~Heartbeat(n)
  <2>1. msgs' \ msgs = {}
    BY <1>4 DEF Return, GiveUp
  <2> QED
    BY <1>1, <1>2, <2>1, StillCommit, Zenon
<1> QED
  BY <1>3, <1>4

\* A restart forgets the commit index; the database is what it was.
LEMMA RestartCommit ==
    ASSUME ElectionInv, LogInv, LogInv', CommitInv, LogPersisted, NEW n \in Nodes, Restart(n)
    PROVE  CommitInv'
<1>1. /\ UNCHANGED <<term, log, stood, ledger, ballots, db, msgs>>
      /\ role' = [role EXCEPT ![n] = "follower"]
      /\ commitIndex' = [commitIndex EXCEPT ![n] = 0]
      /\ matchIndex' = [matchIndex EXCEPT ![n] = [p \in Nodes |-> 0]]
      /\ waiting' = {w \in waiting : w.node # n}
  BY Zenon DEF Restart, Volatile, Reload, persistent, history, elected
<1>2. /\ matchIndex \in [Nodes -> [Nodes -> Nat]] /\ commitIndex \in [Nodes -> Nat]
      /\ term \in [Nodes -> Terms]
  BY Zenon DEF CommitInv, LogInv, LogsTyped
<1>3. /\ matchIndex' \in [Nodes -> [Nodes -> Nat]]
      /\ \A k \in Nodes \ {n} : matchIndex'[k] = matchIndex[k]
  BY <1>1, <1>2
<1>4. \A k \in Nodes : commitIndex'[k] = commitIndex[k] \/ commitIndex'[k] = 0
  BY <1>1, <1>2
<1>5. term' = [term EXCEPT ![n] = term[n]] /\ term[n] \in Terms /\ term[n] >= term[n]
  <2>1. term[n] \in Terms /\ term' = [term EXCEPT ![n] = term[n]]
    BY <1>1, <1>2
  <2> QED
    BY <2>1, TermsAreNat
<1>6. waiting' \subseteq waiting /\ msgs' \ msgs = {}
  BY <1>1
<1> QED
  BY <1>1, <1>3, <1>4, <1>5, <1>6, DownCommit, Zenon

\* A message of a later term.
LEMMA StepDownCommit ==
    ASSUME ElectionInv, LogInv, LogInv', CommitInv, NEW n \in Nodes, NEW m \in msgs,
           m.term > term[n], StepDown(n, m.term), Reply(m, {}), UNCHANGED waiting
    PROVE  CommitInv'
<1>1. /\ term' = [term EXCEPT ![n] = m.term] /\ role' = [role EXCEPT ![n] = "follower"]
      /\ UNCHANGED <<log, stood, ledger, ballots, db, matchIndex, commitIndex>>
  BY Zenon DEF StepDown, leadership, applied, history, elected
<1>2. m.term \in Terms
  BY Zenon DEF LogInv, MessagesOK, MessageOK
<1>3. m.term >= term[n]
  <2>1. m.term \in Nat /\ term[n] \in Nat
    BY <1>2, Typing, TermsAreNat, Zenon
  <2> QED
    BY <2>1
<1>4. matchIndex' \in [Nodes -> [Nodes -> Nat]]
  BY <1>1, Zenon DEF CommitInv
<1>5. msgs' \ msgs = {} /\ waiting' \subseteq waiting
  BY ReplyAdds
<1> QED
  BY <1>1, <1>2, <1>3, <1>4, <1>5, DownCommit, Zenon

\* AppendEntries of an old term, or one that does not fit the log.
LEMMA RejectCommit ==
    ASSUME ElectionInv, LogInv, LogInv', CommitInv, NEW n \in Nodes, NEW m \in msgs,
           RejectStale(n, m) \/ RejectMismatch(n, m)
    PROVE  CommitInv'
<1>1. /\ UNCHANGED <<log, stood, ledger, ballots, db, matchIndex, commitIndex, waiting>>
      /\ \E t, i : Reply(m, {AppendEntriesReply(n, m.src, t, FALSE, i)})
  BY Zenon DEF RejectStale, RejectMismatch, Follow, persistent, leadership, applied, history, elected
<1>2. \A x \in msgs' \ msgs : MessageCommits(x, Secured, Chosen, ledger)
  <2>1. PICK t, i : Reply(m, {AppendEntriesReply(n, m.src, t, FALSE, i)})
    BY <1>1, Zenon
  <2>2. msgs' \ msgs \subseteq {AppendEntriesReply(n, m.src, t, FALSE, i)}
    BY <2>1, ReplyAdds, Zenon
  <2> QED
    BY <2>2, AnswersCommit, Zenon
<1>3. CASE RejectStale(n, m)
  <2>1. UNCHANGED <<term, role>>
    BY <1>3, Zenon DEF RejectStale, persistent, election
  <2> QED
    BY <1>1, <1>2, <2>1, StillCommit, Zenon
<1>4. CASE RejectMismatch(n, m)
  <2>1. /\ term' = [term EXCEPT ![n] = m.term] /\ role' = [role EXCEPT ![n] = "follower"]
        /\ m.term >= term[n]
    BY <1>4, Zenon DEF RejectMismatch, Follow
  <2>2. m.term \in Terms
    BY Zenon DEF LogInv, MessagesOK, MessageOK
  <2>3. matchIndex' \in [Nodes -> [Nodes -> Nat]]
    BY <1>1, Zenon DEF CommitInv
  <2> QED
    BY <1>1, <1>2, <2>1, <2>2, <2>3, DownCommit, Zenon
<1> QED
  BY <1>3, <1>4

-----------------------------------------------------------------------------
(* Steps that secure.                                                      *)

\* A node has secured every entry of its own term in its log.
OwnSecured ==
    \A n \in Nodes : \A z \in 1..Len(log[n]) :
        log[n][z].term = term[n] => <<n, term[n], z>> \in Secured

\* Who has secured an index has secured the lower ones.
SecuredBelow ==
    \A p \in Nodes, t \in Terms : \A j \in Nat, i \in Nat :
        i <= j /\ <<p, t, j>> \in Secured => <<p, t, i>> \in Secured

\* An entry of its term that a leader and the nodes of P have secured is
\* chosen, if they are a majority.
LedBy ==
    \A n \in Nodes : \A i \in 1..Len(log[n]), P \in SUBSET Nodes :
        /\ role[n] = "leader" /\ log[n][i].term = term[n]
        /\ n \notin P /\ HasMajority(1 + Cardinality(P))
        /\ \A p \in P : <<p, term[n], i>> \in Secured
        => <<term[n], i>> \in Chosen

\* Entries of its term come from its ledger, and it has voted in no later
\* term.
LEMMA OwnIsSecured == ElectionInv /\ LogInv => OwnSecured
<1> SUFFICES ASSUME ElectionInv, LogInv, NEW n \in Nodes, NEW z \in 1..Len(log[n]),
                    log[n][z].term = term[n]
             PROVE  <<n, term[n], z>> \in Secured
  BY DEF OwnSecured
<1> DEFINE l == log[n]
           w == LastTerm(l)
<1>1. term[n] \in Terms /\ term[n] \in Nat /\ l \in Seq(Entry) /\ Len(l) \in Nat /\ z \in Nat
  BY Typing
<1>2. Traced(l, ledger) /\ Before(l, term[n] + 1)
  BY Zenon DEF LogInv, LogsTraced
<1>3. Len(l) \in 1..Len(l) /\ w = l[Len(l)].term /\ w \in Nat
  BY <1>1, LastIs
<1>4. /\ w \in Terms /\ Len(l) <= Len(ledger[w]) /\ \A y \in 1..Len(l) : l[y] = ledger[w][y]
      /\ w < term[n] + 1
  BY <1>2, <1>3, Zenon DEF Traced, Before
<1> HIDE DEF w
<1>5. term[n] < w + 1
  <2>1. Before(ledger[w], w + 1) /\ Len(ledger[w]) \in Nat
    BY <1>4, LedgerTerms, Typing, Zenon
  <2>2. z \in 1..Len(ledger[w]) /\ ledger[w][z].term = term[n]
    BY <1>1, <1>4, <2>1
  <2> QED
    BY <2>1, <2>2 DEF Before
<1>6. w = term[n]
  BY <1>1, <1>3, <1>4, <1>5
<1>7. AtLeast(log[n], term[n], z)
  <2>1. Len(l) >= z
    BY <1>1
  <2> QED
    BY <1>6, <2>1, Zenon DEF AtLeast, w
<1>8. \A b \in ballots : b.voter = n => ~(b.term > term[n])
  <2>1. \A b \in ballots : b.term \in Nat /\ b.term <= term[b.voter]
    BY Zenon DEF ElectionInv, BallotsSaved
  <2> QED
    BY <1>1, <2>1
<1>9. term[n] >= term[n]
  BY <1>1
<1>10. <<n, term[n], z>> \in Nodes \X Terms \X Nat
  BY <1>1
<1> QED
  BY <1>7, <1>8, <1>9, <1>10 DEF Secured

\* Who is up to date with an index is so with the lower ones.
LEMMA LowerIsSecured == LogInv => SecuredBelow
<1> SUFFICES ASSUME LogInv, NEW p \in Nodes, NEW t \in Terms, NEW j \in Nat, NEW i \in Nat, i <= j,
                    <<p, t, j>> \in Secured
             PROVE  <<p, t, i>> \in Secured
  BY Zenon DEF SecuredBelow
<1>1. ASSUME NEW l, Len(l) \in Nat, AtLeast(l, t, j) PROVE AtLeast(l, t, i)
  BY <1>1 DEF AtLeast
<1>2. /\ term[p] >= t /\ AtLeast(log[p], t, j)
      /\ \A b \in ballots : b.voter = p /\ b.term > t => AtLeast(stood[b.for][b.term], t, j)
  BY DEF Secured
<1>3. Len(log[p]) \in Nat
  BY Typing
<1> QED
  BY <1>1, <1>2, <1>3 DEF Secured

\* A leader's log is the ledger of its term.
LEMMA LedIsChosen == MajorityFacts /\ ElectionInv /\ LogInv => LedBy
<1> SUFFICES ASSUME MajorityFacts, ElectionInv, LogInv, NEW n \in Nodes,
                    NEW i \in 1..Len(log[n]), NEW P \in SUBSET Nodes,
                    role[n] = "leader", log[n][i].term = term[n],
                    n \notin P, HasMajority(1 + Cardinality(P)),
                    \A p \in P : <<p, term[n], i>> \in Secured
             PROVE  <<term[n], i>> \in Chosen
  BY Zenon DEF LedBy
<1>1. <<n, term[n], i>> \in Secured
  BY OwnIsSecured, Zenon DEF OwnSecured
<1> DEFINE Q == P \cup {n}
<1>2. Q \in SUBSET Nodes /\ HasMajority(Cardinality(Q))
  <2>1. Cardinality(Q) = 1 + Cardinality(P)
    BY Zenon DEF MajorityFacts
  <2> QED
    BY <2>1
<1>3. \A p \in Q : <<p, term[n], i>> \in Secured
  BY <1>1, Zenon
<1> HIDE DEF Q
<1>4. term[n] \in Terms /\ log[n] = ledger[term[n]] /\ i \in Nat
  <2>1. log[n] = ledger[term[n]]
    BY Zenon DEF LogInv, Standing
  <2>2. term[n] \in Terms /\ log[n] \in Seq(Entry)
    BY Typing, Zenon
  <2> QED
    BY <2>1, <2>2
<1>5. i \in 1..Len(ledger[term[n]]) /\ ledger[term[n]][i].term = term[n]
  BY <1>4
<1> QED
  BY <1>2, <1>3, <1>4, <1>5 DEF Chosen

\* After a step, too.
LEMMA After ==
    ASSUME MajorityFacts, ListFacts, ElectionInv', LogInv'
    PROVE  OwnSecured' /\ SecuredBelow' /\ LedBy' /\ ChosenOK(Chosen', ledger')
<1>1. MajorityFacts' /\ ListFacts'
  BY Zenon DEF MajorityFacts, ListFacts, HasMajority
<1>2. (ElectionInv /\ LogInv => OwnSecured)'
  BY OwnIsSecured, PTL
<1>3. (LogInv => SecuredBelow)'
  BY LowerIsSecured, PTL
<1>4. (MajorityFacts /\ ElectionInv /\ LogInv => LedBy)'
  BY LedIsChosen, PTL
<1>5. (MajorityFacts /\ ListFacts /\ ElectionInv /\ LogInv => ChosenOK(Chosen, ledger))'
  BY Complete, PTL
<1> QED
  BY <1>1, <1>2, <1>3, <1>4, <1>5

\* _maybe_advance_commit and _apply on the leader's log: what a majority of
\* the match indexes covers is chosen.
LEMMA LeaderCommits ==
    ASSUME MajorityFacts, ListFacts, ElectionInv, ElectionInv', LogInv, LogInv', CommitInv, Secures,
           NEW n \in Nodes, NEW t \in Terms, NEW l \in Seq(Entry), NEW match \in [Nodes -> Nat],
           role'[n] = "leader", term'[n] = t, log'[n] = l,
           \A p \in Nodes : match[p] # 0 => <<p, t, match[p]>> \in Secured',
           CommittedIn(l, commitIndex[n], Chosen)
    PROVE  LET c == AdvancedCommit(n, t, l, match) IN
           /\ CommittedIn(l, c, Chosen') /\ Apply(db[n], l, c) \in Seq(Entry)
           /\ AppliedFrom(Apply(db[n], l, c), t, Chosen', ledger')
<1> DEFINE c == AdvancedCommit(n, t, l, match)
           P == {p \in Peers(n) : match[p] >= c}
<1>1. Secured \subseteq Secured' /\ Chosen \subseteq Chosen'
  BY SecuredStays, ChosenStays
<1>2. OwnSecured' /\ SecuredBelow' /\ LedBy' /\ ChosenOK(Chosen', ledger')
  BY After
<1>3. c \in Nat /\ (c = commitIndex[n] \/ c \in Committable(n, t, l, match))
  BY AdvancedIs DEF LogInv
<1>4. CommittedIn(l, c, Chosen')
  <2>1. CASE c = commitIndex[n]
    BY <1>1, <2>1, Zenon DEF CommittedIn
  <2>2. CASE c \in Committable(n, t, l, match)
    <3>1. /\ c \in commitIndex[n] + 1..Len(l) /\ l[c].term = t
          /\ HasMajority(1 + Cardinality(P))
      BY <2>2 DEF Committable
    <3> HIDE DEF c
    <3>2. commitIndex[n] \in Nat /\ Len(l) \in Nat
      BY Typing
    <3>3. c \in 1..Len(l) /\ c # 0
      BY <3>1, <3>2
    <3>4. ASSUME NEW p \in P PROVE <<p, t, c>> \in Secured'
      <4>1. p \in Nodes /\ match[p] >= c /\ match[p] \in Nat
        BY DEF Peers
      <4>2. match[p] # 0 /\ c <= match[p]
        BY <1>3, <3>3, <4>1
      <4>3. <<p, t, match[p]>> \in Secured'
        BY <4>1, <4>2, Zenon
      <4> QED
        BY <1>2, <1>3, <4>1, <4>2, <4>3, Zenon DEF SecuredBelow
    <3>5. P \in SUBSET Nodes /\ n \notin P
      BY DEF Peers
    <3> HIDE DEF P
    <3>6. <<t, c>> \in Chosen'
      BY <1>2, <3>1, <3>3, <3>4, <3>5, Zenon DEF LedBy
    <3> QED
      BY <3>1, <3>3, <3>6, Zenon DEF CommittedIn
  <2> QED
    BY <1>3, <2>1, <2>2
<1> HIDE DEF c
<1>5. /\ ledger' \in Ledgers /\ Traced(l, ledger') /\ Before(l, t + 1)
  BY Zenon DEF LogInv, LogsTyped, LogsTraced
<1>6. db[n] \in Seq(Entry) /\ AppliedFrom(db[n], t, Chosen', ledger')
  <2>1. db \in [Nodes -> Seq(Entry)] /\ AppliedFrom(db[n], term[n], Chosen, ledger)
    BY Zenon DEF CommitInv
  <2>2. /\ ledger \in Ledgers /\ \A u \in Terms : Starts(ledger[u], ledger'[u])
        /\ term'[n] >= term[n]
    BY Zenon DEF LogInv, LogsTyped, Secures, Onward
  <2>3. db[n] \in Seq(Entry)
    BY <2>1
  <2>4. t \in Nat /\ term[n] \in Nat
    BY Typing, TermsAreNat, Zenon
  <2>5. term[n] <= t
    BY <2>2, <2>4
  <2>6. \A x \in Chosen : x[1] \in Terms /\ x[2] \in 1..Len(ledger[x[1]])
    BY ChosenTyped
  <2> QED
    BY <1>1, <1>5, <2>1, <2>2, <2>3, <2>4, <2>5, <2>6, AppliedStays, Zenon
<1>7. c <= c
  BY <1>3
<1>8. Apply(db[n], l, c) \in Seq(Entry) /\ AppliedFrom(Apply(db[n], l, c), t, Chosen', ledger')
  BY <1>2, <1>3, <1>4, <1>5, <1>6, <1>7, ApplyOK, Zenon
<1> QED
  BY <1>4, <1>8 DEF c

\* AppendEntries that fits: the log becomes no older, and the commit index
\* taken from the leader covers only what is chosen.
LEMMA AcceptCommits ==
    ASSUME MajorityFacts, ListFacts, ElectionInv, LogInv, CommitInv,
           NEW n \in Nodes, NEW m \in msgs,
           m.type = "AppendEntries", m.term >= term[n], Matches(n, m)
    PROVE  LET r == AppendFrom(log[n], m.prevIndex, m.entries)
               f == FollowerCommit(n, m)
           IN  /\ NotOlder(r, log[n]) /\ Last(m) \in 1..Len(r) /\ r[Last(m)].term = m.term
               /\ f \in Nat /\ f >= commitIndex[n] /\ CommittedIn(r, f, Chosen)
               /\ \A c \in Nat : c <= f =>
                     /\ Apply(db[n], r, c) \in Seq(Entry)
                     /\ AppliedFrom(Apply(db[n], r, c), m.term, Chosen, ledger)
<1> DEFINE r == AppendFrom(log[n], m.prevIndex, m.entries)
           f == FollowerCommit(n, m)
           T == m.term
           k == ledger[T]
           z == Last(m)
<1>1. /\ r \in Seq(Entry) /\ Traced(r, ledger) /\ Before(r, T + 1)
      /\ T \in Terms /\ z \in 1..Len(k) /\ k[z].term = T
      /\ Appended(r, log[n], k, z)
  BY AcceptIs
<1>2. /\ m.commit \in Nat /\ m.commit <= z /\ CommittedIn(k, m.commit, Chosen)
      /\ m.prevIndex \in Nat /\ m.entries \in Seq(Entry)
  BY Zenon DEF LogInv, MessagesOK, MessageOK, CommitInv, MessageCommits
<1>3. /\ CommittedIn(log[n], commitIndex[n], Chosen) /\ commitIndex[n] \in Nat
      /\ log[n] \in Seq(Entry) /\ term[n] \in Nat /\ T \in Nat /\ k \in Seq(Entry)
      /\ k = ledger[T]
      /\ Traced(log[n], ledger) /\ Before(log[n], term[n] + 1) /\ ledger \in Ledgers
  <2>1. T \in Nat
    BY <1>1, TermsAreNat, Zenon
  <2> QED
    BY <1>1, <2>1, Typing, Zenon DEF CommitInv, LogInv, LogsTraced, LogsTyped
<1>4. f = IF m.commit > commitIndex[n] THEN m.commit ELSE commitIndex[n]
  BY <1>2 DEF FollowerCommit, Last
<1> HIDE DEF r, f, k, z
<1>5. Before(log[n], T + 1)
  <2>1. \A x \in 1..Len(log[n]) : log[n][x].term \in Nat
    BY <1>3, EntryTerms
  <2> HIDE DEF T
  <2> QED
    BY <1>3, <2>1 DEF Before, T
<1>6. NotOlder(r, log[n])
  BY <1>1, <1>3, <1>5, AppendedIsNotOlder, Zenon
<1>7. z <= Len(r) /\ (\A y \in 1..z : r[y] = k[y]) /\ Len(r) \in Nat /\ Len(k) \in Nat
  <2>1. z <= Len(r) /\ \A y \in 1..z : r[y] = k[y]
    BY <1>1, Zenon DEF Appended
  <2> QED
    BY <1>1, <1>3, <2>1
<1>8. z \in 1..Len(r) /\ r[z].term = T
  BY <1>1, <1>7
<1>9. ChosenOK(Chosen, ledger)
  BY Complete, Zenon
<1>10. CommittedIn(r, f, Chosen)
  <2>1. CommittedIn(r, commitIndex[n], Chosen)
    <3> HIDE DEF T
    <3>1. Appended(r, log[n], k, z) /\ z \in 1..Len(k) /\ T \in Terms
      BY <1>1
    <3> QED
      BY <1>3, <1>5, <1>9, <3>1, KeepsCommitted
  <2>2. CommittedIn(r, m.commit, Chosen)
    <3>1. CASE m.commit = 0
      BY <3>1 DEF CommittedIn
    <3>2. CASE m.commit # 0
      <4>1. m.commit \in 1..Len(r) /\ m.commit \in 1..z
        BY <1>2, <1>7, <1>8, <3>2
      <4>2. <<k[m.commit].term, m.commit>> \in Chosen
        BY <1>2, <3>2 DEF CommittedIn
      <4> QED
        BY <1>7, <4>1, <4>2 DEF CommittedIn
    <3> QED
      BY <3>1, <3>2
  <2> QED
    BY <1>4, <2>1, <2>2
<1>11. f \in Nat /\ f >= commitIndex[n]
  BY <1>2, <1>3, <1>4
<1>12. db[n] \in Seq(Entry) /\ AppliedFrom(db[n], T, Chosen, ledger)
  <2>1. db \in [Nodes -> Seq(Entry)] /\ AppliedFrom(db[n], term[n], Chosen, ledger)
    BY Zenon DEF CommitInv
  <2>2. db[n] \in Seq(Entry) /\ term[n] <= T
    BY <1>3, <2>1
  <2>3. \A u \in Terms : Starts(ledger[u], ledger[u])
    BY StartsItself, Zenon
  <2>4. \A x \in Chosen : x[1] \in Terms /\ x[2] \in 1..Len(ledger[x[1]])
    BY ChosenTyped
  <2> QED
    BY <1>3, <2>1, <2>2, <2>3, <2>4, AppliedStays, Zenon
<1>13. ASSUME NEW c \in Nat, c <= f
       PROVE  /\ Apply(db[n], r, c) \in Seq(Entry)
              /\ AppliedFrom(Apply(db[n], r, c), T, Chosen, ledger)
  BY <1>1, <1>3, <1>9, <1>10, <1>11, <1>12, <1>13, ApplyOK, Zenon
<1> QED
  BY <1>6, <1>8, <1>10, <1>11, <1>13, Zenon DEF r, f, z

\* A follower that accepts has secured what it confirms.
LEMMA AcceptCommit ==
    ASSUME MajorityFacts, ListFacts, ElectionInv, ElectionInv', LogInv, LogInv', CommitInv,
           NEW n \in Nodes, NEW m \in msgs, Accept(n, m)
    PROVE  CommitInv'
<1> DEFINE r == AppendFrom(log[n], m.prevIndex, m.entries)
           f == FollowerCommit(n, m)
           d == Apply(db[n], r, f)
           answer == AppendEntriesReply(n, m.src, m.term, TRUE, Last(m))
<1>1. /\ m.type = "AppendEntries" /\ m.term >= term[n] /\ Matches(n, m)
      /\ term' = [term EXCEPT ![n] = m.term] /\ role' = [role EXCEPT ![n] = "follower"]
      /\ log' = [log EXCEPT ![n] = r]
      /\ commitIndex' = [commitIndex EXCEPT ![n] = f] /\ db' = [db EXCEPT ![n] = d]
      /\ Reply(m, {answer})
      /\ UNCHANGED <<matchIndex, ledger, stood, ballots, waiting>>
  BY Zenon DEF Accept, Follow, CommitAndApply, leadership, history, elected, Last
<1>2. /\ NotOlder(r, log[n]) /\ Last(m) \in 1..Len(r) /\ r[Last(m)].term = m.term
      /\ CommittedIn(r, f, Chosen) /\ d \in Seq(Entry)
      /\ AppliedFrom(d, m.term, Chosen, ledger)
  <2>1. f \in Nat => f <= f
    OBVIOUS
  <2> QED
    BY <1>1, <2>1, AcceptCommits, Zenon
<1> HIDE DEF r, f, d
<1>3. /\ term \in [Nodes -> Nat] /\ role \in [Nodes -> {"follower", "candidate", "leader"}]
      /\ log \in [Nodes -> Seq(Entry)] /\ db \in [Nodes -> Seq(Entry)]
      /\ commitIndex \in [Nodes -> Nat] /\ matchIndex \in [Nodes -> [Nodes -> Nat]]
  BY Zenon DEF ElectionInv, ElectionTyped, LogInv, LogsTyped, CommitInv
<1>4. /\ term'[n] = m.term /\ role'[n] = "follower" /\ log'[n] = r
      /\ commitIndex'[n] = f /\ db'[n] = d /\ db' \in [Nodes -> Seq(Entry)]
  <2>1. term'[n] = m.term /\ role'[n] = "follower" /\ log'[n] = r
    BY <1>1, <1>3, Zenon
  <2>2. commitIndex'[n] = f /\ db'[n] = d
    BY <1>1, <1>3, Zenon
  <2>3. db' \in [Nodes -> Seq(Entry)]
    BY <1>1, <1>2, <1>3
  <2> QED
    BY <2>1, <2>2, <2>3, Zenon
<1>5. \A j \in Nodes \ {n} :
         /\ term'[j] = term[j] /\ role'[j] = role[j] /\ log'[j] = log[j]
         /\ commitIndex'[j] = commitIndex[j] /\ db'[j] = db[j]
  BY <1>1, <1>3
<1>6. Secures
  <2>1. \A j \in Nodes : term'[j] >= term[j]
    BY <1>1, <1>3, <1>4, <1>5
  <2>2. \A t \in Terms : Starts(ledger[t], ledger'[t])
    BY <1>1, StartsItself, Zenon
  <2>3. \A j \in Nodes : NotOlder(log'[j], log[j])
    BY <1>2, <1>4, <1>5, Typing, SameIsNotOlder, Zenon
  <2>4. ballots' \ ballots = {}
    BY <1>1
  <2> QED
    BY <1>1, <2>1, <2>2, <2>3, <2>4, Zenon DEF Secures, Onward
<1>7. Chosen \subseteq Chosen'
  BY <1>6, ChosenStays
<1>8. \A x \in msgs' \ msgs : MessageCommits(x, Secured', Chosen', ledger')
  <2>1. OwnSecured'
    BY After
  <2>2. <<n, m.term, Last(m)>> \in Secured'
    BY <1>2, <1>4, <2>1, Zenon DEF OwnSecured
  <2>3. MessageCommits(answer, Secured', Chosen', ledger')
    BY <2>2 DEF MessageCommits, AppendEntriesReply
  <2> HIDE DEF answer
  <2>4. msgs' \ msgs \subseteq {answer}
    BY <1>1, ReplyAdds, Zenon
  <2> QED
    BY <2>3, <2>4
<1>9. \A j \in Nodes : \/ log'[j] = log[j] /\ commitIndex'[j] = commitIndex[j]
                       \/ CommittedIn(log'[j], commitIndex'[j], Chosen')
  <2>1. CommittedIn(r, f, Chosen')
    BY <1>2, <1>7, Zenon DEF CommittedIn
  <2> QED
    BY <1>4, <1>5, <2>1, Zenon
<1>10. \A j \in Nodes : db'[j] = db[j] \/ AppliedFrom(db'[j], term'[j], Chosen', ledger')
  <2>1. AppliedFrom(d, m.term, Chosen', ledger')
    BY <1>1, <1>2, <1>7, Zenon DEF AppliedFrom
  <2> QED
    BY <1>4, <1>5, <2>1, Zenon
<1>11. \A j, p \in Nodes : role'[j] = "leader" /\ matchIndex'[j][p] # 0 =>
          role[j] = "leader" /\ term'[j] = term[j] /\ matchIndex'[j][p] = matchIndex[j][p]
  <2>1. \A j \in Nodes : role'[j] = "leader" => j # n
    BY <1>4
  <2> QED
    BY <1>1, <1>5, <2>1, Zenon
<1>12. waiting' \ waiting = {} /\ matchIndex' \in [Nodes -> [Nodes -> Nat]]
  BY <1>1, <1>3
<1> QED
  BY <1>4, <1>6, <1>8, <1>9, <1>10, <1>11, <1>12, CommitStep, Zenon

\* A crash in the middle of AppendEntries: what the database has applied was
\* chosen, though the saved log may not have it.
LEMMA CrashCommit ==
    ASSUME MajorityFacts, ListFacts, ElectionInv, LogInv, LogInv', CommitInv,
           NEW n \in Nodes, NEW m \in msgs, CrashInAccept(n, m)
    PROVE  CommitInv'
<1> DEFINE r == AppendFrom(log[n], m.prevIndex, m.entries)
           f == FollowerCommit(n, m)
<1>1. /\ m.type = "AppendEntries" /\ m.term >= term[n] /\ Matches(n, m)
      /\ \E c \in Len(db[n]) + 1..f : db' = [db EXCEPT ![n] = Apply(db[n], r, c)]
      /\ term' = [term EXCEPT ![n] = m.term] /\ role' = [role EXCEPT ![n] = "follower"]
      /\ commitIndex' = [commitIndex EXCEPT ![n] = 0]
      /\ matchIndex' = [matchIndex EXCEPT ![n] = [p \in Nodes |-> 0]]
      /\ waiting' = {w \in waiting : w.node # n}
      /\ Reply(m, {})
      /\ UNCHANGED <<log, ledger, stood, ballots>>
  BY Zenon DEF CrashInAccept, Volatile, history, elected
<1>2. /\ term \in [Nodes -> Nat] /\ role \in [Nodes -> {"follower", "candidate", "leader"}]
      /\ db \in [Nodes -> Seq(Entry)]
      /\ commitIndex \in [Nodes -> Nat] /\ matchIndex \in [Nodes -> [Nodes -> Nat]]
  BY Zenon DEF ElectionInv, ElectionTyped, LogInv, LogsTyped, CommitInv
<1>3. PICK c \in Nat : c <= f /\ db' = [db EXCEPT ![n] = Apply(db[n], r, c)]
  <2>1. f \in Nat
    BY <1>1, AcceptCommits, Zenon
  <2>2. Len(db[n]) \in Nat
    BY <1>2
  <2>3. PICK c \in Len(db[n]) + 1..f : db' = [db EXCEPT ![n] = Apply(db[n], r, c)]
    BY <1>1, Zenon
  <2> HIDE DEF f, r
  <2>4. c \in Nat /\ c <= f
    BY <2>1, <2>2
  <2> QED
    BY <2>3, <2>4, Zenon
<1> DEFINE d == Apply(db[n], r, c)
<1>4. d \in Seq(Entry) /\ AppliedFrom(d, m.term, Chosen, ledger)
  BY <1>1, <1>3, AcceptCommits, Zenon
<1> HIDE DEF r, f, d
<1>5. /\ term'[n] = m.term /\ role'[n] = "follower" /\ db'[n] = d /\ db' \in [Nodes -> Seq(Entry)]
      /\ matchIndex' \in [Nodes -> [Nodes -> Nat]] /\ commitIndex'[n] = 0
  BY <1>1, <1>2, <1>3, <1>4 DEF d
<1>6. \A j \in Nodes \ {n} :
         /\ term'[j] = term[j] /\ role'[j] = role[j] /\ matchIndex'[j] = matchIndex[j]
         /\ commitIndex'[j] = commitIndex[j] /\ db'[j] = db[j]
  BY <1>1, <1>2, <1>3
<1>7. Secures
  <2>1. \A j \in Nodes : term'[j] >= term[j]
    BY <1>1, <1>2, <1>5, <1>6
  <2> QED
    BY <1>1, <2>1, QuietSecures, Zenon
<1>8. Chosen \subseteq Chosen'
  BY <1>7, ChosenStays
<1>9. \A j \in Nodes : \/ log'[j] = log[j] /\ commitIndex'[j] = commitIndex[j]
                       \/ CommittedIn(log'[j], commitIndex'[j], Chosen')
  BY <1>1, <1>5, <1>6, Zenon DEF CommittedIn
<1>10. \A j \in Nodes : db'[j] = db[j] \/ AppliedFrom(db'[j], term'[j], Chosen', ledger')
  <2>1. AppliedFrom(d, m.term, Chosen', ledger')
    BY <1>1, <1>4, <1>8, Zenon DEF AppliedFrom
  <2> QED
    BY <1>5, <1>6, <2>1, Zenon
<1>11. \A j, p \in Nodes : role'[j] = "leader" /\ matchIndex'[j][p] # 0 =>
          role[j] = "leader" /\ term'[j] = term[j] /\ matchIndex'[j][p] = matchIndex[j][p]
  <2>1. \A j \in Nodes : role'[j] = "leader" => j # n
    BY <1>5
  <2> QED
    BY <1>6, <2>1, Zenon
<1>12. waiting' \ waiting = {} /\ msgs' \ msgs = {}
  BY <1>1, ReplyAdds
<1> QED
  BY <1>5, <1>7, <1>9, <1>10, <1>11, <1>12, CommitStep, Zenon

\* A vote is given only to a candidate whose log is not older.
LEMMA RequestVoteCommit ==
    ASSUME ElectionInv, LogInv, LogInv', CommitInv, NEW n \in Nodes, NEW m \in msgs,
           HandleRequestVote(n, m)
    PROVE  CommitInv'
<1> DEFINE later == m.term > term[n]
           t == IF later THEN m.term ELSE term[n]
           b == [voter |-> n, term |-> t, for |-> m.src]
<1>1. /\ m.type = "RequestVote" /\ term' = [term EXCEPT ![n] = t]
      /\ role' = IF later THEN [role EXCEPT ![n] = "follower"] ELSE role
      /\ \/ ballots' = ballots
         \/ ballots' = ballots \cup {b} /\ m.term >= term[n] /\ UpToDate(m, log[n])
      /\ \E g : Reply(m, {RequestVoteReply(n, m.src, t, g)})
      /\ UNCHANGED <<log, matchIndex, commitIndex, db, waiting, stood, ledger>>
  BY Zenon DEF HandleRequestVote, leadership, applied, elected
<1>2. /\ m.term \in Terms /\ m.src \in Nodes /\ m.term <= term[m.src]
      /\ m.lastIndex = Len(stood[m.src][m.term]) /\ m.lastTerm = LastTerm(stood[m.src][m.term])
  BY <1>1, Zenon DEF ElectionInv, Honest, LogInv, MessagesOK, MessageOK
<1>3. /\ term \in [Nodes -> Nat] /\ role \in [Nodes -> {"follower", "candidate", "leader"}]
      /\ m.term \in Nat
  BY <1>2, TermsAreNat, Zenon DEF ElectionInv, ElectionTyped
<1>4. /\ \A k \in Nodes : term'[k] >= term[k]
      /\ \A k \in Nodes : role'[k] = "leader" => role[k] = "leader" /\ term'[k] = term[k]
      /\ m.term >= term[n] => t = m.term
  <2>1. t >= term[n] /\ (m.term >= term[n] => t = m.term) /\ \A u \in Nat : u >= u
    BY <1>3
  <2>2. term'[n] = t /\ \A k \in Nodes \ {n} : term'[k] = term[k]
    BY <1>1, <1>3, Zenon
  <2>3. \A k \in Nodes : term'[k] >= term[k]
    BY <1>3, <2>1, <2>2, Zenon
  <2>4. \A k \in Nodes : role'[k] = "leader" => role[k] = "leader" /\ (k # n \/ ~later)
    BY <1>1, <1>3, Zenon
  <2>5. \A k \in Nodes : role'[k] = "leader" => term'[k] = term[k]
    BY <2>2, <2>4, Zenon
  <2> QED
    BY <2>1, <2>3, <2>4, <2>5, Zenon
<1> HIDE DEF later, t
<1>5. Secures
  <2>1. \A u \in Terms : Starts(ledger[u], ledger'[u])
    BY <1>1, StartsItself, Zenon
  <2>2. \A k \in Nodes : NotOlder(log'[k], log[k])
    BY <1>1, Typing, SameIsNotOlder, Zenon
  <2>3. ASSUME NEW x \in ballots' \ ballots
        PROVE  /\ x.for \in Nodes /\ x.voter \in Nodes /\ x.term \in Terms
               /\ x.term <= term'[x.for]
               /\ NotOlder(stood'[x.for][x.term], log[x.voter])
    <3>1. x = b /\ m.term >= term[n] /\ UpToDate(m, log[n])
      BY <1>1
    <3>2. x.for = m.src /\ x.voter = n /\ x.term = m.term
      BY <1>4, <3>1
    <3>3. NotOlder(stood[m.src][m.term], log[n])
      BY <1>2, <3>1, Zenon DEF UpToDate, NotOlder
    <3>4. m.term <= term'[m.src]
      <4>1. term[m.src] \in Nat /\ term'[m.src] >= term[m.src] /\ term'[m.src] \in Nat
        <5>1. term' \in [Nodes -> Terms]
          BY Zenon DEF LogInv, LogsTyped
        <5>2. term[m.src] \in Nat /\ term'[m.src] \in Terms
          BY <1>2, <1>3, <5>1
        <5> QED
          BY <1>2, <1>4, <5>2, TermsAreNat, Zenon
      <4> QED
        BY <1>2, <1>3, <4>1
    <3> QED
      BY <1>1, <1>2, <3>2, <3>3, <3>4, Zenon
  <2> QED
    BY <1>1, <1>4, <2>1, <2>2, <2>3, Zenon DEF Secures, Onward
<1>6. \A x \in msgs' \ msgs : MessageCommits(x, Secured, Chosen, ledger)
  <2>1. PICK g : Reply(m, {RequestVoteReply(n, m.src, t, g)})
    BY <1>1, Zenon
  <2>2. msgs' \ msgs \subseteq {RequestVoteReply(n, m.src, t, g)}
    BY <2>1, ReplyAdds, Zenon
  <2> QED
    BY <2>2, AnswersCommit, Zenon
<1>7. matchIndex' \in [Nodes -> [Nodes -> Nat]] /\ waiting' \subseteq waiting
  BY <1>1, Zenon DEF CommitInv
<1> QED
  BY <1>1, <1>4, <1>5, <1>6, <1>7, IdleCommit, Zenon

\* A leader that commits what it can, on its log as the step leaves it.
LEMMA LeadStep ==
    ASSUME MajorityFacts, ListFacts, ElectionInv, ElectionInv', LogInv, LogInv', CommitInv, Secures,
           NEW n \in Nodes, NEW t \in Terms, NEW l \in Seq(Entry), NEW match \in [Nodes -> Nat],
           role' = [role EXCEPT ![n] = "leader"], term' = [term EXCEPT ![n] = t],
           log' = [log EXCEPT ![n] = l], matchIndex' = [matchIndex EXCEPT ![n] = match],
           CommitAndApply(n, AdvancedCommit(n, t, l, match), l),
           \A p \in Nodes : match[p] # 0 => <<p, t, match[p]>> \in Secured',
           CommittedIn(l, commitIndex[n], Chosen),
           \A m \in msgs' \ msgs : MessageCommits(m, Secured', Chosen', ledger'),
           \A w \in waiting' \ waiting : Proposed(w, ledger')
    PROVE  CommitInv'
<1> DEFINE c == AdvancedCommit(n, t, l, match)
           d == Apply(db[n], l, c)
<1>1. commitIndex' = [commitIndex EXCEPT ![n] = c] /\ db' = [db EXCEPT ![n] = d]
  BY Zenon DEF CommitAndApply
<1>2. /\ term \in [Nodes -> Nat] /\ role \in [Nodes -> {"follower", "candidate", "leader"}]
      /\ log \in [Nodes -> Seq(Entry)] /\ db \in [Nodes -> Seq(Entry)]
      /\ commitIndex \in [Nodes -> Nat] /\ matchIndex \in [Nodes -> [Nodes -> Nat]]
  BY Zenon DEF ElectionInv, ElectionTyped, LogInv, LogsTyped, CommitInv
<1> HIDE DEF c, d
<1>3. /\ role'[n] = "leader" /\ term'[n] = t /\ log'[n] = l /\ matchIndex'[n] = match
      /\ commitIndex'[n] = c /\ db'[n] = d
  BY <1>1, <1>2
<1>4. CommittedIn(l, c, Chosen') /\ d \in Seq(Entry) /\ AppliedFrom(d, t, Chosen', ledger')
  BY <1>3, LeaderCommits, Zenon DEF c, d
<1>5. \A j \in Nodes \ {n} :
         /\ term'[j] = term[j] /\ role'[j] = role[j] /\ log'[j] = log[j]
         /\ matchIndex'[j] = matchIndex[j] /\ commitIndex'[j] = commitIndex[j] /\ db'[j] = db[j]
  BY <1>1, <1>2
<1>6. db' \in [Nodes -> Seq(Entry)] /\ matchIndex' \in [Nodes -> [Nodes -> Nat]]
  BY <1>1, <1>2, <1>4
<1>7. \A j, p \in Nodes : role'[j] = "leader" /\ matchIndex'[j][p] # 0 =>
         \/ /\ role[j] = "leader" /\ term'[j] = term[j]
            /\ matchIndex'[j][p] = matchIndex[j][p]
         \/ <<p, term'[j], matchIndex'[j][p]>> \in Secured'
  <2>1. \A p \in Nodes : matchIndex'[n][p] # 0 => <<p, term'[n], matchIndex'[n][p]>> \in Secured'
    BY <1>3, Zenon
  <2>2. \A j \in Nodes \ {n} : role'[j] = "leader" =>
           role[j] = "leader" /\ term'[j] = term[j] /\ matchIndex'[j] = matchIndex[j]
    BY <1>5, Zenon
  <2> QED
    BY <2>1, <2>2, Zenon
<1>8. \A j \in Nodes : \/ log'[j] = log[j] /\ commitIndex'[j] = commitIndex[j]
                       \/ CommittedIn(log'[j], commitIndex'[j], Chosen')
  BY <1>3, <1>4, <1>5, Zenon
<1>9. \A j \in Nodes : db'[j] = db[j] \/ AppliedFrom(db'[j], term'[j], Chosen', ledger')
  BY <1>3, <1>4, <1>5, Zenon
<1> QED
  BY <1>6, <1>7, <1>8, <1>9, CommitStep, Zenon

\* A leader's log that grows by an entry of its term grows no older, and
\* what was committed in it stays so.
LEMMA GrowSecures ==
    ASSUME LogInv, CommitInv, NEW n \in Nodes, NEW t \in Terms, t >= term[n],
           NEW e \in Entry, e.term = t, log' = [log EXCEPT ![n] = Append(log[n], e)],
           ledger' = [ledger EXCEPT ![t] = Append(log[n], e)],
           ledger[t] = <<>> \/ ledger[t] = log[n],
           \A k \in Nodes : term'[k] >= term[k],
           \A k \in Nodes, u \in Terms :
              stood'[k][u] = stood[k][u] \/ (u > term[k] /\ stood'[k][u] = log[k]),
           \A b \in ballots' \ ballots :
              /\ b.for \in Nodes /\ b.voter \in Nodes /\ b.term \in Terms
              /\ b.term <= term'[b.for]
              /\ NotOlder(stood'[b.for][b.term], log[b.voter])
    PROVE  Secures /\ CommittedIn(Append(log[n], e), commitIndex[n], Chosen)
<1> DEFINE l == log[n]
           k == Append(l, e)
<1>1. /\ l \in Seq(Entry) /\ Len(l) \in Nat /\ term[n] \in Nat /\ t \in Nat
      /\ commitIndex[n] \in Nat /\ Before(l, term[n] + 1)
      /\ CommittedIn(l, commitIndex[n], Chosen)
  <2>1. Before(l, term[n] + 1) /\ CommittedIn(l, commitIndex[n], Chosen)
    BY Zenon DEF LogInv, LogsTraced, CommitInv
  <2>2. l \in Seq(Entry) /\ term[n] \in Nat /\ t \in Nat /\ commitIndex[n] \in Nat
    BY Typing, TermsAreNat, Zenon
  <2> QED
    BY <2>1, <2>2, AppendEntry, Zenon
<1>2. /\ k \in Seq(Entry) /\ Len(k) = Len(l) + 1 /\ k[Len(l) + 1] = e
      /\ \A i \in 1..Len(l) : k[i] = l[i]
  BY <1>1, AppendEntry, Zenon
<1>3. /\ log \in [Nodes -> Seq(Entry)] /\ ledger \in Ledgers
  BY Zenon DEF LogInv, LogsTyped
<1>4. log'[n] = k /\ \A j \in Nodes \ {n} : log'[j] = log[j]
  BY <1>3
<1>5. ledger'[t] = k /\ \A u \in Terms \ {t} : ledger'[u] = ledger[u]
  BY <1>3 DEF Ledgers
<1> HIDE DEF k
<1>6. NotOlder(k, l)
  <2>1. Before(l, t + 1)
    BY <1>1, BeforeLater, Zenon
  <2>2. k[Len(k)].term = t
    BY <1>2
  <2> HIDE DEF l
  <2> QED
    BY <1>1, <1>2, <2>1, <2>2, LongerIsNotOlder, Zenon
<1>7. \A u \in Terms : Starts(ledger[u], ledger'[u])
  <2>1. Starts(<<>>, k) /\ Starts(l, k)
    BY <1>1, <1>2 DEF Starts
  <2>2. \A u \in Terms : Starts(ledger[u], ledger[u])
    BY StartsItself, Zenon
  <2> QED
    BY <1>5, <2>1, <2>2, Zenon
<1>8. \A j \in Nodes : NotOlder(log'[j], log[j])
  BY <1>4, <1>6, Typing, SameIsNotOlder, Zenon
<1>9. CommittedIn(k, commitIndex[n], Chosen)
  <2> HIDE DEF l
  <2>1. CASE commitIndex[n] = 0
    BY <2>1 DEF CommittedIn
  <2>2. CASE commitIndex[n] # 0
    <3>1. commitIndex[n] \in 1..Len(l) /\ <<l[commitIndex[n]].term, commitIndex[n]>> \in Chosen
      BY <1>1, <2>2, Zenon DEF CommittedIn
    <3>2. commitIndex[n] \in 1..Len(k) /\ k[commitIndex[n]] = l[commitIndex[n]]
      BY <1>1, <1>2, <3>1
    <3> QED
      BY <3>1, <3>2, Zenon DEF CommittedIn
  <2> QED
    BY <2>1, <2>2
<1> QED
  BY <1>7, <1>8, <1>9, Zenon DEF Secures, Onward, k

\* A node that stands for election votes for its own log, in a later term.
Stands(n, t) ==
    /\ t \in Terms /\ t > term[n] /\ term' = [term EXCEPT ![n] = t]
    /\ \A k \in Nodes : term'[k] >= term[k]
    /\ stood'[n][t] = log[n]
    /\ \A k \in Nodes, u \in Terms :
          stood'[k][u] = stood[k][u] \/ (u > term[k] /\ stood'[k][u] = log[k])
    /\ \A b \in ballots' \ ballots :
          /\ b.for \in Nodes /\ b.voter \in Nodes /\ b.term \in Terms
          /\ b.term <= term'[b.for]
          /\ NotOlder(stood'[b.for][b.term], log[b.voter])

\* An election timeout does that.
LEMMA StandIs ==
    ASSUME ElectionInv, LogInv, NEW n \in Nodes, Timeout(n)
    PROVE  Stands(n, term[n] + 1)
<1> DEFINE t == term[n] + 1
<1>1. /\ t <= MaxTerm /\ term' = [term EXCEPT ![n] = t]
      /\ stood' = [stood EXCEPT ![n][t] = log[n]]
      /\ ballots' = ballots \cup {Ballot(n, t, n)}
  BY Zenon DEF Timeout, Ballot
<1>2. /\ term \in [Nodes -> Nat] /\ stood \in [Nodes -> Ledgers] /\ log[n] \in Seq(Entry)
  BY Typing, Zenon DEF ElectionInv, ElectionTyped, LogInv, LogsTyped
<1>3. t \in Terms /\ t \in Nat /\ t > term[n] /\ t <= t
  <2>1. t <= MaxTerm /\ term[n] \in Nat /\ MaxTerm \in Nat
    BY <1>1, <1>2, RaftAssumption
  <2> QED
    BY <2>1 DEF Terms
<1> HIDE DEF t
<1>4. term'[n] = t /\ \A k \in Nodes : term'[k] >= term[k]
  <2>1. term' = [term EXCEPT ![n] = t]
    BY <1>1
  <2> QED
    BY <1>2, <1>3, <2>1
<1>5. /\ stood'[n][t] = log[n]
      /\ \A k \in Nodes, u \in Terms : stood'[k][u] = stood[k][u] \/ (k = n /\ u = t)
  BY <1>1, <1>2, <1>3 DEF Ledgers
<1>6. \A k \in Nodes, u \in Terms :
         stood'[k][u] = stood[k][u] \/ (u > term[k] /\ stood'[k][u] = log[k])
  BY <1>3, <1>5, Zenon
<1>7. ASSUME NEW b \in ballots' \ ballots
      PROVE  /\ b.for \in Nodes /\ b.voter \in Nodes /\ b.term \in Terms
             /\ b.term <= term'[b.for]
             /\ NotOlder(stood'[b.for][b.term], log[b.voter])
  <2>1. b.for = n /\ b.voter = n /\ b.term = t
    BY <1>1 DEF Ballot
  <2> QED
    BY <1>2, <1>3, <1>4, <1>5, <2>1, SameIsNotOlder, Zenon
<1> QED
  BY <1>1, <1>3, <1>4, <1>5, <1>6, <1>7, Zenon DEF Stands, t

\* A node that stands and has not won yet.
LEMMA CandidateCommit ==
    ASSUME ElectionInv, LogInv, LogInv', CommitInv, NEW n \in Nodes, Timeout(n), ~HasMajority(1)
    PROVE  CommitInv'
<1> DEFINE t == term[n] + 1
<1>1. /\ role' = [role EXCEPT ![n] = "candidate"]
      /\ msgs' = msgs \cup {RequestVote(n, p, t) : p \in Peers(n)}
      /\ UNCHANGED <<log, matchIndex, commitIndex, db, ledger, waiting>>
  BY Zenon DEF Timeout, Send, leadership, applied, elected
<1>2. Stands(n, t)
  BY StandIs, Zenon
<1> HIDE DEF t
<1>3. /\ term \in [Nodes -> Nat] /\ role \in [Nodes -> {"follower", "candidate", "leader"}]
      /\ term' = [term EXCEPT ![n] = t]
  BY <1>2, Zenon DEF ElectionInv, ElectionTyped, Stands
<1>4. \A k \in Nodes : role'[k] = "leader" => role[k] = "leader" /\ term'[k] = term[k]
  BY <1>1, <1>3
<1>5. Secures
  <2>1. \A u \in Terms : Starts(ledger[u], ledger'[u])
    BY <1>1, StartsItself, Zenon
  <2>2. \A k \in Nodes : NotOlder(log'[k], log[k])
    BY <1>1, Typing, SameIsNotOlder, Zenon
  <2> QED
    BY <1>2, <2>1, <2>2, Zenon DEF Secures, Onward, Stands
<1>6. \A m \in msgs' \ msgs : MessageCommits(m, Secured, Chosen, ledger)
  <2>1. \A p : MessageCommits(RequestVote(n, p, t), Secured, Chosen, ledger)
    BY Zenon DEF MessageCommits, RequestVote
  <2> QED
    BY <1>1, <2>1, Zenon
<1>7. matchIndex' \in [Nodes -> [Nodes -> Nat]] /\ waiting' \subseteq waiting
  BY <1>1, Zenon DEF CommitInv
<1> QED
  BY <1>1, <1>4, <1>5, <1>6, <1>7, IdleCommit, Zenon

\* An election won: the new leader appends its no-op.
LEMMA LeadCommit ==
    ASSUME MajorityFacts, ListFacts, ElectionInv, ElectionInv', ElectionSafety',
           LogInv, LogInv', CommitInv, NEW n \in Nodes, NEW t \in Terms,
           t >= term[n], t = term[n] => role[n] = "candidate",
           term' = [term EXCEPT ![n] = t], BecomeLeader(n, t),
           \A k \in Nodes, u \in Terms :
              stood'[k][u] = stood[k][u] \/ (u > term[k] /\ stood'[k][u] = log[k]),
           \A b \in ballots' \ ballots :
              /\ b.for \in Nodes /\ b.voter \in Nodes /\ b.term \in Terms
              /\ b.term <= term'[b.for]
              /\ NotOlder(stood'[b.for][b.term], log[b.voter]),
           msgs' \ msgs \subseteq Announce(n, t), UNCHANGED waiting
    PROVE  CommitInv'
<1> DEFINE e == [term |-> t, cmd |-> Noop]
           k == Append(log[n], e)
           next == [p \in Nodes |-> Len(log[n]) + 1]
           match == [p \in Nodes |-> 0]
<1>1. /\ role' = [role EXCEPT ![n] = "leader"] /\ log' = [log EXCEPT ![n] = k]
      /\ matchIndex' = [matchIndex EXCEPT ![n] = match]
      /\ CommitAndApply(n, AdvancedCommit(n, t, k, match), k)
      /\ leaders' = leaders \cup {[term |-> t, node |-> n]} /\ ledger' = [ledger EXCEPT ![t] = k]
      /\ msgs' \ msgs \subseteq Broadcast(n, t, k, next, commitIndex[n])
  BY Zenon DEF BecomeLeader, LeaderLog, Announce
<1>2. /\ term \in [Nodes -> Nat] /\ t \in Nat /\ log[n] \in Seq(Entry) /\ commitIndex[n] \in Nat
      /\ ledger \in Ledgers
  BY Typing, TermsAreNat, Zenon DEF ElectionInv, ElectionTyped, LogInv, LogsTyped
<1>3. /\ e \in Entry /\ e.term = t /\ k \in Seq(Entry) /\ Len(log[n]) + 1 \in Nat \ {0}
      /\ Len(log[n]) + 1 <= Len(k) + 1
  BY <1>2, NoopIs, Zenon
<1>4. match \in [Nodes -> Nat] /\ \A p \in Nodes : ~(match[p] # 0)
  OBVIOUS
<1> HIDE DEF e, match
<1>5. ledger[t] = <<>>
  BY <1>1, LedgerFree, Zenon
<1>6. \A j \in Nodes : term'[j] >= term[j]
  BY <1>2
<1>7. Secures /\ CommittedIn(k, commitIndex[n], Chosen)
  BY <1>1, <1>3, <1>5, <1>6, GrowSecures, Zenon
<1> HIDE DEF k
<1>8. Chosen \subseteq Chosen'
  BY <1>7, ChosenStays
<1>9. \A m \in msgs' \ msgs : MessageCommits(m, Secured', Chosen', ledger')
  <2>1. \A p \in Nodes : next[p] \in Nat \ {0} /\ next[p] <= Len(k) + 1
    BY <1>3, Zenon
  <2>2. ledger'[t] = k
    BY <1>1, <1>2 DEF Ledgers
  <2>3. CommittedIn(k, commitIndex[n], Chosen')
    BY <1>7, <1>8, Zenon DEF CommittedIn
  <2> HIDE DEF next
  <2> QED
    BY <1>1, <1>2, <1>3, <2>1, <2>2, <2>3, BroadcastCommits, Zenon
<1>10. waiting' \ waiting = {} /\ k \in Seq(Entry)
  BY <1>3
<1> HIDE DEF next
<1>11. /\ Secures /\ CommittedIn(k, commitIndex[n], Chosen)
       /\ role' = [role EXCEPT ![n] = "leader"] /\ log' = [log EXCEPT ![n] = k]
       /\ matchIndex' = [matchIndex EXCEPT ![n] = match]
       /\ CommitAndApply(n, AdvancedCommit(n, t, k, match), k)
  BY <1>1, <1>7, Zenon
<1>12. /\ \A p \in Nodes : match[p] # 0 => <<p, t, match[p]>> \in Secured'
       /\ \A w \in waiting' \ waiting : Proposed(w, ledger')
  BY <1>4, <1>10, Zenon
<1> QED
  BY <1>4, <1>9, <1>10, <1>11, <1>12, LeadStep, Zenon

\* An election timeout, in a cluster of one or of more.
LEMMA TimeoutCommit ==
    ASSUME MajorityFacts, ListFacts, ElectionInv, ElectionInv', ElectionSafety',
           LogInv, LogInv', CommitInv, NEW n \in Nodes, Timeout(n)
    PROVE  CommitInv'
<1>1. CASE ~HasMajority(1)
  BY <1>1, CandidateCommit
<1>2. CASE HasMajority(1)
  <2> DEFINE t == term[n] + 1
  <2>1. BecomeLeader(n, t) /\ msgs' = msgs \cup Announce(n, t) /\ UNCHANGED waiting
    BY <1>2, Zenon DEF Timeout, Send
  <2>2. Stands(n, t)
    BY StandIs, Zenon
  <2> HIDE DEF t
  <2>3. t \in Terms /\ t > term[n] /\ t \in Nat /\ term[n] \in Nat
    BY <2>2, Typing, TermsAreNat, Zenon DEF Stands
  <2>4. t >= term[n] /\ t # term[n]
    BY <2>3
  <2>5. msgs' \ msgs \subseteq Announce(n, t)
    BY <2>1
  <2> QED
    BY <2>1, <2>2, <2>3, <2>4, <2>5, LeadCommit, Zenon DEF Stands
<1> QED
  BY <1>1, <1>2

\* The reply to a request for a vote.
LEMMA VoteReplyCommit ==
    ASSUME MajorityFacts, ListFacts, ElectionInv, ElectionInv', ElectionSafety',
           LogInv, LogInv', CommitInv, NEW n \in Nodes, NEW m \in msgs, HandleRequestVoteReply(n, m)
    PROVE  CommitInv'
<1>1. CASE m.term > term[n] /\ StepDown(n, m.term) /\ Reply(m, {}) /\ UNCHANGED waiting
  BY <1>1, StepDownCommit, Zenon
<1>2. CASE /\ role[n] = "candidate" /\ BecomeLeader(n, term[n]) /\ Reply(m, Announce(n, term[n]))
           /\ UNCHANGED <<term, stood, ballots, waiting>>
  <2>1. term \in [Nodes -> Terms] /\ term[n] \in Nat /\ term[n] \in Terms
    BY Typing, Zenon DEF LogInv, LogsTyped
  <2>2. term' = [term EXCEPT ![n] = term[n]] /\ term[n] >= term[n]
    BY <1>2, <2>1
  <2>3. msgs' \ msgs \subseteq Announce(n, term[n])
    BY <1>2, ReplyAdds, Zenon
  <2>4. ballots' \ ballots = {}
    BY <1>2
  <2> QED
    BY <1>2, <2>1, <2>2, <2>3, <2>4, LeadCommit, Zenon
<1>3. CASE /\ Reply(m, {})
           /\ UNCHANGED <<term, role, log, stood, ledger, ballots, db, matchIndex, commitIndex, waiting>>
  <2>1. msgs' \ msgs = {} /\ waiting' \subseteq waiting
    BY <1>3, ReplyAdds
  <2> QED
    BY <1>3, <2>1, StillCommit, Zenon
<1> QED
  BY <1>1, <1>2, <1>3, Zenon DEF HandleRequestVoteReply, leadership, applied, elected
=============================================================================
