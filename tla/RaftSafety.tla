----------------------------- MODULE RaftSafety -----------------------------
(***************************************************************************)
(* The safety of Raft for every cluster whose nodes keep their logs in     *)
(* files: the last steps of the invariants, what follows from them, and    *)
(* the theorems.                                                           *)
(***************************************************************************)
EXTENDS RaftLogProofs, RaftCommitProofs, FiniteSetTheorems

-----------------------------------------------------------------------------
(* The last steps of commitment.                                           *)

\* submit() on the leader.
LEMMA SubmitCommit ==
    ASSUME MajorityFacts, ListFacts, ElectionInv, ElectionInv', LogInv, LogInv', CommitInv,
           NEW n \in Nodes, NEW x \in Commands, Submit(n, x)
    PROVE  CommitInv'
<1> DEFINE t == term[n]
           e == [term |-> t, cmd |-> x]
           k == Append(log[n], e)
           match == matchIndex[n]
           call == [node |-> n, index |-> Len(k), entry |-> e]
<1>1. /\ role[n] = "leader" /\ log' = [log EXCEPT ![n] = k] /\ ledger' = [ledger EXCEPT ![t] = k]
      /\ CommitAndApply(n, AdvancedCommit(n, t, k, match), k)
      /\ msgs' = msgs \cup Broadcast(n, t, k, nextIndex[n], commitIndex[n])
      /\ waiting' = waiting \cup {call}
      /\ UNCHANGED <<term, role, matchIndex, ballots, stood>>
  BY Zenon DEF Submit, Send, election, leadership
<1>2. /\ term \in [Nodes -> Terms] /\ role \in [Nodes -> {"follower", "candidate", "leader"}]
      /\ ledger \in Ledgers /\ matchIndex \in [Nodes -> [Nodes -> Nat]]
      /\ nextIndex \in [Nodes -> [Nodes -> Nat \ {0}]]
  BY Zenon DEF ElectionInv, ElectionTyped, LogInv, LogsTyped, CommitInv
<1>3. /\ t \in Terms /\ t \in Nat /\ log[n] \in Seq(Entry) /\ commitIndex[n] \in Nat
      /\ log[n] = ledger[t] /\ \A p \in Nodes : nextIndex[n][p] <= Len(log[n]) + 1
  BY <1>1, Typing, Zenon DEF LogInv, Standing
<1>4. e \in Entry /\ e.term = t
  BY <1>3 DEF Entry
<1> HIDE DEF e, t
<1>5. /\ k \in Seq(Entry) /\ Len(k) = Len(log[n]) + 1 /\ Len(log[n]) \in Nat
      /\ Len(k) \in 1..Len(k) /\ k[Len(k)] = e
  BY <1>3, <1>4
<1>6. /\ t >= term[n] /\ \A j \in Nodes : term'[j] >= term[j]
      /\ ballots' \ ballots = {}
  BY <1>1, <1>3, Typing DEF t
<1>7. Secures /\ CommittedIn(k, commitIndex[n], Chosen)
  BY <1>1, <1>3, <1>4, <1>6, GrowSecures, Zenon
<1> HIDE DEF k
<1>8. Secured \subseteq Secured' /\ Chosen \subseteq Chosen'
  BY <1>7, SecuredStays, ChosenStays
<1>9. ledger'[t] = k
  BY <1>1, <1>2, <1>3 DEF Ledgers
<1>10. \A m \in msgs' \ msgs : MessageCommits(m, Secured', Chosen', ledger')
  <2>1. \A p \in Nodes : nextIndex[n][p] \in Nat \ {0} /\ nextIndex[n][p] <= Len(k) + 1
    BY <1>2, <1>3, <1>5
  <2>2. CommittedIn(k, commitIndex[n], Chosen')
    BY <1>7, <1>8, Zenon DEF CommittedIn
  <2> QED
    BY <1>1, <1>3, <1>5, <1>9, <2>1, <2>2, BroadcastCommits, Zenon
<1>11. \A p \in Nodes : match[p] # 0 => <<p, t, match[p]>> \in Secured'
  BY <1>1, <1>8, Zenon DEF CommitInv, t
<1>12. \A w \in waiting' \ waiting : Proposed(w, ledger')
  <2>1. /\ call.node = n /\ call.index = Len(k) /\ call.entry = e
        /\ call \in [node : Nodes, index : Nat, entry : Entry]
    BY <1>4, <1>5
  <2> HIDE DEF call
  <2>2. Proposed(call, ledger')
    BY <1>3, <1>4, <1>5, <1>9, <2>1 DEF Proposed
  <2> QED
    BY <1>1, <2>2
<1>13. /\ role' = [role EXCEPT ![n] = "leader"] /\ term' = [term EXCEPT ![n] = t]
       /\ matchIndex' = [matchIndex EXCEPT ![n] = match] /\ match \in [Nodes -> Nat]
  BY <1>1, <1>2 DEF t
<1> HIDE DEF match
<1> QED
  BY <1>1, <1>3, <1>5, <1>7, <1>10, <1>11, <1>12, <1>13, LeadStep, Zenon

\* The reply of a follower: what it confirms it has secured.
LEMMA AppendReplyCommit ==
    ASSUME MajorityFacts, ListFacts, ElectionInv, ElectionInv', LogInv, LogInv', CommitInv,
           NEW n \in Nodes, NEW m \in msgs, HandleAppendEntriesReply(n, m)
    PROVE  CommitInv'
<1>1. /\ m.type = "AppendEntriesReply" /\ m.src \in Nodes /\ m.match \in Nat /\ UNCHANGED waiting
      /\ m.success => <<m.src, m.term, m.match>> \in Secured
  BY Zenon DEF ElectionInv, Honest, LogInv, MessagesOK, MessageOK, CommitInv, MessageCommits,
       HandleAppendEntriesReply
<1>2. CASE m.term > term[n] /\ StepDown(n, m.term) /\ Reply(m, {})
  BY <1>1, <1>2, StepDownCommit, Zenon
<1>3. ASSUME NEW next,
             /\ m.term = term[n] /\ role[n] = "leader"
             /\ nextIndex' = [nextIndex EXCEPT ![n][m.src] = next]
             /\ Reply(m, {AppendEntries(n, m.src, term[n], log[n], next, commitIndex[n])})
             /\ UNCHANGED <<persistent, election, matchIndex, applied, history>>
      PROVE  CommitInv'
  <2> DEFINE back == AppendEntries(n, m.src, term[n], log[n], next, commitIndex[n])
  <2>1. UNCHANGED <<term, role, log, stood, ledger, ballots, db, matchIndex, commitIndex>>
    BY <1>3, Zenon DEF persistent, election, applied, history, elected
  <2>2. next \in Nat \ {0} /\ next <= Len(log[n]) + 1
    <3>1. nextIndex \in [Nodes -> [Nodes -> Nat \ {0}]] /\ nextIndex' \in [Nodes -> [Nodes -> Nat \ {0}]]
      BY Zenon DEF LogInv, LogsTyped
    <3>2. nextIndex'[n][m.src] = next
      BY <1>1, <1>3, <3>1
    <3>3. nextIndex'[n][m.src] \in Nat \ {0}
      BY <1>1, <3>1
    <3>4. nextIndex'[n][m.src] <= Len(log'[n]) + 1
      BY <1>1, <1>3, <2>1, Zenon DEF LogInv, Standing
    <3> QED
      BY <2>1, <3>2, <3>3, <3>4, Zenon
  <2>3. MessageCommits(back, Secured, Chosen, ledger)
    BY <1>3, <2>2, LeaderTells, Zenon
  <2>4. msgs' \ msgs \subseteq {back}
    BY <1>3, ReplyAdds, Zenon
  <2> HIDE DEF back
  <2>5. (\A x \in msgs' \ msgs : MessageCommits(x, Secured, Chosen, ledger)) /\ waiting' \subseteq waiting
    BY <1>1, <2>3, <2>4
  <2> QED
    BY <2>1, <2>5, StillCommit, Zenon
<1>4. ASSUME NEW match, match = [matchIndex[n] EXCEPT ![m.src] = m.match],
             /\ m.term = term[n] /\ role[n] = "leader" /\ m.success
             /\ matchIndex' = [matchIndex EXCEPT ![n] = match]
             /\ CommitAndApply(n, AdvancedCommit(n, term[n], log[n], match), log[n])
             /\ Reply(m, {})
             /\ UNCHANGED <<persistent, election, history>>
      PROVE  CommitInv'
  <2>1. UNCHANGED <<term, role, log, stood, ledger, ballots>>
    BY <1>4, Zenon DEF persistent, election, history, elected
  <2>2. /\ term \in [Nodes -> Terms] /\ role \in [Nodes -> {"follower", "candidate", "leader"}]
        /\ log \in [Nodes -> Seq(Entry)] /\ matchIndex \in [Nodes -> [Nodes -> Nat]]
        /\ CommittedIn(log[n], commitIndex[n], Chosen)
    BY Zenon DEF ElectionInv, ElectionTyped, LogInv, LogsTyped, CommitInv
  <2>3. /\ match \in [Nodes -> Nat]
        /\ \A p \in Nodes : match[p] = matchIndex[n][p] \/ (p = m.src /\ match[p] = m.match)
    BY <1>1, <1>4, <2>2
  <2>4. /\ role' = [role EXCEPT ![n] = "leader"] /\ term' = [term EXCEPT ![n] = term[n]]
        /\ log' = [log EXCEPT ![n] = log[n]] /\ term[n] \in Terms /\ log[n] \in Seq(Entry)
    BY <1>4, <2>1, <2>2
  <2>5. Secures
    <3>1. \A k \in Nodes : term'[k] >= term[k]
      BY <2>1, Typing
    <3> QED
      BY <2>1, <3>1, QuietSecures, Zenon
  <2>6. \A p \in Nodes : match[p] # 0 => <<p, term[n], match[p]>> \in Secured'
    <3>1. Secured \subseteq Secured'
      BY <2>5, SecuredStays
    <3>2. \A p \in Nodes : matchIndex[n][p] # 0 => <<p, term[n], matchIndex[n][p]>> \in Secured
      BY <1>4, Zenon DEF CommitInv
    <3> QED
      BY <1>1, <1>4, <2>3, <3>1, <3>2, Zenon
  <2>7. msgs' \ msgs = {} /\ waiting' \ waiting = {}
    BY <1>1, <1>4, ReplyAdds
  <2>8. /\ match \in [Nodes -> Nat] /\ CommittedIn(log[n], commitIndex[n], Chosen)
        /\ matchIndex' = [matchIndex EXCEPT ![n] = match]
        /\ CommitAndApply(n, AdvancedCommit(n, term[n], log[n], match), log[n])
    BY <1>4, <2>2, <2>3, Zenon
  <2> QED
    BY <2>4, <2>5, <2>6, <2>7, <2>8, LeadStep, Zenon
<1>5. CASE ~(m.term > term[n] /\ StepDown(n, m.term) /\ Reply(m, {}))
  <2> DEFINE match == [matchIndex[n] EXCEPT ![m.src] = m.match]
             next == RollBack(nextIndex[n][m.src], m.match)
  <2>1. \/ /\ m.term = term[n] /\ role[n] = "leader" /\ m.success
           /\ matchIndex' = [matchIndex EXCEPT ![n] = match]
           /\ CommitAndApply(n, AdvancedCommit(n, term[n], log[n], match), log[n])
           /\ Reply(m, {})
           /\ UNCHANGED <<persistent, election, history>>
        \/ /\ m.term = term[n] /\ role[n] = "leader"
           /\ nextIndex' = [nextIndex EXCEPT ![n][m.src] = next]
           /\ Reply(m, {AppendEntries(n, m.src, term[n], log[n], next, commitIndex[n])})
           /\ UNCHANGED <<persistent, election, matchIndex, applied, history>>
    BY <1>5, Zenon DEF HandleAppendEntriesReply
  <2>2. match = [matchIndex[n] EXCEPT ![m.src] = m.match]
    OBVIOUS
  <2> HIDE DEF match, next
  <2> QED
    BY <1>3, <1>4, <2>1, <2>2, Zenon
<1> QED
  BY <1>2, <1>5

\* Every step keeps what is committed chosen.
LEMMA CommitNext ==
    ASSUME LogPersisted, MajorityFacts, ListFacts, ElectionInv, ElectionInv', ElectionSafety',
           LogInv, LogInv', CommitInv, [Next]_vars
    PROVE  CommitInv'
<1>1. ASSUME NEW n \in Nodes, NEW m \in msgs, Receive(n, m) PROVE CommitInv'
  BY <1>1, RequestVoteCommit, VoteReplyCommit, RejectCommit, AcceptCommit, AppendReplyCommit, Zenon
     DEF Receive
<1>2. CASE UNCHANGED vars
  <2>1. /\ UNCHANGED <<term, role, log, stood, ledger, ballots, db, matchIndex, commitIndex>>
        /\ waiting' \subseteq waiting /\ msgs' \ msgs = {}
    BY <1>2 DEF vars
  <2> QED
    BY <2>1, StillCommit, Zenon
<1>3. CASE Next
  BY <1>1, <1>3, TimeoutCommit, WaitCommit, SubmitCommit, RestartCommit, CrashCommit, Zenon DEF Next
<1> QED
  BY <1>2, <1>3

\* It holds before anything is proposed.
LEMMA InitCommit == Init => CommitInv
<1> SUFFICES ASSUME Init PROVE CommitInv
  OBVIOUS
<1>1. matchIndex \in [Nodes -> [Nodes -> Nat]] /\ db \in [Nodes -> Seq(Entry)]
  BY DEF Init
<1>2. \A n \in Nodes : commitIndex[n] = 0 /\ db[n] = <<>> /\ role[n] # "leader"
  BY DEF Init
<1>3. ballots = {} /\ msgs = {} /\ waiting = {}
  BY Zenon DEF Init
<1> QED
  BY <1>1, <1>2, <1>3, Zenon DEF CommitInv, CommittedIn, AppliedFrom

-----------------------------------------------------------------------------
(* What the invariants say.                                                *)

\* A leader holds what any node of its term or an earlier one has committed.
LEMMA InvLeaderCompleteness ==
    MajorityFacts /\ ListFacts /\ ElectionInv /\ LogInv /\ CommitInv => LeaderCompleteness
<1> SUFFICES ASSUME MajorityFacts, ListFacts, ElectionInv, LogInv, CommitInv,
                    NEW i \in Nodes, NEW j \in Nodes, role[i] = "leader", term[i] >= term[j],
                    NEW x \in 1..commitIndex[j]
             PROVE  x <= Len(log[i]) /\ log[i][x] = log[j][x]
  BY Zenon DEF LeaderCompleteness
<1> DEFINE l == log[j]
           T == term[i]
           c == commitIndex[j]
<1>1. /\ T \in Terms /\ T \in Nat /\ term[j] \in Nat /\ l \in Seq(Entry) /\ c \in Nat
      /\ ledger[T] \in Seq(Entry) /\ log[i] = ledger[T] /\ CommittedIn(l, c, Chosen)
  BY Typing, Zenon DEF LogInv, Standing, CommitInv
<1>2. ledger \in Ledgers /\ Traced(l, ledger) /\ Before(l, term[j] + 1) /\ ChosenOK(Chosen, ledger)
  BY Complete, Zenon DEF LogInv, LogsTyped, LogsTraced
<1>3. ledger[T] # <<>>
  <2>1. Founded(stood[i][T], T, ledger[T]) /\ stood[i][T] \in Seq(Entry)
    <3>1. [term |-> T, node |-> i] \in leaders
      BY Zenon DEF LogInv, Standing
    <3>2. \A a \in leaders : Founded(stood[a.node][a.term], a.term, ledger[a.term])
      BY Zenon DEF LogInv, LeadersFounded
    <3> HIDE DEF T
    <3> QED
      BY <1>1, <3>1, <3>2, Typing
  <2> QED
    BY <1>1, <2>1 DEF Founded
<1>4. Before(l, T + 1)
  BY <1>1, <1>2, BeforeLater, Zenon
<1>5. c # 0 /\ x \in 1..c
  BY <1>1
<1> HIDE DEF l, T, c
<1>6. c <= Len(ledger[T]) /\ \A y \in 1..c : l[y] = ledger[T][y]
  BY <1>1, <1>2, <1>3, <1>4, <1>5, LedgerHolds
<1>7. Len(ledger[T]) \in Nat
  BY <1>1
<1> QED
  BY <1>1, <1>5, <1>6, <1>7 DEF l

\* Two databases took their entries from ledgers that agree on them.
LEMMA AppliedAgree ==
    ASSUME NEW L \in Ledgers, NEW C, ChosenOK(C, L), NEW d \in Seq(Entry), NEW f \in Seq(Entry),
           NEW t, NEW u, AppliedFrom(d, t, C, L), AppliedFrom(f, u, C, L),
           NEW x \in 1..Len(d), x <= Len(f)
    PROVE  d[x] = f[x]
<1>1. Len(d) \in Nat /\ Len(f) \in Nat /\ x \in 1..Len(f) /\ d # <<>> /\ f # <<>>
  OBVIOUS
<1>2. PICK a \in C : Len(d) <= a[2] /\ d[x] = L[a[1]][x]
  BY <1>1, Zenon DEF AppliedFrom
<1>3. PICK b \in C : Len(f) <= b[2] /\ f[x] = L[b[1]][x]
  BY <1>1, Zenon DEF AppliedFrom
<1>4. a[1] \in Terms /\ a[2] \in 1..Len(L[a[1]]) /\ b[1] \in Terms /\ b[2] \in 1..Len(L[b[1]])
  BY Zenon DEF ChosenOK
<1>5. /\ L[a[1]] \in Seq(Entry) /\ L[b[1]] \in Seq(Entry)
      /\ a[1] \in Nat /\ b[1] \in Nat
  <2>1. \A v \in Terms : L[v] \in Seq(Entry)
    BY DEF Ledgers
  <2> QED
    BY <1>4, <2>1, TermsAreNat, Zenon
<1>6. x \in 1..a[2] /\ x \in 1..b[2] /\ L[a[1]] # <<>> /\ L[b[1]] # <<>>
  <2>1. a[2] \in Nat /\ b[2] \in Nat /\ L[a[1]] # <<>> /\ L[b[1]] # <<>>
    BY <1>4, <1>5, PlaceInLog, Zenon
  <2> QED
    BY <1>1, <1>2, <1>3, <2>1, IndexOfLonger, Zenon
<1>7. CASE a[1] = b[1]
  BY <1>2, <1>3, <1>7
<1>8. CASE a[1] > b[1]
  BY <1>2, <1>3, <1>4, <1>6, <1>8, Zenon DEF ChosenOK
<1>9. CASE b[1] > a[1]
  BY <1>2, <1>3, <1>4, <1>6, <1>9, Zenon DEF ChosenOK
<1> QED
  BY <1>5, <1>7, <1>8, <1>9

\* No two databases differ.
LEMMA InvStateMachineSafety ==
    MajorityFacts /\ ListFacts /\ ElectionInv /\ LogInv /\ CommitInv => StateMachineSafety
<1> SUFFICES ASSUME MajorityFacts, ListFacts, ElectionInv, LogInv, CommitInv,
                    NEW i \in Nodes, NEW j \in Nodes, NEW x \in 1..Len(db[i]), x <= Len(db[j])
             PROVE  db[i][x] = db[j][x]
  BY Zenon DEF StateMachineSafety
<1>1. /\ ledger \in Ledgers /\ ChosenOK(Chosen, ledger) /\ db \in [Nodes -> Seq(Entry)]
      /\ AppliedFrom(db[i], term[i], Chosen, ledger) /\ AppliedFrom(db[j], term[j], Chosen, ledger)
  BY Complete, Zenon DEF LogInv, LogsTyped, CommitInv
<1>2. db[i] \in Seq(Entry) /\ db[j] \in Seq(Entry)
  BY <1>1
<1> QED
  BY <1>1, <1>2, AppliedAgree, Zenon

\* The majority that secured an entry still holds it.
LEMMA InvAppliedIsReplicated ==
    MajorityFacts /\ ListFacts /\ ElectionInv /\ LogInv /\ CommitInv => AppliedIsReplicated
<1> SUFFICES ASSUME MajorityFacts, ListFacts, ElectionInv, LogInv, CommitInv,
                    NEW i \in Nodes, NEW x \in 1..Len(db[i])
             PROVE  HasMajority(Cardinality({j \in Nodes : x <= Len(log[j]) /\ log[j][x] = db[i][x]}))
  BY Zenon DEF AppliedIsReplicated
<1> DEFINE H == {j \in Nodes : x <= Len(log[j]) /\ log[j][x] = db[i][x]}
<1>1. /\ db \in [Nodes -> Seq(Entry)] /\ AppliedFrom(db[i], term[i], Chosen, ledger)
      /\ ChosenOK(Chosen, ledger)
  BY Complete, Zenon DEF CommitInv
<1>2. db[i] \in Seq(Entry)
  BY <1>1
<1>3. db[i] # <<>> /\ Len(db[i]) \in Nat
  BY <1>2
<1>4. PICK c \in Chosen : Len(db[i]) <= c[2] /\ db[i][x] = ledger[c[1]][x]
  BY <1>1, <1>3, Zenon DEF AppliedFrom
<1>5. PICK t \in Terms, k \in Nat : c = <<t, k>>
  BY DEF Chosen
<1>6. k \in 1..Len(ledger[t]) /\ ledger[t][k].term = t /\ Len(db[i]) <= k /\ db[i][x] = ledger[t][x]
  BY <1>4, <1>5 DEF Chosen
<1>7. PICK Q \in SUBSET Nodes : HasMajority(Cardinality(Q)) /\ \A p \in Q : <<p, t, k>> \in Secured
  BY <1>5 DEF Chosen
<1>8. ASSUME NEW p \in Q PROVE p \in H
  <2>1. p \in Nodes /\ AtLeast(log[p], t, k)
    <3>1. p \in Nodes /\ <<p, t, k>> \in Secured
      BY <1>7
    <3> QED
      BY <3>1 DEF Secured
  <2>2. log[p] \in Seq(Entry) /\ Traced(log[p], ledger)
    BY <2>1, Typing, Zenon DEF LogInv, LogsTraced
  <2>3. LastTerm(log[p]) > t =>
           k <= Len(ledger[LastTerm(log[p])]) /\ ledger[LastTerm(log[p])][k].term = t
    <3> SUFFICES ASSUME LastTerm(log[p]) > t
                 PROVE  k <= Len(ledger[LastTerm(log[p])]) /\ ledger[LastTerm(log[p])][k].term = t
      OBVIOUS
    <3> DEFINE w == LastTerm(log[p])
    <3>1. log[p] # <<>>
      <4>1. t \in Nat /\ (log[p] = <<>> => w = 0)
        BY <2>2, LastIs, TermsAreNat, Zenon
      <4> QED
        BY <4>1
    <3>2. Len(log[p]) \in 1..Len(log[p]) /\ w = log[p][Len(log[p])].term
      BY <2>2, <3>1, LastIs, Zenon
    <3>3. w \in Terms /\ Len(log[p]) <= Len(ledger[w])
      BY <2>2, <3>2, Zenon DEF Traced
    <3>4. ledger[w] # <<>> /\ k \in 1..k
      BY <1>6, <3>2, <3>3, Typing
    <3>5. c[1] = t /\ c[2] = k
      BY <1>5
    <3>6. k <= Len(ledger[w]) /\ ledger[w][k] = ledger[t][k]
      BY <1>1, <3>3, <3>4, <3>5, Zenon DEF ChosenOK
    <3> QED
      BY <1>6, <3>6, Zenon
  <2>4. k <= Len(log[p]) /\ \A y \in 1..k : log[p][y] = ledger[t][y]
    BY <1>6, <2>1, <2>2, <2>3, Holds, Zenon
  <2>5. x \in 1..k /\ x <= Len(log[p])
    BY <1>3, <1>6, <2>2, <2>4
  <2> QED
    BY <1>6, <2>1, <2>4, <2>5
<1>9. H \in SUBSET Nodes /\ Q \subseteq H
  BY <1>8
<1> HIDE DEF H
<1>10. HasMajority(Cardinality(H))
  BY <1>7, <1>9, Zenon DEF MajorityFacts
<1> QED
  BY <1>10 DEF H

\* An entry that was proposed in its node's term is what the node applies at
\* its index.
LEMMA InvDelivered ==
    ASSUME MajorityFacts, ListFacts, ElectionInv, LogInv, CommitInv, NEW w \in waiting,
           Applied(w), term[w.node] = w.entry.term
    PROVE  Delivered(w)
<1> DEFINE n == w.node
           x == w.index
           t == w.entry.term
           d == db[n]
<1>1. n \in Nodes /\ x \in Nat /\ t \in Terms /\ x \in 1..Len(ledger[t]) /\ ledger[t][x] = w.entry
  <2>1. Proposed(w, ledger)
    BY Zenon DEF CommitInv
  <2>2. w \in [node : Nodes, index : Nat, entry : Entry]
    BY <2>1, Zenon DEF Proposed
  <2>3. n \in Nodes /\ x \in Nat
    BY <2>2
  <2> QED
    BY <2>1, <2>3, Zenon DEF Proposed
<1>2. /\ db \in [Nodes -> Seq(Entry)] /\ AppliedFrom(d, t, Chosen, ledger)
      /\ ChosenOK(Chosen, ledger)
  BY <1>1, Complete, Zenon DEF CommitInv
<1>3. d \in Seq(Entry) /\ x <= Len(d)
  BY <1>1, <1>2 DEF Applied
<1> HIDE DEF n, x, t, d
<1>4. /\ Len(d) \in Nat /\ Len(ledger[t]) \in Nat /\ t \in Nat
      /\ ledger[t] # <<>> /\ d # <<>> /\ x \in 1..Len(d)
  <2>1. ledger[t] \in Seq(Entry) /\ Len(ledger[t]) \in Nat /\ t \in Nat
    BY <1>1, Typing, TermsAreNat, Zenon
  <2> QED
    BY <1>1, <1>3, <2>1
<1>5. PICK c \in Chosen : c[1] <= t /\ Len(d) <= c[2] /\ d[x] = ledger[c[1]][x]
  BY <1>2, <1>4, Zenon DEF AppliedFrom
<1>6. c[1] \in Nat /\ c[1] \in Terms /\ c[2] \in Nat
  BY ChosenTyped, TermsAreNat, Zenon
<1>7. x \in 1..c[2]
  BY <1>4, <1>5, <1>6, IndexOfLonger, Zenon
<1>8. d[x] = ledger[t][x]
  <2>1. CASE c[1] = t
    BY <1>5, <2>1
  <2>2. CASE c[1] # t
    <3>1. t > c[1]
      BY <1>4, <1>5, <1>6, <2>2, LaterOf, Zenon
    <3> QED
      BY <1>1, <1>2, <1>4, <1>5, <1>7, <3>1, Zenon DEF ChosenOK
  <2> QED
    BY <2>1, <2>2
<1> QED
  BY <1>1, <1>3, <1>8, Zenon DEF Delivered, n, x, t, d

\* Commit indexes only go up, but for a node that starts again: what a
\* leader tells is never past what it sends.
LEMMA CommitRises ==
    ASSUME ListFacts, LogInv, CommitInv, [Next]_vars, NEW n \in Nodes
    PROVE  commitIndex'[n] >= commitIndex[n] \/ Volatile(n)
<1>1. LogsTyped /\ commitIndex \in [Nodes -> Nat] /\ \A k \in Nodes : log[k] \in Seq(Entry)
  BY Typing, Zenon DEF LogInv, LogsTyped
<1>2. commitIndex[n] \in Nat /\ commitIndex[n] >= commitIndex[n]
  BY <1>1
<1>3. ASSUME NEW k \in Nodes, NEW c \in Nat, c >= commitIndex[k],
             commitIndex' = [commitIndex EXCEPT ![k] = c]
      PROVE  commitIndex'[n] >= commitIndex[n]
  BY <1>1, <1>2, <1>3
<1>4. ASSUME NEW k \in Nodes, NEW t, NEW l \in Seq(Entry), NEW match,
             CommitAndApply(k, AdvancedCommit(k, t, l, match), l)
      PROVE  commitIndex'[n] >= commitIndex[n]
  <2> DEFINE c == AdvancedCommit(k, t, l, match)
  <2>1. c \in Nat /\ c >= commitIndex[k]
    BY <1>1, AdvancedIs, Zenon
  <2> QED
    BY <1>3, <1>4, <2>1, Zenon DEF CommitAndApply
<1>5. ASSUME NEW k \in Nodes, NEW t \in Nat, BecomeLeader(k, t) PROVE commitIndex'[n] >= commitIndex[n]
  <2> DEFINE l == Append(log[k], [term |-> t, cmd |-> Noop])
             match == [p \in Nodes |-> 0]
  <2>1. CommitAndApply(k, AdvancedCommit(k, t, l, match), l)
    BY <1>5, Zenon DEF BecomeLeader, LeaderLog
  <2>2. [term |-> t, cmd |-> Noop] \in Entry
    BY DEF Entry
  <2>3. l \in Seq(Entry)
    BY <1>1, <2>2
  <2> HIDE DEF l, match
  <2> QED
    BY <1>4, <2>1, <2>3, Zenon
<1>6. ASSUME NEW k \in Nodes, Volatile(k) PROVE commitIndex'[n] >= commitIndex[n] \/ Volatile(n)
  <2>1. CASE k = n
    BY <1>6, <2>1
  <2>2. CASE k # n
    BY <1>1, <1>2, <1>6, <2>2 DEF Volatile
  <2> QED
    BY <2>1, <2>2
<1>7. ASSUME NEW k \in Nodes, NEW x \in Commands, Submit(k, x) PROVE commitIndex'[n] >= commitIndex[n]
  <2> DEFINE e == [term |-> term[k], cmd |-> x]
             l == Append(log[k], e)
  <2>1. CommitAndApply(k, AdvancedCommit(k, term[k], l, matchIndex[k]), l)
    BY <1>7, Zenon DEF Submit
  <2>2. e \in Entry
    BY Typing DEF Entry
  <2>3. l \in Seq(Entry)
    BY <1>1, <2>2
  <2> HIDE DEF l
  <2> QED
    BY <1>4, <2>1, <2>3, Zenon
<1>8. ASSUME NEW k \in Nodes, NEW m \in msgs, Accept(k, m) PROVE commitIndex'[n] >= commitIndex[n]
  <2>1. /\ m.commit \in Nat /\ m.prevIndex \in Nat /\ m.entries \in Seq(Entry)
        /\ commitIndex' = [commitIndex EXCEPT ![k] = FollowerCommit(k, m)] /\ m.commit <= Last(m)
    BY <1>8, Zenon DEF Accept, CommitAndApply, LogInv, MessagesOK, MessageOK, CommitInv, MessageCommits
  <2>2. commitIndex[k] \in Nat
    BY <1>1
  <2>3. FollowerCommit(k, m) \in Nat /\ FollowerCommit(k, m) >= commitIndex[k]
    BY <2>1, <2>2 DEF FollowerCommit, Last
  <2> QED
    BY <1>3, <2>1, <2>3, Zenon
<1>9. ASSUME commitIndex' = commitIndex PROVE commitIndex'[n] >= commitIndex[n]
  BY <1>2, <1>9
<1>10. ASSUME NEW k \in Nodes, NEW m \in msgs, Receive(k, m) PROVE commitIndex'[n] >= commitIndex[n]
  <2>1. CASE HandleAppendEntriesReply(k, m)
    BY <1>1, <1>4, <1>9, <2>1, Zenon DEF HandleAppendEntriesReply, StepDown, applied
  <2>2. CASE HandleRequestVoteReply(k, m)
    BY <1>5, <1>9, <2>2, Typing, Zenon DEF HandleRequestVoteReply, StepDown, applied
  <2>3. CASE HandleRequestVote(k, m) \/ RejectStale(k, m) \/ RejectMismatch(k, m)
    BY <1>9, <2>3, Zenon DEF HandleRequestVote, RejectStale, RejectMismatch, applied
  <2> QED
    BY <1>8, <1>10, <2>1, <2>2, <2>3, Zenon DEF Receive
<1>11. ASSUME NEW k \in Nodes, Timeout(k) PROVE commitIndex'[n] >= commitIndex[n]
  <2>1. term[k] + 1 \in Nat
    BY Typing
  <2> QED
    BY <1>5, <1>9, <1>11, <2>1, Zenon DEF Timeout, applied
<1>12. CASE UNCHANGED vars
  BY <1>9, <1>12 DEF vars
<1>13. CASE Next
  <2>1. ASSUME NEW k \in Nodes, Heartbeat(k) \/ \E w \in waiting : Return(w) \/ GiveUp(w)
        PROVE  commitIndex'[n] >= commitIndex[n]
    BY <1>9, <2>1, Zenon DEF Heartbeat, Return, GiveUp, applied
  <2> QED
    BY <1>6, <1>7, <1>10, <1>11, <1>13, <2>1, Zenon DEF Next, Restart, CrashInAccept
<1> QED
  BY <1>12, <1>13

-----------------------------------------------------------------------------
(* The last steps of the logs.                                             *)

\* An election timeout, in a cluster of one or of more.
LEMMA TimeoutLog ==
    ASSUME ListFacts, ElectionInv, ElectionSafety', LogInv, NEW n \in Nodes, Timeout(n)
    PROVE  LogInv'
<1>1. CASE ~HasMajority(1)
  BY <1>1, CandidateLog
<1>2. CASE HasMajority(1)
  <2> DEFINE t == term[n] + 1
  <2>1. /\ t <= MaxTerm /\ term' = [term EXCEPT ![n] = t] /\ stood' = [stood EXCEPT ![n][t] = log[n]]
        /\ BecomeLeader(n, t) /\ msgs' = msgs \cup Announce(n, t)
    BY <1>2 DEF Timeout, Send
  <2>2. /\ stood \in [Nodes -> Ledgers] /\ log[n] \in Seq(Entry) /\ term[n] \in Nat
    BY DEF LogInv, LogsTyped, ElectionInv, ElectionTyped
  <2>3. t \in Terms /\ t > term[n] /\ t >= term[n] /\ t # term[n]
    BY <2>1, <2>2, RaftAssumption DEF Terms
  <2> HIDE DEF t
  <2>4. /\ stood' \in [Nodes -> Ledgers] /\ stood'[n][t] = log[n]
        /\ \A j \in Nodes, u \in Terms : stood'[j][u] = stood[j][u] \/ (j = n /\ u = t)
    BY <2>1, <2>2, <2>3 DEF Ledgers
  <2>5. \A j \in Nodes, u \in Terms :
           stood'[j][u] = stood[j][u] \/ (u > term[j] /\ stood'[j][u] = log[j])
    BY <2>3, <2>4, Zenon
  <2>6. msgs' \ msgs \subseteq Announce(n, t)
    BY <2>1
  <2> QED
    BY <2>1, <2>3, <2>4, <2>5, <2>6, LeadLog, Zenon
<1> QED
  BY <1>1, <1>2

\* The reply to a request for a vote.
LEMMA VoteReplyLog ==
    ASSUME ListFacts, ElectionInv, ElectionSafety', LogInv, NEW n \in Nodes, NEW m \in msgs,
           HandleRequestVoteReply(n, m)
    PROVE  LogInv'
<1>0. /\ stood \in [Nodes -> Ledgers] /\ term \in [Nodes -> Terms] /\ term[n] \in Nat
      /\ commitIndex \in [Nodes -> Nat]
  BY DEF LogInv, LogsTyped, ElectionInv, ElectionTyped
<1>1. CASE m.term > term[n] /\ StepDown(n, m.term) /\ Reply(m, {})
  BY <1>1, StepDownLog
<1>2. CASE /\ role[n] = "candidate" /\ BecomeLeader(n, term[n]) /\ Reply(m, Announce(n, term[n]))
           /\ UNCHANGED <<term, stood>>
  <2>1. log[n] = stood[n][term[n]]
    BY <1>2, Zenon DEF LogInv, Standing
  <2>2. term' = [term EXCEPT ![n] = term[n]] /\ term[n] \in Terms /\ term[n] >= term[n]
    BY <1>0, <1>2
  <2>3. msgs' \ msgs \subseteq Announce(n, term[n])
    BY <1>2, ReplyAdds
  <2> QED
    BY <1>0, <1>2, <2>1, <2>2, <2>3, LeadLog, Zenon
<1>3. CASE /\ Reply(m, {})
           /\ UNCHANGED <<term, stood, log, role, nextIndex, commitIndex, leaders, ledger>>
  <2>1. \A x \in msgs' \ msgs : MessageOK(x, term, stood, ledger)
    BY <1>3, ReplyAdds
  <2> QED
    BY <1>0, <1>3, <2>1, IdleStep, Zenon
<1> QED
  BY <1>1, <1>2, <1>3 DEF HandleRequestVoteReply, leadership, applied, elected

\* Nothing happens.
LEMMA StutterLog ==
    ASSUME ElectionInv, LogInv, UNCHANGED vars
    PROVE  LogInv'
<1>1. UNCHANGED <<term, role, nextIndex, leaders, ledger, stood, log, commitIndex, msgs>>
  BY DEF vars
<1>2. commitIndex' \in [Nodes -> Nat]
  BY <1>1, Zenon DEF LogInv, LogsTyped
<1> QED
  BY <1>1, <1>2, IdleStep

\* Election safety after a step.
LEMMA SafetyNext ==
    ASSUME MajorityFacts, ElectionInv' PROVE ElectionSafety'
<1>1. (MajorityFacts /\ ElectionInv => ElectionSafety)'
  BY InvElectionSafety, PTL
<1>2. MajorityFacts'
  BY DEF MajorityFacts, HasMajority
<1> QED
  BY <1>1, <1>2

\* Every step keeps every log traced to its leaders.
LEMMA LogNext ==
    ASSUME LogPersisted, MajorityFacts, ListFacts, ElectionInv, LogInv, [Next]_vars
    PROVE  LogInv'
<1>1. ElectionSafety'
  BY ElectionNext, SafetyNext
<1>2. ASSUME NEW n \in Nodes, NEW m \in msgs, Receive(n, m) PROVE LogInv'
  BY <1>1, <1>2, RequestVoteLog, VoteReplyLog, RejectLog, AcceptLog, AppendReplyLog DEF Receive
<1>3. CASE UNCHANGED vars
  BY <1>3, StutterLog
<1>4. CASE Next
  BY <1>1, <1>2, <1>4, TimeoutLog, WaitLog, SubmitLog, RestartLog, CrashLog DEF Next
<1> QED
  BY <1>3, <1>4

\* It holds before the first election.
LEMMA InitLog == Init => LogInv
<1> SUFFICES ASSUME Init PROVE LogInv
  OBVIOUS
<1>1. LogsTyped
  <2>1. 0 \in Terms /\ <<>> \in Seq(Entry)
    BY RaftAssumption DEF Terms
  <2> QED
    BY <2>1 DEF Init, LogsTyped, Ledgers, Terms
<1>2. LogsTraced
  BY DEF Init, LogsTraced, Traced, Before, Terms
<1> QED
  BY <1>1, <1>2 DEF Init, LogInv, LeadersFounded, Standing, MessagesOK, Terms

\* Traced logs match.
LEMMA InvLogMatching == LogInv => LogMatching
<1> SUFFICES ASSUME LogInv, NEW i \in Nodes, NEW j \in Nodes, NEW x \in 1..Len(log[i]),
                    x <= Len(log[j]), log[i][x].term = log[j][x].term
             PROVE  SubSeq(log[i], 1, x) = SubSeq(log[j], 1, x)
  BY DEF LogMatching
<1>1. /\ log[i] \in Seq(Entry) /\ log[j] \in Seq(Entry)
      /\ Traced(log[i], ledger) /\ Traced(log[j], ledger)
  BY Zenon DEF LogInv, LogsTyped, LogsTraced
<1>2. x \in 1..Len(log[j])
  BY <1>1
<1>3. \A y \in 1..x : log[i][y] = log[j][y]
  BY <1>1, <1>2, TracedSame
<1> QED
  BY <1>1, <1>2, <1>3, SameBeginning, Zenon

-----------------------------------------------------------------------------
(* The facts the steps assume.                                             *)

\* Sets of nodes are counted by natural numbers (_has_majority).
LEMMA NodesCounted ==
    ASSUME NEW P \in SUBSET Nodes
    PROVE  /\ IsFiniteSet(P) /\ Cardinality(P) \in Nat /\ Cardinality(Nodes) \in Nat
           /\ IsFiniteSet(Nodes)
  BY FS_Subset, FS_CardinalityType, RaftAssumption

\* Two majorities have a node in common, and what holds a majority is one.
LEMMA MajorityIs == MajorityFacts
<1>1. ASSUME NEW P \in SUBSET Nodes, NEW Q \in SUBSET Nodes,
             HasMajority(Cardinality(P)), HasMajority(Cardinality(Q))
      PROVE  P \cap Q # {}
  <2>1. /\ Cardinality(P) \in Nat /\ Cardinality(Q) \in Nat /\ Cardinality(Nodes) \in Nat
        /\ IsFiniteSet(Nodes)
    BY NodesCounted
  <2>2. Cardinality(P) + Cardinality(Q) > Cardinality(Nodes)
    BY <1>1, <2>1 DEF HasMajority
  <2> QED
    BY <2>1, <2>2, FS_MajoritiesIntersect
<1>2. ASSUME NEW P \in SUBSET Nodes, NEW Q \in SUBSET Nodes,
             HasMajority(Cardinality(P)), P \subseteq Q
      PROVE  HasMajority(Cardinality(Q))
  <2>1. /\ Cardinality(P) \in Nat /\ Cardinality(Q) \in Nat /\ Cardinality(Nodes) \in Nat
        /\ IsFiniteSet(Q)
    BY NodesCounted
  <2>2. Cardinality(P) <= Cardinality(Q)
    BY <1>2, <2>1, FS_Subset
  <2> QED
    BY <1>2, <2>1, <2>2 DEF HasMajority
<1>3. ASSUME NEW P \in SUBSET Nodes, NEW n \in Nodes, n \notin P
      PROVE  Cardinality(P \cup {n}) = 1 + Cardinality(P)
  <2>1. IsFiniteSet(P) /\ Cardinality(P) \in Nat
    BY NodesCounted
  <2>2. Cardinality(P \cup {n}) = Cardinality(P) + 1
    BY <1>3, <2>1, FS_AddElement, Zenon
  <2> QED
    BY <2>1, <2>2
<1>4. \A n \in Nodes : Cardinality({n}) = 1
  BY FS_Singleton, Zenon
<1> QED
  BY <1>1, <1>2, <1>3, <1>4 DEF MajorityFacts

\* A set of positions has a smallest one.
LEMMA LeastExists ==
    ASSUME NEW S \in SUBSET Nat, S # {}
    PROVE  \E k \in S : \A j \in S : k <= j
<1> DEFINE R == {ss \in Nat \X Nat : ss[1] < ss[2]}
<1>1. IsWellFoundedOn(R, Nat)
  <2>1. R = OpToRel(<, Nat)
    BY Zenon DEF OpToRel
  <2> QED
    BY <2>1, NatLessThanWellFounded, Zenon
<1>2. PICK k \in S : \A j \in S : ~ (<<j, k>> \in R)
  <2> HIDE DEF R
  <2> QED
    BY <1>1, WFMin, Zenon
<1>3. ASSUME NEW j \in S PROVE k <= j
  <2>1. k \in Nat /\ j \in Nat /\ (<<j, k>> \in R <=> j < k)
    OBVIOUS
  <2>2. ~(j < k)
    BY <1>2, <2>1
  <2> QED
    BY <2>1, <2>2
<1> QED
  BY <1>3

\* Sequences, and the least and the greatest of a set of positions.
LEMMA ListIs == ListFacts
<1>1. \A a, b \in Seq(Entry) : a \o b \in Seq(Entry) /\ Len(a \o b) = Len(a) + Len(b)
  OBVIOUS
<1>2. \A a, b \in Seq(Entry) : \A i \in 1..Len(a) + Len(b) :
         (a \o b)[i] = IF i <= Len(a) THEN a[i] ELSE b[i - Len(a)]
  OBVIOUS
<1>3. ASSUME NEW S \in SUBSET Nat, NEW b \in Nat, S # {}, \A j \in S : j <= b
      PROVE  \E k \in S : \A j \in S : k >= j
  <2> DEFINE D == {i \in Nat : b - i \in S}
  <2>1. PICK s \in S : TRUE
    BY <1>3, Zenon
  <2>2. b - s \in Nat /\ b - (b - s) = s
    BY <1>3
  <2>3. b - s \in D
    BY <2>2
  <2>4. D \in SUBSET Nat /\ D # {}
    BY <2>3, Zenon
  <2>5. PICK i \in D : \A j \in D : i <= j
    <3> HIDE DEF D
    <3> QED
      BY <2>4, LeastExists
  <2>6. ASSUME NEW j \in S PROVE b - i >= j
    <3>1. b - j \in Nat /\ b - (b - j) = j
      BY <1>3
    <3>2. i <= b - j /\ i \in Nat
      BY <2>5, <3>1
    <3> QED
      BY <3>1, <3>2
  <2> QED
    BY <2>6
<1> QED
  BY <1>1, <1>2, <1>3, LeastExists, Zenon DEF ListFacts

-----------------------------------------------------------------------------
(* The theorems.                                                           *)

\* A step keeps the three invariants together.
LEMMA SafetyStep ==
    ASSUME LogPersisted, RaftInv, [Next]_vars PROVE RaftInv'
<1>1. MajorityFacts /\ ListFacts /\ ElectionInv /\ LogInv /\ CommitInv
  BY MajorityIs, ListIs, Zenon DEF RaftInv
<1>2. ElectionInv'
  BY <1>1, ElectionNext, Zenon
<1>3. ElectionSafety'
  BY <1>1, <1>2, SafetyNext, Zenon
<1>4. LogInv'
  BY <1>1, LogNext, Zenon
<1>5. CommitInv'
  BY <1>1, <1>2, <1>3, <1>4, CommitNext, Zenon
<1> QED
  BY <1>2, <1>4, <1>5, Zenon DEF RaftInv

\* The invariants of elections, logs and commitment hold throughout, whatever
\* the size of the cluster and whatever is lost, delayed, repeated or
\* restarted.
THEOREM RaftInvariance == LogPersisted /\ Spec => []RaftInv
<1> SUFFICES ASSUME LogPersisted PROVE Spec => []RaftInv
  OBVIOUS
<1>1. Init => RaftInv
  BY InitElection, InitLog, InitCommit, Zenon DEF RaftInv
<1>2. RaftInv /\ [Next]_vars => RaftInv'
  BY SafetyStep, Zenon
<1> QED
  BY <1>1, <1>2, PTL DEF Spec

\* Every variable of a node keeps its type: indexes stay natural numbers, and
\* next_index stays positive however often a leader steps it back.
THEOREM TypesHold == LogPersisted /\ Spec => []TypeOK
<1>1. RaftInv => TypeOK
  <2> SUFFICES ASSUME RaftInv PROVE TypeOK
    OBVIOUS
  <2>1. ElectionTyped /\ LogsTyped /\ CommitInv
    BY Zenon DEF RaftInv, ElectionInv, LogInv
  <2>2. matchIndex \in [Nodes -> [Nodes -> Nat]] /\ db \in [Nodes -> Seq(Entry)]
    BY <2>1, Zenon DEF CommitInv
  <2>3. waiting \subseteq [node : Nodes, index : Nat, entry : Entry]
    BY <2>1, Zenon DEF CommitInv, Proposed
  <2> QED
    BY <2>1, <2>2, <2>3, Zenon DEF TypeOK, ElectionTyped, LogsTyped
<1> QED
  BY <1>1, RaftInvariance, PTL

\* With a log file a term has at most one leader and a node votes at most once
\* in it (_handle_request_vote, _become_leader).
THEOREM OneLeaderPerTerm == LogPersisted /\ Spec => []ElectionSafety
<1>1. RaftInv => ElectionSafety
  BY MajorityIs, InvElectionSafety, Zenon DEF RaftInv
<1> QED
  BY <1>1, RaftInvariance, PTL

\* With a log file, logs that hold an entry of the same term at the same
\* index are equal up to it (append_from and the prev_log check).
THEOREM LogsMatch == LogPersisted /\ Spec => []LogMatching
<1>1. RaftInv => LogMatching
  BY InvLogMatching, Zenon DEF RaftInv
<1> QED
  BY <1>1, RaftInvariance, PTL

\* With a log file, a leader's log has all that any node of its term or an
\* earlier one has committed (the up-to-date restriction on votes, and a
\* leader that counts only entries of its own term).
THEOREM LeadersAreComplete == LogPersisted /\ Spec => []LeaderCompleteness
<1>1. RaftInv => LeaderCompleteness
  BY MajorityIs, ListIs, InvLeaderCompleteness, Zenon DEF RaftInv
<1> QED
  BY <1>1, RaftInvariance, PTL

\* With a log file, no two databases ever apply different entries at the same
\* index, a crash between applying and saving the log included.
THEOREM DatabasesAgree == LogPersisted /\ Spec => []StateMachineSafety
<1>1. RaftInv => StateMachineSafety
  BY MajorityIs, ListIs, InvStateMachineSafety, Zenon DEF RaftInv
<1> QED
  BY <1>1, RaftInvariance, PTL

\* With a log file, whatever a database has applied is still in the saved logs
\* of a majority.
THEOREM AppliedStaysReplicated == LogPersisted /\ Spec => []AppliedIsReplicated
<1>1. RaftInv => AppliedIsReplicated
  BY MajorityIs, ListIs, InvAppliedIsReplicated, Zenon DEF RaftInv
<1> QED
  BY <1>1, RaftInvariance, PTL

\* With a log file, the commit index of a node that does not start again never
\* goes back and never passes its log, whatever old or reordered AppendEntries
\* reach it.
THEOREM CommitNeverGoesBack == LogPersisted /\ Spec => CommitMonotonic
<1> DEFINE Rises == \A n \in Nodes :
              \/ commitIndex'[n] >= commitIndex[n] /\ commitIndex'[n] <= Len(log'[n])
              \/ Volatile(n)
<1>1. ASSUME RaftInv, RaftInv', [Next]_vars PROVE Rises
  <2> SUFFICES ASSUME NEW n \in Nodes
               PROVE  \/ commitIndex'[n] >= commitIndex[n] /\ commitIndex'[n] <= Len(log'[n])
                      \/ Volatile(n)
    OBVIOUS
  <2>1. commitIndex'[n] >= commitIndex[n] \/ Volatile(n)
    BY <1>1, ListIs, CommitRises, Zenon DEF RaftInv
  <2>2. CommittedIn(log'[n], commitIndex'[n], Chosen') /\ log'[n] \in Seq(Entry)
    BY <1>1, Zenon DEF RaftInv, CommitInv, LogInv, LogsTyped
  <2>3. Len(log'[n]) \in Nat
    BY <2>2
  <2>4. commitIndex'[n] <= Len(log'[n])
    BY <2>2, <2>3 DEF CommittedIn
  <2> QED
    BY <2>1, <2>4
<1>2. RaftInv /\ RaftInv' /\ [Next]_vars => [Rises]_vars
  BY <1>1
<1>3. LogPersisted /\ Spec => [][Rises]_vars
  BY <1>2, RaftInvariance, PTL DEF Spec
<1> QED
  BY <1>3 DEF CommitMonotonic

\* With a log file, a submit() that returns while its node still leads the
\* term it proposed in has had its own entry applied.
THEOREM SubmitIsApplied == LogPersisted /\ Spec => SubmitAppliesWhileLeading
<1> DEFINE Applies == \A w \in waiting :
              Return(w) /\ role[w.node] = "leader" /\ term[w.node] = w.entry.term => Delivered(w)
<1>1. ASSUME RaftInv PROVE Applies
  <2> SUFFICES ASSUME NEW w \in waiting, Return(w), term[w.node] = w.entry.term
               PROVE  Delivered(w)
    OBVIOUS
  <2>1. Applied(w)
    BY Zenon DEF Return
  <2> QED
    BY <1>1, <2>1, MajorityIs, ListIs, InvDelivered, Zenon DEF RaftInv
<1>2. RaftInv => [Applies]_vars
  BY <1>1
<1>3. LogPersisted /\ Spec => [][Applies]_vars
  BY <1>2, RaftInvariance, PTL
<1> QED
  BY <1>3 DEF SubmitAppliesWhileLeading
=============================================================================
