--------------------------- MODULE RaftLogProofs ----------------------------
(***************************************************************************)
(* Log matching: every log is traced to the logs of the leaders that wrote *)
(* its entries (the history variable `ledger`), and what a leader sends is *)
(* a stretch of its ledger.                                                *)
(***************************************************************************)
EXTENDS RaftProofs

-----------------------------------------------------------------------------
(* Steps.                                                                  *)

\* A leader that is refused (HandleAppendEntriesReply) backs nextIndex off, never below 1 and
\* never past the end of its log.
LEMMA RollBackIs ==
    \A x \in Nat \ {0}, y, len \in Nat :
        x <= len + 1 => RollBack(x, y) \in Nat \ {0} /\ RollBack(x, y) <= len + 1
BY DEF RollBack

\* What was sent stays true.
LEMMA MessagesStay ==
    ASSUME ElectionInv, LogInv, LogsTyped', Onward, NEW m \in msgs
    PROVE  MessageOK(m, term', stood', ledger')
<1>1. /\ MessageOK(m, term, stood, ledger) /\ m.src \in Nodes
      /\ m.term \in Terms
  BY DEF ElectionInv, Honest, LogInv, MessagesOK, MessageOK
<1>2. /\ term[m.src] \in Nat /\ term'[m.src] \in Nat /\ term'[m.src] >= term[m.src]
      /\ m.term \in Nat
  <2>1. term \in [Nodes -> Terms] /\ term' \in [Nodes -> Terms]
    BY Zenon DEF LogInv, LogsTyped
  <2> QED
    BY <1>1, <2>1, TermsAreNat, Zenon DEF Onward
<1>3. /\ Len(ledger[m.term]) \in Nat /\ Len(ledger'[m.term]) \in Nat
      /\ Len(ledger[m.term]) <= Len(ledger'[m.term])
      /\ \A y \in 1..Len(ledger[m.term]) : ledger[m.term][y] = ledger'[m.term][y]
  <2>1. ledger \in Ledgers /\ ledger' \in Ledgers
    BY DEF LogInv, LogsTyped
  <2>2. Len(ledger[m.term]) \in Nat /\ Len(ledger'[m.term]) \in Nat
    BY <1>1, <2>1 DEF Ledgers
  <2>3. Starts(ledger[m.term], ledger'[m.term])
    BY <1>1 DEF Onward
  <2> QED
    BY <2>2, <2>3 DEF Starts
<1>4. CASE m.type = "RequestVote"
  <2>1. m.term <= term[m.src] /\ stood'[m.src][m.term] = stood[m.src][m.term]
    BY <1>1, <1>2, <1>4 DEF MessageOK, Onward
  <2> QED
    BY <1>1, <1>2, <1>4, <2>1 DEF MessageOK
<1>5. CASE m.type = "AppendEntries"
  <2>1. /\ m.prevIndex \in Nat /\ m.entries \in Seq(Entry) /\ m.commit \in Nat
        /\ Last(m) \in 1..Len(ledger[m.term]) /\ ledger[m.term][Last(m)].term = m.term
        /\ m.prevTerm = TermAt(ledger[m.term], m.prevIndex)
        /\ \A j \in 1..Len(m.entries) : m.entries[j] = ledger[m.term][m.prevIndex + j]
    BY <1>1, <1>5 DEF MessageOK
  <2>2. Len(m.entries) \in Nat /\ m.prevIndex <= Len(ledger[m.term])
    BY <1>3, <2>1 DEF Last
  <2>3. m.prevTerm = TermAt(ledger'[m.term], m.prevIndex)
    BY <1>3, <2>1, <2>2 DEF TermAt
  <2>4. Last(m) \in 1..Len(ledger'[m.term]) /\ ledger'[m.term][Last(m)].term = m.term
    BY <1>3, <2>1
  <2>5. ASSUME NEW j \in 1..Len(m.entries)
        PROVE  m.entries[j] = ledger'[m.term][m.prevIndex + j]
    <3>1. m.prevIndex + j \in 1..Len(ledger[m.term])
      BY <1>3, <2>1, <2>2 DEF Last
    <3> QED
      BY <1>3, <2>1, <3>1, Zenon
  <2> QED
    BY <1>1, <1>5, <2>1, <2>3, <2>4, <2>5 DEF MessageOK
<1>6. CASE m.type = "AppendEntriesReply"
  BY <1>1, <1>3, <1>6 DEF MessageOK
<1> QED
  BY <1>1, <1>4, <1>5, <1>6 DEF MessageOK

\* The step lemma: new logs and ledgers are traced, new messages are right.
LEMMA LogStep ==
    ASSUME ElectionInv, LogInv, LogsTyped', Onward, LeadersFounded', Standing',
           \A t \in Terms : ledger'[t] = ledger[t] \/ Traced(ledger'[t], ledger'),
           \A k \in Nodes : \/ log'[k] = log[k]
                            \/ Traced(log'[k], ledger') /\ Before(log'[k], term'[k] + 1),
           \A m \in msgs' \ msgs : MessageOK(m, term', stood', ledger')
    PROVE  LogInv'
<1>1. /\ ledger \in Ledgers /\ ledger' \in Ledgers
      /\ \A k \in Nodes : /\ log[k] \in Seq(Entry) /\ stood[k] \in Ledgers /\ stood'[k] \in Ledgers
                          /\ term[k] \in Nat /\ term'[k] \in Nat /\ term'[k] >= term[k]
  BY RaftAssumption DEF LogInv, LogsTyped, Terms, Onward
<1>2. ASSUME NEW l \in Seq(Entry), Traced(l, ledger) PROVE Traced(l, ledger')
  BY <1>1, <1>2, TracedGrows DEF Onward
<1>3. ASSUME NEW l \in Seq(Entry), NEW t \in Nat, NEW u \in Nat, Before(l, t), t <= u
      PROVE  Before(l, u)
  BY <1>3, EntryTerms DEF Before
<1>4. ASSUME NEW k \in Nodes PROVE Traced(log'[k], ledger') /\ Before(log'[k], term'[k] + 1)
  <2>1. CASE log'[k] = log[k]
    <3>1. Traced(log[k], ledger) /\ Before(log[k], term[k] + 1)
      BY DEF LogInv, LogsTraced
    <3>2. term[k] + 1 \in Nat /\ term'[k] + 1 \in Nat /\ term[k] + 1 <= term'[k] + 1
      BY <1>1
    <3> QED
      BY <1>1, <1>2, <1>3, <2>1, <3>1, <3>2
  <2> QED
    BY <2>1
<1>5. ASSUME NEW k \in Nodes, NEW t \in Terms
      PROVE  Traced(stood'[k][t], ledger') /\ Before(stood'[k][t], t)
  <2>1. CASE stood'[k][t] = stood[k][t]
    <3>1. Traced(stood[k][t], ledger) /\ Before(stood[k][t], t) /\ stood[k][t] \in Seq(Entry)
      BY <1>1 DEF LogInv, LogsTraced, Ledgers
    <3> QED
      BY <1>2, <2>1, <3>1
  <2>2. CASE t > term[k] /\ stood'[k][t] = log[k]
    <3>1. Traced(log[k], ledger) /\ Before(log[k], term[k] + 1)
      BY DEF LogInv, LogsTraced
    <3>2. term[k] + 1 \in Nat /\ t \in Nat /\ term[k] + 1 <= t
      BY <1>1, <2>2, RaftAssumption DEF Terms
    <3> QED
      BY <1>1, <1>2, <1>3, <2>2, <3>1, <3>2
  <2> QED
    BY <2>1, <2>2 DEF Onward
<1>6. ASSUME NEW t \in Terms PROVE Traced(ledger'[t], ledger')
  <2>1. ledger[t] \in Seq(Entry) /\ Traced(ledger[t], ledger)
    BY <1>1 DEF LogInv, LogsTraced, Ledgers
  <2> QED
    BY <1>2, <2>1
<1>7. LogsTraced'
  BY <1>4, <1>5, <1>6 DEF LogsTraced
<1>8. MessagesOK'
  BY MessagesStay DEF MessagesOK
<1> QED
  BY <1>7, <1>8 DEF LogInv

-----------------------------------------------------------------------------
(* Leaders append.                                                         *)

\* M has k for the ledger of t, that is l with one entry of t, and l or
\* nothing was there in L.
Extended(L, M, t, l, k) ==
    /\ L[t] = <<>> \/ L[t] = l
    /\ Len(k) = Len(l) + 1 /\ k[Len(l) + 1].term = t /\ \A i \in 1..Len(l) : k[i] = l[i]
    /\ M[t] = k /\ \A u \in Terms \ {t} : M[u] = L[u]

\* A leader's new entry: the ledger of its term becomes its log and the
\* entry, and everything stays traced.
LEMMA LedgerGrows ==
    ASSUME NEW L \in Ledgers, NEW M \in Ledgers, NEW t \in Terms,
           NEW l \in Seq(Entry), Traced(l, L), NEW k \in Seq(Entry), Extended(L, M, t, l, k)
    PROVE  (\A u \in Terms : Starts(L[u], M[u])) /\ Traced(k, M)
<1>1. Len(l) \in Nat /\ Len(k) \in Nat
  OBVIOUS
<1> USE DEF Extended
<1>2. ASSUME NEW u \in Terms PROVE Starts(L[u], M[u])
  <2>1. L[u] \in Seq(Entry) /\ Len(L[u]) \in Nat
    BY DEF Ledgers
  <2>2. CASE u # t
    BY <2>1, <2>2 DEF Starts
  <2>3. CASE u = t
    BY <1>1, <2>3 DEF Starts
  <2> QED
    BY <2>2, <2>3
<1>3. Traced(l, M)
  <2> HIDE DEF Extended
  <2> QED
    BY <1>2, TracedGrows, Zenon
<1>4. Traced(k, M)
  <2> SUFFICES ASSUME NEW x \in 1..Len(k)
               PROVE  /\ k[x].term \in Terms /\ x <= Len(M[k[x].term])
                      /\ \A y \in 1..x : k[y] = M[k[x].term][y]
    BY DEF Traced
  <2>1. CASE x <= Len(l)
    <3>1. x \in 1..Len(l) /\ k[x] = l[x]
      BY <1>1, <2>1
    <3>2. /\ l[x].term \in Terms /\ x <= Len(M[l[x].term])
          /\ \A y \in 1..x : l[y] = M[l[x].term][y]
      BY <1>3, <3>1 DEF Traced
    <3>3. \A y \in 1..x : y \in 1..Len(l)
      BY <1>1, <3>1
    <3> QED
      BY <3>1, <3>2, <3>3
  <2>2. CASE ~(x <= Len(l))
    <3>1. x = Len(l) + 1
      BY <1>1, <2>2
    <3>2. k[x].term = t /\ M[k[x].term] = k
      BY <3>1
    <3> QED
      BY <1>1, <3>1, <3>2
  <2> QED
    BY <2>1, <2>2
<1> QED
  BY <1>2, <1>4

\* What a leader broadcasts once it has appended.
LEMMA BroadcastOK ==
    ASSUME NEW L \in Ledgers, NEW t \in Terms, NEW n, NEW tm, NEW st, NEW c \in Nat, NEW next,
           \A p \in Nodes : next[p] \in Nat \ {0} /\ next[p] <= Len(L[t]) + 1,
           Len(L[t]) > 0, L[t][Len(L[t])].term = t, NEW m \in Broadcast(n, t, L[t], next, c)
    PROVE  MessageOK(m, tm, st, L)
<1>1. PICK p \in Nodes : m = AppendEntries(n, p, t, L[t], next[p], c)
  BY DEF Broadcast, Peers
<1> QED
  BY <1>1, SentOK, Zenon

\* Node n, leading term t, appends e: its no-op when it is elected, a
\* command in submit().
Grown(n, t, e, k, c) ==
    /\ t >= term[n] /\ e \in Entry /\ e.term = t /\ k = Append(log[n], e)
    /\ ledger' = [ledger EXCEPT ![t] = k]
    /\ log' = [log EXCEPT ![n] = k]
    /\ term' = [term EXCEPT ![n] = t]
    /\ role' = [role EXCEPT ![n] = "leader"]
    /\ leaders' = leaders \cup {[term |-> t, node |-> n]}
    /\ \A j \in Nodes, u \in Terms :
          stood'[j][u] = stood[j][u] \/ (u > term[j] /\ stood'[j][u] = log[j])
    /\ \/ ledger[t] = <<>> /\ stood'[n][t] = log[n]
       \/ ledger[t] = log[n] /\ Founded(stood'[n][t], t, log[n])
    /\ \A p \in Nodes : nextIndex'[n][p] <= Len(log[n]) + 1
    /\ \A j \in Nodes \ {n} : nextIndex'[j] = nextIndex[j]
    /\ c \in Nat /\ msgs' \ msgs \subseteq Broadcast(n, t, k, nextIndex'[n], c)

\* Such a step keeps the logs traced.
LEMMA GrowStep ==
    ASSUME ElectionInv, ElectionSafety', LogInv, LogsTyped',
           NEW n \in Nodes, NEW t \in Terms, NEW e, NEW k, NEW c, Grown(n, t, e, k, c)
    PROVE  LogInv'
<1>0. /\ t >= term[n] /\ e \in Entry /\ e.term = t /\ k = Append(log[n], e)
  BY DEF Grown
<1>b. /\ leaders \subseteq leaders' /\ [term |-> t, node |-> n] \in leaders'
      /\ \A a \in leaders' : a \in leaders \/ (a.term = t /\ a.node = n)
  BY DEF Grown
<1>c. \A a \in leaders' : a.term = t => a.node = n
  BY <1>b DEF ElectionSafety
<1>1. /\ log[n] \in Seq(Entry) /\ log \in [Nodes -> Seq(Entry)] /\ term \in [Nodes -> Nat]
      /\ role \in [Nodes -> {"follower", "candidate", "leader"}] /\ t \in Nat
      /\ stood'[n] \in Ledgers /\ Before(log[n], term[n] + 1) /\ Traced(log[n], ledger)
  <2>1. /\ log \in [Nodes -> Seq(Entry)] /\ term \in [Nodes -> Nat]
        /\ role \in [Nodes -> {"follower", "candidate", "leader"}]
        /\ Before(log[n], term[n] + 1) /\ Traced(log[n], ledger) /\ stood' \in [Nodes -> Ledgers]
    BY Zenon DEF LogInv, LogsTyped, ElectionInv, ElectionTyped, LogsTraced
  <2> QED
    BY <2>1, TermsAreNat
<1>3. /\ k \in Seq(Entry) /\ Len(k) = Len(log[n]) + 1 /\ Len(log[n]) \in Nat /\ Len(k) \in Nat
      /\ k[Len(log[n]) + 1] = e /\ \A i \in 1..Len(log[n]) : k[i] = log[n][i]
  BY <1>0, <1>1
<1>2. /\ ledger' \in Ledgers /\ ledger'[t] = k
      /\ \A u \in Terms \ {t} : ledger'[u] = ledger[u]
      /\ \A u \in Terms : Starts(ledger[u], ledger'[u])
      /\ Traced(k, ledger')
  <2>1. ledger[t] = <<>> \/ ledger[t] = log[n]
    BY Zenon DEF Grown
  <2>2. /\ ledger' \in Ledgers /\ ledger'[t] = k
        /\ \A u \in Terms \ {t} : ledger'[u] = ledger[u]
    <3>1. ledger' = [ledger EXCEPT ![t] = k]
      BY Zenon DEF Grown
    <3>2. ledger \in Ledgers /\ k \in Seq(Entry)
      BY <1>3, Zenon DEF LogInv, LogsTyped
    <3> QED
      BY <3>1, <3>2 DEF Ledgers
  <2>3. k[Len(log[n]) + 1].term = t /\ ledger \in Ledgers
    BY <1>0, <1>3, Zenon DEF LogInv, LogsTyped
  <2>4. (\A u \in Terms : Starts(ledger[u], ledger'[u])) /\ Traced(k, ledger')
    <3>1. Extended(ledger, ledger', t, log[n], k)
      BY <1>3, <2>1, <2>2, <2>3, Zenon DEF Extended
    <3> QED
      BY <1>1, <1>3, <2>2, <2>3, <3>1, LedgerGrows, Zenon
  <2> QED
    BY <2>2, <2>4
<1>4. /\ term'[n] = t /\ role'[n] = "leader" /\ log'[n] = k
      /\ \A j \in Nodes \ {n} : term'[j] = term[j] /\ role'[j] = role[j] /\ log'[j] = log[j]
      /\ \A j \in Nodes : term'[j] >= term[j]
  BY <1>1 DEF Grown
<1>5. \A j \in Nodes, u \in Terms :
         stood'[j][u] = stood[j][u] \/ (u > term[j] /\ stood'[j][u] = log[j])
  BY DEF Grown
<1>a. Onward
  BY <1>2, <1>4, <1>5, Zenon DEF Onward
<1>6. Before(k, t + 1)
  <2>1. \A i \in 1..Len(log[n]) : log[n][i].term < term[n] + 1 /\ log[n][i].term \in Nat
    BY <1>1, EntryTerms DEF Before
  <2> QED
    BY <1>0, <1>1, <1>3, <2>1 DEF Before
<1>7. Founded(stood'[n][t], t, k)
  <2>1. stood'[n][t] \in Seq(Entry)
    BY <1>1 DEF Ledgers
  <2>2. CASE stood'[n][t] = log[n]
    BY <1>0, <1>3, <2>2 DEF Founded, Starts
  <2>3. CASE Founded(stood'[n][t], t, log[n])
    BY <1>0, <1>3, <2>1, <2>3 DEF Founded, Starts
  <2> QED
    BY <2>2, <2>3, Zenon DEF Grown
<1>8. LeadersFounded'
  <2>1. ASSUME NEW a \in leaders'
        PROVE  /\ a.node \in Nodes /\ a.term \in Terms /\ a.term <= term'[a.node]
               /\ a.term = term'[a.node] => role'[a.node] # "candidate"
               /\ Founded(stood'[a.node][a.term], a.term, ledger'[a.term])
    <3>1. CASE a.term = t
      <4>1. a.node = n
        BY <1>c, <3>1
      <4> QED
        BY <1>1, <1>2, <1>4, <1>7, <3>1, <4>1
    <3>2. CASE a.term # t
      <4>1. a \in leaders
        BY <1>b, <3>2
      <4>2. /\ a.node \in Nodes /\ a.term \in Terms /\ a.term <= term[a.node]
            /\ a.term = term[a.node] => role[a.node] # "candidate"
            /\ Founded(stood[a.node][a.term], a.term, ledger[a.term])
        BY <4>1, Zenon DEF LogInv, LeadersFounded
      <4>3. a.term \in Nat /\ term[a.node] \in Nat /\ ledger'[a.term] = ledger[a.term]
        BY <1>1, <1>2, <3>2, <4>2, TermsAreNat, Zenon
      <4>4. stood'[a.node][a.term] = stood[a.node][a.term]
        BY <1>5, <4>2, <4>3
      <4>5. a.term <= term'[a.node] /\ (a.term = term'[a.node] => role'[a.node] # "candidate")
        <5>1. CASE a.node = n
          BY <1>0, <1>1, <1>4, <4>2, <4>3, <5>1
        <5>2. CASE a.node # n
          BY <1>4, <4>2, <5>2, Zenon
        <5> QED
          BY <5>1, <5>2
      <4> QED
        BY <4>2, <4>3, <4>4, <4>5, Zenon
    <3> QED
      BY <3>1, <3>2
  <2>2. ASSUME NEW u \in Terms, ledger'[u] # <<>> PROVE \E a \in leaders' : a.term = u
    <3>1. CASE u = t
      BY <1>b, <3>1
    <3>2. CASE u # t
      <4>1. ledger[u] # <<>>
        BY <1>2, <2>2, <3>2
      <4>2. \E a \in leaders : a.term = u
        BY <4>1, Zenon DEF LogInv, LeadersFounded
      <4> QED
        BY <1>b, <4>2
    <3> QED
      BY <3>1, <3>2
  <2> QED
    BY <2>1, <2>2, Zenon DEF LeadersFounded
<1>9. Standing'
  <2>1. ASSUME NEW j \in Nodes \ {n}, role[j] = "leader"
        PROVE  /\ [term |-> term'[j], node |-> j] \in leaders' /\ log'[j] = ledger'[term'[j]]
               /\ \A p \in Nodes : nextIndex'[j][p] <= Len(log'[j]) + 1
    <3>1. /\ [term |-> term[j], node |-> j] \in leaders /\ log[j] = ledger[term[j]]
          /\ \A p \in Nodes : nextIndex[j][p] <= Len(log[j]) + 1
      BY <2>1, Zenon DEF LogInv, Standing
    <3>2. term[j] # t
      BY <1>b, <1>c, <3>1
    <3>3. term[j] \in Terms
      BY DEF LogInv, LogsTyped
    <3>4. nextIndex'[j] = nextIndex[j]
      BY Zenon DEF Grown
    <3>5. ledger'[term[j]] = ledger[term[j]]
      BY <1>2, <3>2, <3>3
    <3> QED
      BY <1>b, <1>4, <3>1, <3>4, <3>5
  <2>2. ASSUME NEW j \in Nodes \ {n}, role[j] = "candidate" PROVE log'[j] = stood'[j][term'[j]]
    <3>1. log[j] = stood[j][term[j]]
      BY <2>2, Zenon DEF LogInv, Standing
    <3>2. term[j] \in Terms /\ term[j] \in Nat
      BY <1>1 DEF LogInv, LogsTyped
    <3>3. stood'[j][term[j]] = stood[j][term[j]]
      BY <1>5, <3>2
    <3> QED
      BY <1>4, <3>1, <3>3
  <2>3. /\ [term |-> term'[n], node |-> n] \in leaders' /\ log'[n] = ledger'[term'[n]]
        /\ \A p \in Nodes : nextIndex'[n][p] <= Len(log'[n]) + 1
    <3>1. \A p \in Nodes : nextIndex'[n][p] \in Nat /\ nextIndex'[n][p] <= Len(log[n]) + 1
      BY DEF LogsTyped, Grown
    <3> QED
      BY <1>b, <1>2, <1>3, <1>4, <3>1
  <2> QED
    BY <1>4, <2>1, <2>2, <2>3, Zenon DEF Standing
<1>10. \A m \in msgs' \ msgs : MessageOK(m, term', stood', ledger')
  <2>1. \A p \in Nodes : nextIndex'[n][p] \in Nat \ {0} /\ nextIndex'[n][p] <= Len(k) + 1
    <3>1. \A p \in Nodes : nextIndex'[n][p] \in Nat \ {0} /\ nextIndex'[n][p] <= Len(log[n]) + 1
      BY DEF LogsTyped, Grown
    <3> QED
      BY <1>3, <3>1
  <2>2. Len(k) > 0 /\ k[Len(k)].term = t
    BY <1>0, <1>3
  <2>3. c \in Nat /\ msgs' \ msgs \subseteq Broadcast(n, t, k, nextIndex'[n], c)
    BY DEF Grown
  <2>4. ASSUME NEW m \in Broadcast(n, t, k, nextIndex'[n], c)
        PROVE  MessageOK(m, term', stood', ledger')
    BY <1>2, <2>1, <2>2, <2>3, BroadcastOK, Zenon
  <2> QED
    BY <2>3, <2>4
<1> QED
  <2>1. \A u \in Terms : ledger'[u] = ledger[u] \/ Traced(ledger'[u], ledger')
    BY <1>2, Zenon
  <2>2. \A j \in Nodes : \/ log'[j] = log[j]
                         \/ Traced(log'[j], ledger') /\ Before(log'[j], term'[j] + 1)
    BY <1>2, <1>4, <1>6, Zenon
  <2> QED
    BY <1>a, <1>8, <1>9, <1>10, <2>1, <2>2, LogStep, Zenon

\* submit().
LEMMA SubmitLog ==
    ASSUME ListFacts, ElectionInv, ElectionSafety', LogInv, NEW n \in Nodes, NEW c \in Commands,
           Submit(n, c)
    PROVE  LogInv'
<1> DEFINE t == term[n]
           e == [term |-> t, cmd |-> c]
           k == Append(log[n], e)
<1>1. /\ role[n] = "leader" /\ log' = [log EXCEPT ![n] = k] /\ ledger' = [ledger EXCEPT ![t] = k]
      /\ commitIndex' = [commitIndex EXCEPT ![n] = AdvancedCommit(n, t, k, matchIndex[n])]
      /\ msgs' = msgs \cup Broadcast(n, t, k, nextIndex[n], commitIndex[n])
      /\ UNCHANGED <<term, role, nextIndex, stood, leaders>>
  BY DEF Submit, Send, CommitAndApply, election, leadership
<1>2. /\ term \in [Nodes -> Terms] /\ log \in [Nodes -> Seq(Entry)]
      /\ nextIndex \in [Nodes -> [Nodes -> Nat \ {0}]] /\ commitIndex \in [Nodes -> Nat]
      /\ stood \in [Nodes -> Ledgers] /\ ledger \in Ledgers /\ LogsTyped
  BY Zenon DEF LogInv, LogsTyped
<1>3. role \in [Nodes -> {"follower", "candidate", "leader"}] /\ t \in Nat /\ t \in Terms
  BY <1>2 DEF ElectionInv, ElectionTyped
<1>4. /\ [term |-> t, node |-> n] \in leaders /\ log[n] = ledger[t]
      /\ \A p \in Nodes : nextIndex[n][p] <= Len(log[n]) + 1
  BY <1>1, Zenon DEF LogInv, Standing
<1>5. e \in Entry /\ e.term = t
  BY <1>3 DEF Entry
<1> HIDE DEF e
<1>6. k \in Seq(Entry)
  BY <1>2, <1>5
<1>7. LogsTyped'
  <2>1. AdvancedCommit(n, t, k, matchIndex[n]) \in Nat
    BY <1>2, <1>6, AdvancedIs, Zenon
  <2> HIDE DEF k, t
  <2>2. commitIndex' \in [Nodes -> Nat]
    BY <1>1, <1>2, <2>1
  <2>3. log' \in [Nodes -> Seq(Entry)]
    BY <1>1, <1>2, <1>6
  <2>4. ledger' \in Ledgers
    BY <1>1, <1>2, <1>3, <1>6 DEF Ledgers
  <2> QED
    BY <1>1, <1>2, <2>2, <2>3, <2>4, Zenon DEF LogsTyped
<1>8. Founded(stood[n][t], t, log[n])
  <2>1. \A a \in leaders : Founded(stood[a.node][a.term], a.term, ledger[a.term])
    BY Zenon DEF LogInv, LeadersFounded
  <2> HIDE DEF t
  <2> QED
    BY <1>4, <2>1
<1>9. /\ term' = [term EXCEPT ![n] = t] /\ role' = [role EXCEPT ![n] = "leader"] /\ t >= term[n]
      /\ leaders' = leaders \cup {[term |-> t, node |-> n]}
      /\ msgs' \ msgs \subseteq Broadcast(n, t, k, nextIndex'[n], commitIndex[n])
      /\ commitIndex[n] \in Nat
  <2>1. term' = [term EXCEPT ![n] = t] /\ t >= term[n] /\ commitIndex[n] \in Nat
    BY <1>1, <1>2, <1>3
  <2>2. role' = [role EXCEPT ![n] = "leader"]
    BY <1>1, <1>3
  <2> HIDE DEF t, k
  <2> QED
    BY <1>1, <1>4, <2>1, <2>2, Zenon
<1>10. Grown(n, t, e, k, commitIndex[n])
  <2>1. k = Append(log[n], e)
    OBVIOUS
  <2> HIDE DEF t, k
  <2>2. stood' = stood /\ nextIndex' = nextIndex
    BY <1>1
  <2> QED
    BY <1>1, <1>4, <1>5, <1>8, <1>9, <2>1, <2>2, Zenon DEF Grown
<1> HIDE DEF t, k
<1> QED
  BY <1>3, <1>7, <1>10, GrowStep, Zenon

\* An election won.
LEMMA LeadLog ==
    ASSUME ListFacts, ElectionInv, ElectionSafety', LogInv, NEW n \in Nodes, NEW t \in Terms,
           t >= term[n], t = term[n] => role[n] = "candidate",
           term' = [term EXCEPT ![n] = t], BecomeLeader(n, t),
           stood' \in [Nodes -> Ledgers], stood'[n][t] = log[n],
           \A j \in Nodes, u \in Terms :
              stood'[j][u] = stood[j][u] \/ (u > term[j] /\ stood'[j][u] = log[j]),
           msgs' \ msgs \subseteq Announce(n, t)
    PROVE  LogInv'
<1> DEFINE e == [term |-> t, cmd |-> Noop]
           k == Append(log[n], e)
           next == [p \in Nodes |-> Len(log[n]) + 1]
           match == [p \in Nodes |-> 0]
<1>1. /\ role' = [role EXCEPT ![n] = "leader"]
      /\ nextIndex' = [nextIndex EXCEPT ![n] = next] /\ log' = [log EXCEPT ![n] = k]
      /\ commitIndex' = [commitIndex EXCEPT ![n] = AdvancedCommit(n, t, k, match)]
      /\ leaders' = leaders \cup {[term |-> t, node |-> n]} /\ ledger' = [ledger EXCEPT ![t] = k]
      /\ msgs' \ msgs \subseteq Broadcast(n, t, k, next, commitIndex[n])
  BY DEF BecomeLeader, LeaderLog, CommitAndApply, Announce
<1>2. /\ term \in [Nodes -> Terms] /\ log \in [Nodes -> Seq(Entry)]
      /\ nextIndex \in [Nodes -> [Nodes -> Nat \ {0}]] /\ commitIndex \in [Nodes -> Nat]
      /\ ledger \in Ledgers /\ LogsTyped
  BY Zenon DEF LogInv, LogsTyped
<1>3. t \in Nat /\ term[n] \in Nat /\ Len(log[n]) \in Nat /\ commitIndex[n] \in Nat
  <2>1. t \in Nat /\ term[n] \in Nat
    BY <1>2, TermsAreNat, Zenon
  <2>2. log[n] \in Seq(Entry) /\ commitIndex[n] \in Nat
    BY <1>2, Zenon
  <2> QED
    BY <2>1, <2>2
<1>4. e \in Entry /\ e.term = t
  BY <1>3 DEF Entry
<1>5. next \in [Nodes -> Nat \ {0}] /\ \A p \in Nodes : next[p] <= Len(log[n]) + 1
  BY <1>3
<1> HIDE DEF e, next, match
<1>6. k \in Seq(Entry) /\ k = Append(log[n], e)
  BY <1>2, <1>4
<1> HIDE DEF k
<1>7. AdvancedCommit(n, t, k, match) \in Nat
  BY <1>2, <1>6, AdvancedIs, Zenon
<1>8. LogsTyped'
  <2>1. commitIndex' \in [Nodes -> Nat]
    BY <1>1, <1>2, <1>7
  <2>2. log' \in [Nodes -> Seq(Entry)]
    BY <1>1, <1>2, <1>6
  <2>3. ledger' \in Ledgers
    BY <1>1, <1>2, <1>6 DEF Ledgers
  <2>4. term' \in [Nodes -> Terms]
    BY <1>2
  <2>5. nextIndex' \in [Nodes -> [Nodes -> Nat \ {0}]]
    BY <1>1, <1>2, <1>5
  <2> QED
    BY <2>1, <2>2, <2>3, <2>4, <2>5, Zenon DEF LogsTyped
<1>9. ledger[t] = <<>>
  BY <1>1, LedgerFree, Zenon
<1>10. nextIndex'[n] = next /\ \A j \in Nodes \ {n} : nextIndex'[j] = nextIndex[j]
  BY <1>1, <1>2
<1>11. Grown(n, t, e, k, commitIndex[n])
  BY <1>1, <1>3, <1>4, <1>5, <1>6, <1>9, <1>10, Zenon DEF Grown
<1> QED
  BY <1>8, <1>11, GrowStep, Zenon

-----------------------------------------------------------------------------
(* Everybody else.                                                         *)

\* Nobody appends to a ledger: a log changes to a traced one, whoever still
\* leads or stands has its log, and only a later term makes a candidate.
NobodyLeads ==
    /\ \A k \in Nodes : term'[k] >= term[k]
    /\ \A k \in Nodes, t \in Terms :
          stood'[k][t] = stood[k][t] \/ (t > term[k] /\ stood'[k][t] = log[k])
    /\ \A k \in Nodes : \/ log'[k] = log[k]
                        \/ Traced(log'[k], ledger) /\ Before(log'[k], term'[k] + 1)
    /\ \A k \in Nodes : role'[k] = "leader" =>
          /\ role[k] = "leader" /\ term'[k] = term[k] /\ log'[k] = log[k]
          /\ \A p \in Nodes : nextIndex'[k][p] <= Len(log[k]) + 1
    /\ \A k \in Nodes : role'[k] = "candidate" =>
          /\ log'[k] = stood'[k][term'[k]]
          /\ term'[k] > term[k] \/ role[k] = "candidate"

\* The step lemma when nobody appends to a ledger.
LEMMA FollowStep ==
    ASSUME ElectionInv, LogInv, LogsTyped', UNCHANGED <<leaders, ledger>>, NobodyLeads,
           \A m \in msgs' \ msgs : MessageOK(m, term', stood', ledger)
    PROVE  LogInv'
<1>1. Onward
  <2>1. \A t \in Terms : Starts(ledger[t], ledger'[t])
    BY SameStarts, Zenon DEF LogInv, LogsTyped
  <2> QED
    BY <2>1, Zenon DEF NobodyLeads, Onward
<1>2. LeadersFounded'
  <2>1. ASSUME NEW a \in leaders
        PROVE  /\ a.node \in Nodes /\ a.term \in Terms /\ a.term <= term'[a.node]
               /\ a.term = term'[a.node] => role'[a.node] # "candidate"
               /\ Founded(stood'[a.node][a.term], a.term, ledger'[a.term])
    <3>1. /\ a.node \in Nodes /\ a.term \in Terms /\ a.term <= term[a.node]
          /\ a.term = term[a.node] => role[a.node] # "candidate"
          /\ Founded(stood[a.node][a.term], a.term, ledger[a.term])
      BY Zenon DEF LogInv, LeadersFounded
    <3>2. a.term \in Nat /\ term[a.node] \in Nat /\ term'[a.node] \in Nat
      <4>1. term \in [Nodes -> Terms] /\ term' \in [Nodes -> Terms]
        BY Zenon DEF LogInv, LogsTyped
      <4> QED
        BY <3>1, <4>1, TermsAreNat, Zenon
    <3>3. /\ term'[a.node] >= term[a.node]
          /\ stood'[a.node][a.term] = stood[a.node][a.term] \/ a.term > term[a.node]
          /\ role'[a.node] = "candidate" =>
                term'[a.node] > term[a.node] \/ role[a.node] = "candidate"
      BY <3>1, Zenon DEF NobodyLeads
    <3>4. /\ stood'[a.node][a.term] = stood[a.node][a.term] /\ a.term <= term'[a.node]
          /\ a.term = term'[a.node] => role'[a.node] # "candidate"
      BY <3>1, <3>2, <3>3
    <3> QED
      BY <3>1, <3>4, Zenon
  <2>2. \A t \in Terms : ledger'[t] # <<>> => \E a \in leaders' : a.term = t
    BY Zenon DEF LogInv, LeadersFounded
  <2> QED
    BY <2>1, <2>2, Zenon DEF LeadersFounded
<1>3. Standing'
  <2>1. ASSUME NEW k \in Nodes, role'[k] = "leader"
        PROVE  /\ [term |-> term'[k], node |-> k] \in leaders'
               /\ log'[k] = ledger'[term'[k]]
               /\ \A p \in Nodes : nextIndex'[k][p] <= Len(log'[k]) + 1
    <3>1. /\ role[k] = "leader" /\ term'[k] = term[k] /\ log'[k] = log[k]
          /\ \A p \in Nodes : nextIndex'[k][p] <= Len(log[k]) + 1
      BY <2>1, Zenon DEF NobodyLeads
    <3>2. [term |-> term[k], node |-> k] \in leaders /\ log[k] = ledger[term[k]]
      BY <3>1, Zenon DEF LogInv, Standing
    <3> QED
      BY <3>1, <3>2, Zenon
  <2>2. \A k \in Nodes : role'[k] = "candidate" => log'[k] = stood'[k][term'[k]]
    BY Zenon DEF NobodyLeads
  <2> QED
    BY <2>1, <2>2, Zenon DEF Standing
<1>4. \A k \in Nodes : \/ log'[k] = log[k]
                       \/ Traced(log'[k], ledger') /\ Before(log'[k], term'[k] + 1)
  BY Zenon DEF NobodyLeads
<1>5. \A m \in msgs' \ msgs : MessageOK(m, term', stood', ledger')
  BY Zenon
<1> QED
  BY <1>1, <1>2, <1>3, <1>4, <1>5, LogStep

\* The same when no log changes either.
LEMMA QuietStep ==
    ASSUME ElectionInv, LogInv, term' \in [Nodes -> Terms],
           nextIndex' \in [Nodes -> [Nodes -> Nat \ {0}]], commitIndex' \in [Nodes -> Nat],
           UNCHANGED <<leaders, ledger, stood, log>>,
           \A k \in Nodes : term'[k] >= term[k],
           \A k \in Nodes : role'[k] = "leader" =>
              /\ role[k] = "leader" /\ term'[k] = term[k]
              /\ \A p \in Nodes : nextIndex'[k][p] <= Len(log[k]) + 1,
           \A k \in Nodes : role'[k] = "candidate" => role[k] = "candidate" /\ term'[k] = term[k],
           \A m \in msgs' \ msgs : MessageOK(m, term', stood, ledger)
    PROVE  LogInv'
<1>1. LogsTyped'
  BY DEF LogInv, LogsTyped
<1>2. \A k \in Nodes : role'[k] = "candidate" =>
         log'[k] = stood'[k][term'[k]] /\ (term'[k] > term[k] \/ role[k] = "candidate")
  BY Zenon DEF LogInv, Standing
<1>3. NobodyLeads
  BY <1>2, Zenon DEF NobodyLeads
<1>4. \A m \in msgs' \ msgs : MessageOK(m, term', stood', ledger)
  BY Zenon
<1> QED
  BY <1>1, <1>3, <1>4, FollowStep, Zenon

\* A node that keeps its term, role and log, and sends what is right.
LEMMA IdleStep ==
    ASSUME ElectionInv, LogInv, commitIndex' \in [Nodes -> Nat],
           UNCHANGED <<term, role, nextIndex, leaders, ledger, stood, log>>,
           \A m \in msgs' \ msgs : MessageOK(m, term, stood, ledger)
    PROVE  LogInv'
<1>1. \A k \in Nodes : term[k] \in Nat
  BY DEF ElectionInv, ElectionTyped
<1>2. \A k \in Nodes : role[k] = "leader" =>
         \A p \in Nodes : nextIndex[k][p] <= Len(log[k]) + 1
  BY Zenon DEF LogInv, Standing
<1>3. term' \in [Nodes -> Terms] /\ nextIndex' \in [Nodes -> [Nodes -> Nat \ {0}]]
  BY DEF LogInv, LogsTyped
<1>4. \A k \in Nodes : term'[k] >= term[k]
  BY <1>1
<1> QED
  BY <1>2, <1>3, <1>4, QuietStep

\* A node that becomes or stays a follower, in its term or a later one.
LEMMA DownStep ==
    ASSUME ElectionInv, LogInv, NEW n \in Nodes, NEW t \in Terms, t >= term[n],
           term' = [term EXCEPT ![n] = t], role' = [role EXCEPT ![n] = "follower"],
           nextIndex' \in [Nodes -> [Nodes -> Nat \ {0}]],
           \A k \in Nodes \ {n} : nextIndex'[k] = nextIndex[k],
           commitIndex' \in [Nodes -> Nat],
           UNCHANGED <<leaders, ledger, stood, log>>,
           \A m \in msgs' \ msgs : MessageOK(m, term', stood, ledger)
    PROVE  LogInv'
<1>1. /\ term \in [Nodes -> Terms] /\ term \in [Nodes -> Nat]
      /\ role \in [Nodes -> {"follower", "candidate", "leader"}]
  BY DEF LogInv, LogsTyped, ElectionInv, ElectionTyped
<1>2. term' \in [Nodes -> Terms]
  BY <1>1
<1>3. \A k \in Nodes : term'[k] >= term[k]
  BY <1>1
<1>4. \A k \in Nodes : role'[k] # "follower" =>
         k # n /\ role'[k] = role[k] /\ term'[k] = term[k] /\ nextIndex'[k] = nextIndex[k]
  BY <1>1
<1>5. \A k \in Nodes : role[k] = "leader" =>
         \A p \in Nodes : nextIndex[k][p] <= Len(log[k]) + 1
  BY Zenon DEF LogInv, Standing
<1>6. \A k \in Nodes : role'[k] = "leader" =>
         /\ role[k] = "leader" /\ term'[k] = term[k]
         /\ \A p \in Nodes : nextIndex'[k][p] <= Len(log[k]) + 1
  BY <1>4, <1>5, Zenon
<1>7. \A k \in Nodes : role'[k] = "candidate" => role[k] = "candidate" /\ term'[k] = term[k]
  BY <1>4, Zenon
<1> QED
  BY <1>2, <1>3, <1>6, <1>7, QuietStep, Zenon

\* A leader's log is its ledger, so what it sends is right.
LEMMA LeaderSends ==
    ASSUME LogInv, NEW n \in Nodes, role[n] = "leader"
    PROVE  /\ term[n] \in Terms /\ log[n] = ledger[term[n]] /\ ledger[term[n]] \in Seq(Entry)
           /\ Len(log[n]) > 0 /\ log[n][Len(log[n])].term = term[n]
           /\ \A p, next, tm, st : next \in Nat \ {0} /\ next <= Len(log[n]) + 1 =>
                 MessageOK(AppendEntries(n, p, term[n], log[n], next, commitIndex[n]), tm, st, ledger)
<1>1. /\ term[n] \in Terms /\ ledger \in Ledgers /\ commitIndex[n] \in Nat
      /\ stood[n] \in Ledgers
  BY DEF LogInv, LogsTyped
<1>2. /\ [term |-> term[n], node |-> n] \in leaders
      /\ log[n] = ledger[term[n]]
  BY DEF LogInv, Standing
<1>3. Founded(stood[n][term[n]], term[n], ledger[term[n]])
  BY <1>2 DEF LogInv, LeadersFounded
<1>4. ledger[term[n]] \in Seq(Entry) /\ stood[n][term[n]] \in Seq(Entry)
  BY <1>1 DEF Ledgers
<1>5. Len(ledger[term[n]]) > 0 /\ ledger[term[n]][Len(ledger[term[n]])].term = term[n]
  BY <1>3, <1>4 DEF Founded
<1>6. ASSUME NEW p, NEW next, NEW tm, NEW st, next \in Nat \ {0}, next <= Len(log[n]) + 1
      PROVE  MessageOK(AppendEntries(n, p, term[n], log[n], next, commitIndex[n]), tm, st, ledger)
  BY <1>1, <1>2, <1>5, <1>6, SentOK, Zenon
<1> QED
  BY <1>1, <1>2, <1>4, <1>5, <1>6

\* Heartbeats, and submit()'s wait.
LEMMA WaitLog ==
    ASSUME ElectionInv, LogInv, NEW n \in Nodes,
           Heartbeat(n) \/ \E w \in waiting : Return(w) \/ GiveUp(w)
    PROVE  LogInv'
<1>1. /\ UNCHANGED <<term, role, nextIndex, leaders, ledger, stood, log>>
      /\ commitIndex' \in [Nodes -> Nat]
  BY DEF Heartbeat, Return, GiveUp, persistent, election, leadership, history, elected, applied,
         LogInv, LogsTyped
<1>2. CASE Heartbeat(n)
  <2>1. ASSUME NEW p \in Nodes
        PROVE  nextIndex[n][p] \in Nat \ {0} /\ nextIndex[n][p] <= Len(log[n]) + 1
    BY <1>2, Zenon DEF Heartbeat, LogInv, LogsTyped, Standing
  <2>2. ASSUME NEW m \in Broadcast(n, term[n], log[n], nextIndex[n], commitIndex[n])
        PROVE  MessageOK(m, term, stood, ledger)
    <3>1. PICK p \in Nodes :
            m = AppendEntries(n, p, term[n], log[n], nextIndex[n][p], commitIndex[n])
      BY Zenon DEF Broadcast, Peers
    <3> QED
      BY <1>2, <2>1, <3>1, LeaderSends, Zenon DEF Heartbeat
  <2>3. msgs' \ msgs \subseteq Broadcast(n, term[n], log[n], nextIndex[n], commitIndex[n])
    BY <1>2 DEF Heartbeat, Send
  <2> QED
    BY <1>1, <2>2, <2>3, IdleStep
<1>3. CASE \E w \in waiting : Return(w) \/ GiveUp(w)
  <2>1. msgs' = msgs
    BY <1>3 DEF Return, GiveUp
  <2> QED
    BY <1>1, <2>1, IdleStep
<1> QED
  BY <1>2, <1>3

\* A restart reloads the log.
LEMMA RestartLog ==
    ASSUME ElectionInv, LogInv, LogPersisted, NEW n \in Nodes, Restart(n)
    PROVE  LogInv'
<1>1. /\ UNCHANGED <<term, log, leaders, ledger, stood, msgs>>
      /\ role' = [role EXCEPT ![n] = "follower"]
      /\ commitIndex' = [commitIndex EXCEPT ![n] = 0]
      /\ nextIndex' = [nextIndex EXCEPT ![n] = [p \in Nodes |-> 1]]
  BY DEF Restart, Reload, Volatile, persistent, history, elected
<1>2. term \in [Nodes -> Terms] /\ term[n] \in Nat
  BY DEF LogInv, LogsTyped, ElectionInv, ElectionTyped
<1>3. /\ nextIndex' \in [Nodes -> [Nodes -> Nat \ {0}]]
      /\ \A k \in Nodes \ {n} : nextIndex'[k] = nextIndex[k]
      /\ commitIndex' \in [Nodes -> Nat]
  BY <1>1 DEF LogInv, LogsTyped
<1>4. term' = [term EXCEPT ![n] = term[n]] /\ term[n] >= term[n] /\ term[n] \in Terms
  BY <1>1, <1>2
<1>5. msgs' \ msgs = {}
  BY <1>1
<1> QED
  BY <1>1, <1>3, <1>4, <1>5, DownStep, Zenon

\* A vote, given or not.
LEMMA RequestVoteLog ==
    ASSUME ElectionInv, LogInv, NEW n \in Nodes, NEW m \in msgs, HandleRequestVote(n, m)
    PROVE  LogInv'
<1> DEFINE t == IF m.term > term[n] THEN m.term ELSE term[n]
<1>1. m.term \in Terms /\ term[n] \in Terms /\ term[n] \in Nat /\ m.term \in Nat
  BY RaftAssumption DEF LogInv, LogsTyped, MessagesOK, MessageOK, Terms
<1>2. t \in Terms /\ t >= term[n] /\ (~(m.term > term[n]) => t = term[n])
  BY <1>1
<1>3. /\ term' = [term EXCEPT ![n] = t]
      /\ role' = IF m.term > term[n] THEN [role EXCEPT ![n] = "follower"] ELSE role
      /\ \E g : Reply(m, {RequestVoteReply(n, m.src, t, g)})
      /\ UNCHANGED <<log, nextIndex, commitIndex, stood, leaders, ledger>>
  BY Zenon DEF HandleRequestVote, leadership, applied, elected
<1> HIDE DEF t
<1>4. \A x \in msgs' \ msgs : \A tm : MessageOK(x, tm, stood, ledger)
  <2>1. PICK g : Reply(m, {RequestVoteReply(n, m.src, t, g)})
    BY <1>3
  <2>2. \A x \in msgs' \ msgs : x = RequestVoteReply(n, m.src, t, g)
    BY <2>1, ReplyAdds
  <2>3. \A tm : MessageOK(RequestVoteReply(n, m.src, t, g), tm, stood, ledger)
    BY <1>2, AnswersOK, Zenon
  <2> QED
    BY <2>2, <2>3, Zenon
<1>5. /\ nextIndex' \in [Nodes -> [Nodes -> Nat \ {0}]] /\ commitIndex' \in [Nodes -> Nat]
      /\ \A k \in Nodes \ {n} : nextIndex'[k] = nextIndex[k]
  BY <1>3, Zenon DEF LogInv, LogsTyped
<1>6. CASE m.term > term[n]
  BY <1>2, <1>3, <1>4, <1>5, <1>6, DownStep, Zenon
<1>7. CASE ~(m.term > term[n])
  <2>1. term' = term
    BY <1>2, <1>3, <1>7 DEF LogInv, LogsTyped
  <2> QED
    BY <1>3, <1>4, <1>5, <1>7, <2>1, IdleStep, Zenon
<1> QED
  BY <1>6, <1>7, Zenon

\* A reply of a later term.
LEMMA StepDownLog ==
    ASSUME ElectionInv, LogInv, NEW n \in Nodes, NEW m \in msgs, m.term > term[n],
           StepDown(n, m.term), Reply(m, {})
    PROVE  LogInv'
<1>1. m.term \in Terms /\ term[n] \in Nat /\ m.term \in Nat
  BY RaftAssumption DEF LogInv, LogsTyped, MessagesOK, MessageOK, Terms
<1>2. /\ term' = [term EXCEPT ![n] = m.term] /\ role' = [role EXCEPT ![n] = "follower"]
      /\ UNCHANGED <<log, nextIndex, commitIndex, stood, leaders, ledger>>
  BY DEF StepDown, leadership, applied, history, elected
<1>3. /\ nextIndex' \in [Nodes -> [Nodes -> Nat \ {0}]] /\ commitIndex' \in [Nodes -> Nat]
      /\ \A k \in Nodes \ {n} : nextIndex'[k] = nextIndex[k]
  BY <1>2, Zenon DEF LogInv, LogsTyped
<1>4. \A x \in msgs' \ msgs : MessageOK(x, term', stood, ledger)
  BY ReplyAdds
<1>5. m.term >= term[n]
  BY <1>1
<1> QED
  BY <1>1, <1>2, <1>3, <1>4, <1>5, DownStep, Zenon

\* AppendEntries that is not accepted: stale, or past a gap.
LEMMA RejectLog ==
    ASSUME ElectionInv, LogInv, NEW n \in Nodes, NEW m \in msgs,
           RejectStale(n, m) \/ RejectMismatch(n, m)
    PROVE  LogInv'
<1>1. /\ m.term \in Terms /\ term[n] \in Terms /\ term[n] \in Nat /\ m.term \in Nat
      /\ Len(log[n]) \in Nat
  BY RaftAssumption DEF LogInv, LogsTyped, MessagesOK, MessageOK, Terms
<1>2. ASSUME NEW t \in Terms, Reply(m, {AppendEntriesReply(n, m.src, t, FALSE, Len(log[n]))})
      PROVE  \A x \in msgs' \ msgs : \A tm : MessageOK(x, tm, stood, ledger)
  <2>1. \A x \in msgs' \ msgs : x = AppendEntriesReply(n, m.src, t, FALSE, Len(log[n]))
    BY <1>2, ReplyAdds, Zenon
  <2>2. \A tm : MessageOK(AppendEntriesReply(n, m.src, t, FALSE, Len(log[n])), tm, stood, ledger)
    BY <1>1, AnswersOK, Zenon
  <2> QED
    BY <2>1, <2>2, Zenon
<1>3. /\ nextIndex \in [Nodes -> [Nodes -> Nat \ {0}]] /\ commitIndex \in [Nodes -> Nat]
  BY Zenon DEF LogInv, LogsTyped
<1>4. CASE RejectStale(n, m)
  <2>1. UNCHANGED <<term, role, nextIndex, commitIndex, leaders, ledger, stood, log>>
    BY <1>4 DEF RejectStale, persistent, election, leadership, history, elected, applied
  <2>2. \A x \in msgs' \ msgs : \A tm : MessageOK(x, tm, stood, ledger)
    BY <1>1, <1>2, <1>4, Zenon DEF RejectStale
  <2> QED
    BY <1>3, <2>1, <2>2, IdleStep, Zenon
<1>5. CASE RejectMismatch(n, m)
  <2>1. /\ m.term >= term[n]
        /\ term' = [term EXCEPT ![n] = m.term] /\ role' = [role EXCEPT ![n] = "follower"]
        /\ UNCHANGED <<nextIndex, commitIndex, leaders, ledger, stood, log>>
    BY <1>5 DEF RejectMismatch, Follow, leadership, history, elected, applied
  <2>2. \A x \in msgs' \ msgs : \A tm : MessageOK(x, tm, stood, ledger)
    BY <1>1, <1>2, <1>5, Zenon DEF RejectMismatch
  <2>3. \A k \in Nodes \ {n} : nextIndex'[k] = nextIndex[k]
    BY <2>1
  <2> QED
    BY <1>1, <1>3, <2>1, <2>2, <2>3, DownStep, Zenon
<1> QED
  BY <1>4, <1>5, Zenon

\* A crash in the middle of AppendEntries leaves the saved log.
LEMMA CrashLog ==
    ASSUME ElectionInv, LogInv, NEW n \in Nodes, NEW m \in msgs, CrashInAccept(n, m)
    PROVE  LogInv'
<1>1. m.term \in Terms
  BY Zenon DEF LogInv, MessagesOK, MessageOK
<1>2. /\ m.term >= term[n]
      /\ term' = [term EXCEPT ![n] = m.term] /\ role' = [role EXCEPT ![n] = "follower"]
      /\ commitIndex' = [commitIndex EXCEPT ![n] = 0]
      /\ nextIndex' = [nextIndex EXCEPT ![n] = [p \in Nodes |-> 1]]
      /\ UNCHANGED <<leaders, ledger, stood, log>> /\ Reply(m, {})
  BY DEF CrashInAccept, Volatile, history, elected
<1>3. /\ nextIndex' \in [Nodes -> [Nodes -> Nat \ {0}]]
      /\ \A k \in Nodes \ {n} : nextIndex'[k] = nextIndex[k]
      /\ commitIndex' \in [Nodes -> Nat]
  BY <1>2 DEF LogInv, LogsTyped
<1>4. \A x \in msgs' \ msgs : MessageOK(x, term', stood, ledger)
  BY <1>2, ReplyAdds
<1> QED
  BY <1>1, <1>2, <1>3, <1>4, DownStep, Zenon

\* The leader moves a follower's next index, within its log.
LEMMA NextStep ==
    ASSUME ElectionInv, LogInv, NEW n \in Nodes, NEW p \in Nodes, role[n] = "leader",
           NEW i \in Nat \ {0}, i <= Len(log[n]) + 1,
           nextIndex' = [nextIndex EXCEPT ![n][p] = i], commitIndex' \in [Nodes -> Nat],
           UNCHANGED <<term, role, leaders, ledger, stood, log>>,
           \A m \in msgs' \ msgs : MessageOK(m, term, stood, ledger)
    PROVE  LogInv'
<1>1. /\ nextIndex \in [Nodes -> [Nodes -> Nat \ {0}]] /\ term \in [Nodes -> Terms]
      /\ \A k \in Nodes : term[k] >= term[k]
  BY DEF LogInv, LogsTyped, ElectionInv, ElectionTyped
<1>2. /\ nextIndex' \in [Nodes -> [Nodes -> Nat \ {0}]]
      /\ \A k, q \in Nodes : nextIndex'[k][q] = nextIndex[k][q] \/ (k = n /\ nextIndex'[k][q] = i)
  BY <1>1
<1>3. \A k \in Nodes : role[k] = "leader" =>
         \A q \in Nodes : nextIndex[k][q] <= Len(log[k]) + 1
  BY Zenon DEF LogInv, Standing
<1>4. \A k \in Nodes : role'[k] = "leader" =>
         /\ role[k] = "leader" /\ term'[k] = term[k]
         /\ \A q \in Nodes : nextIndex'[k][q] <= Len(log[k]) + 1
  <2>1. ASSUME NEW k \in Nodes, role[k] = "leader", NEW q \in Nodes
        PROVE  nextIndex'[k][q] <= Len(log[k]) + 1
    <3>1. nextIndex[k][q] <= Len(log[k]) + 1
      BY <1>3, <2>1, Zenon
    <3>2. nextIndex'[k][q] = nextIndex[k][q] \/ (k = n /\ nextIndex'[k][q] = i)
      BY <1>2, <2>1, Zenon
    <3> QED
      BY <3>1, <3>2, Zenon
  <2> QED
    BY <2>1, Zenon
<1> QED
  BY <1>1, <1>2, <1>4, QuietStep, Zenon

\* The reply of a follower.
LEMMA AppendReplyLog ==
    ASSUME ListFacts, ElectionInv, LogInv, NEW n \in Nodes, NEW m \in msgs,
           HandleAppendEntriesReply(n, m)
    PROVE  LogInv'
<1>1. /\ m.type = "AppendEntriesReply" /\ m.src \in Nodes
      /\ MessageOK(m, term, stood, ledger)
  BY DEF ElectionInv, Honest, LogInv, MessagesOK, HandleAppendEntriesReply
<1>2. CASE m.term > term[n]
  BY <1>2, StepDownLog DEF HandleAppendEntriesReply, ElectionInv, ElectionTyped
<1>3. CASE ~(m.term > term[n]) /\ m.success
  <2> DEFINE match == [matchIndex[n] EXCEPT ![m.src] = m.match]
  <2>1. /\ m.term = term[n] /\ role[n] = "leader"
        /\ nextIndex' = [nextIndex EXCEPT ![n][m.src] = m.match + 1]
        /\ commitIndex' = [commitIndex EXCEPT ![n] = AdvancedCommit(n, term[n], log[n], match)]
        /\ Reply(m, {})
        /\ UNCHANGED <<term, role, leaders, ledger, stood, log>>
    BY <1>3, Zenon DEF HandleAppendEntriesReply, CommitAndApply, persistent, election, history, elected
  <2> HIDE DEF match
  <2>2. /\ log[n] = ledger[m.term] /\ log[n] \in Seq(Entry)
    BY <2>1, LeaderSends, Zenon
  <2>3. m.match + 1 \in Nat \ {0} /\ m.match + 1 <= Len(log[n]) + 1
    <3>1. m.match \in 1..Len(log[n])
      BY <1>1, <1>3, <2>2, Zenon DEF MessageOK
    <3> QED
      BY <2>2, <3>1, PlaceInLog, NextPlace, Zenon
  <2>4. LogsTyped /\ commitIndex \in [Nodes -> Nat]
    BY DEF LogInv, LogsTyped
  <2>5. AdvancedCommit(n, term[n], log[n], match) \in Nat
    BY <2>2, <2>4, AdvancedIs
  <2>6. commitIndex' \in [Nodes -> Nat]
    BY <2>1, <2>4, <2>5
  <2>7. \A x \in msgs' \ msgs : MessageOK(x, term, stood, ledger)
    BY <2>1, ReplyAdds
  <2> QED
    BY <1>1, <2>1, <2>3, <2>6, <2>7, NextStep, Zenon
<1>4. CASE ~(m.term > term[n]) /\ ~m.success
  <2> DEFINE next == RollBack(nextIndex[n][m.src], m.match)
             back == AppendEntries(n, m.src, term[n], log[n], next, commitIndex[n])
  <2>1. /\ m.term = term[n] /\ role[n] = "leader"
        /\ nextIndex' = [nextIndex EXCEPT ![n][m.src] = next]
        /\ Reply(m, {back})
        /\ UNCHANGED <<term, role, leaders, ledger, stood, log, commitIndex>>
    BY <1>4, Zenon DEF HandleAppendEntriesReply, applied, persistent, election, history, elected
  <2>2. /\ nextIndex[n][m.src] \in Nat \ {0} /\ nextIndex[n][m.src] <= Len(log[n]) + 1
        /\ Len(log[n]) \in Nat /\ m.match \in Nat
    <3>1. nextIndex[n][m.src] <= Len(log[n]) + 1
      BY <1>1, <2>1, Zenon DEF LogInv, Standing
    <3>2. nextIndex[n][m.src] \in Nat \ {0} /\ Len(log[n]) \in Nat
      BY <1>1 DEF LogInv, LogsTyped
    <3>3. m.match \in Nat
      BY <1>1, Zenon DEF MessageOK
    <3> QED
      BY <3>1, <3>2, <3>3, Zenon
  <2>3. next \in Nat \ {0} /\ next <= Len(log[n]) + 1
    BY <2>2, RollBackIs, Zenon
  <2> HIDE DEF next
  <2>4. MessageOK(back, term, stood, ledger)
    BY <2>1, <2>3, LeaderSends, Zenon
  <2> HIDE DEF back
  <2>5. \A x \in msgs' \ msgs : MessageOK(x, term, stood, ledger)
    BY <2>1, <2>4, ReplyAdds
  <2>6. commitIndex' \in [Nodes -> Nat]
    BY <2>1, Zenon DEF LogInv, LogsTyped
  <2> QED
    BY <1>1, <2>1, <2>3, <2>5, <2>6, NextStep, Zenon
<1> QED
  BY <1>2, <1>3, <1>4

\* AppendEntries that is accepted.
LEMMA AcceptLog ==
    ASSUME ListFacts, ElectionInv, LogInv, NEW n \in Nodes, NEW m \in msgs, Accept(n, m)
    PROVE  LogInv'
<1> DEFINE r == AppendFrom(log[n], m.prevIndex, m.entries)
           answer == AppendEntriesReply(n, m.src, m.term, TRUE, Last(m))
<1>1. /\ m.type = "AppendEntries" /\ m.term >= term[n] /\ Matches(n, m)
      /\ term' = [term EXCEPT ![n] = m.term] /\ role' = [role EXCEPT ![n] = "follower"]
      /\ log' = [log EXCEPT ![n] = r]
      /\ commitIndex' = [commitIndex EXCEPT ![n] = FollowerCommit(n, m)]
      /\ Reply(m, {answer})
      /\ UNCHANGED <<nextIndex, leaders, ledger, stood>>
  BY DEF Accept, Follow, CommitAndApply, leadership, history, elected, Last
<1>2. /\ m.term \in Terms /\ r \in Seq(Entry) /\ Traced(r, ledger) /\ Before(r, m.term + 1)
      /\ Last(m) \in 1..Len(ledger[m.term])
  BY <1>1, AcceptIs, Zenon
<1> HIDE DEF r
<1>3. /\ term \in [Nodes -> Terms] /\ log \in [Nodes -> Seq(Entry)]
      /\ nextIndex \in [Nodes -> [Nodes -> Nat \ {0}]] /\ commitIndex \in [Nodes -> Nat]
      /\ stood \in [Nodes -> Ledgers] /\ ledger \in Ledgers
  BY Zenon DEF LogInv, LogsTyped
<1>4. role \in [Nodes -> {"follower", "candidate", "leader"}] /\ term \in [Nodes -> Nat]
  BY DEF ElectionInv, ElectionTyped
<1>5. FollowerCommit(n, m) \in Nat
  <2>1. m.commit \in Nat /\ m.prevIndex \in Nat /\ m.entries \in Seq(Entry)
    BY <1>1, Zenon DEF LogInv, MessagesOK, MessageOK
  <2>2. commitIndex[n] \in Nat
    BY <1>3, Zenon
  <2> QED
    BY <2>1, <2>2, FollowerCommitIs, Zenon
<1>6. LogsTyped'
  <2>1. term' \in [Nodes -> Terms]
    BY <1>1, <1>2, <1>3
  <2>2. log' \in [Nodes -> Seq(Entry)]
    BY <1>1, <1>2, <1>3
  <2>3. commitIndex' \in [Nodes -> Nat]
    BY <1>1, <1>3, <1>5
  <2> QED
    BY <1>1, <1>3, <2>1, <2>2, <2>3, Zenon DEF LogsTyped
<1>7. \A k \in Nodes : term'[k] >= term[k]
  BY <1>1, <1>4
<1>8. /\ term'[n] = m.term /\ role'[n] = "follower" /\ log'[n] = r
      /\ \A k \in Nodes \ {n} : term'[k] = term[k] /\ role'[k] = role[k] /\ log'[k] = log[k]
  BY <1>1, <1>3, <1>4
<1>9. \A k \in Nodes : \/ log'[k] = log[k]
                       \/ Traced(log'[k], ledger) /\ Before(log'[k], term'[k] + 1)
  BY <1>2, <1>8, Zenon
<1>10. \A k \in Nodes : role'[k] = "leader" =>
          /\ role[k] = "leader" /\ term'[k] = term[k] /\ log'[k] = log[k]
          /\ \A p \in Nodes : nextIndex'[k][p] <= Len(log[k]) + 1
  <2>1. \A k \in Nodes : role[k] = "leader" =>
           \A p \in Nodes : nextIndex[k][p] <= Len(log[k]) + 1
    BY Zenon DEF LogInv, Standing
  <2>2. \A k \in Nodes : role'[k] = "leader" => k # n
    BY <1>8
  <2> QED
    BY <1>1, <1>8, <2>1, <2>2, Zenon
<1>11. \A k \in Nodes : role'[k] = "candidate" =>
          log'[k] = stood'[k][term'[k]] /\ (term'[k] > term[k] \/ role[k] = "candidate")
  <2>1. \A k \in Nodes : role[k] = "candidate" => log[k] = stood[k][term[k]]
    BY Zenon DEF LogInv, Standing
  <2>2. \A k \in Nodes : role'[k] = "candidate" => k # n
    BY <1>8
  <2> QED
    BY <1>1, <1>8, <2>1, <2>2, Zenon
<1>12. \A x \in msgs' \ msgs : MessageOK(x, term', stood', ledger)
  <2>1. MessageOK(answer, term', stood', ledger)
    <3>1. Last(m) \in Nat
      BY <1>2
    <3> QED
      BY <1>2, <3>1, AnswersOK, Zenon
  <2> HIDE DEF answer
  <2>2. msgs' \ msgs \subseteq {answer}
    BY <1>1, ReplyAdds, Zenon
  <2> QED
    BY <2>1, <2>2, Zenon
<1>13. \A k \in Nodes, t \in Terms :
          stood'[k][t] = stood[k][t] \/ (t > term[k] /\ stood'[k][t] = log[k])
  BY <1>1
<1>14. NobodyLeads
  BY <1>7, <1>9, <1>10, <1>11, <1>13, Zenon DEF NobodyLeads
<1> QED
  BY <1>1, <1>6, <1>12, <1>14, FollowStep, Zenon

\* A node that stands for election.
LEMMA CandidateLog ==
    ASSUME ElectionInv, LogInv, NEW n \in Nodes, Timeout(n), ~HasMajority(1)
    PROVE  LogInv'
<1> DEFINE t == term[n] + 1
<1>1. /\ t <= MaxTerm /\ term' = [term EXCEPT ![n] = t] /\ stood' = [stood EXCEPT ![n][t] = log[n]]
      /\ role' = [role EXCEPT ![n] = "candidate"]
      /\ msgs' = msgs \cup {RequestVote(n, p, t) : p \in Peers(n)}
      /\ UNCHANGED <<log, nextIndex, commitIndex, leaders, ledger>>
  BY DEF Timeout, Send, leadership, applied, elected
<1>2. /\ term \in [Nodes -> Terms] /\ log \in [Nodes -> Seq(Entry)]
      /\ nextIndex \in [Nodes -> [Nodes -> Nat \ {0}]] /\ commitIndex \in [Nodes -> Nat]
      /\ stood \in [Nodes -> Ledgers] /\ ledger \in Ledgers
  BY Zenon DEF LogInv, LogsTyped
<1>3. role \in [Nodes -> {"follower", "candidate", "leader"}] /\ term \in [Nodes -> Nat]
  BY DEF ElectionInv, ElectionTyped
<1>4. t \in Terms /\ t > term[n]
  BY <1>1, <1>3, RaftAssumption DEF Terms
<1> HIDE DEF t
<1>5. /\ stood' \in [Nodes -> Ledgers] /\ stood'[n][t] = log[n]
      /\ \A k \in Nodes, u \in Terms : stood'[k][u] = stood[k][u] \/ (k = n /\ u = t)
  BY <1>1, <1>2, <1>4 DEF Ledgers
<1>6. /\ term' \in [Nodes -> Terms] /\ term'[n] = t /\ role'[n] = "candidate"
      /\ \A k \in Nodes : term'[k] >= term[k]
      /\ \A k \in Nodes \ {n} : term'[k] = term[k] /\ role'[k] = role[k]
  BY <1>1, <1>2, <1>3, <1>4
<1>7. LogsTyped'
  BY <1>1, <1>2, <1>5, <1>6, Zenon DEF LogsTyped
<1>8. \A k \in Nodes, u \in Terms :
         stood'[k][u] = stood[k][u] \/ (u > term[k] /\ stood'[k][u] = log[k])
  BY <1>4, <1>5, Zenon
<1>9. \A k \in Nodes : role'[k] = "leader" =>
         /\ role[k] = "leader" /\ term'[k] = term[k] /\ log'[k] = log[k]
         /\ \A p \in Nodes : nextIndex'[k][p] <= Len(log[k]) + 1
  <2>1. \A k \in Nodes : role[k] = "leader" =>
           \A p \in Nodes : nextIndex[k][p] <= Len(log[k]) + 1
    BY Zenon DEF LogInv, Standing
  <2>2. \A k \in Nodes : role'[k] = "leader" => k # n
    BY <1>6
  <2> QED
    BY <1>1, <1>6, <2>1, <2>2, Zenon
<1>10. \A k \in Nodes : role'[k] = "candidate" =>
          log'[k] = stood'[k][term'[k]] /\ (term'[k] > term[k] \/ role[k] = "candidate")
  <2>1. ASSUME NEW k \in Nodes \ {n}, role[k] = "candidate" PROVE log[k] = stood'[k][term[k]]
    <3>1. log[k] = stood[k][term[k]]
      BY <2>1, Zenon DEF LogInv, Standing
    <3>2. stood'[k][term[k]] = stood[k][term[k]]
      BY <1>2, <1>5
    <3> QED
      BY <3>1, <3>2
  <2>2. ASSUME NEW k \in Nodes, role'[k] = "candidate"
        PROVE  log'[k] = stood'[k][term'[k]] /\ (term'[k] > term[k] \/ role[k] = "candidate")
    <3>1. CASE k = n
      BY <1>1, <1>4, <1>5, <1>6, <3>1, Zenon
    <3>2. CASE k # n
      BY <1>1, <1>6, <2>1, <2>2, <3>2, Zenon
    <3> QED
      BY <3>1, <3>2
  <2> QED
    BY <2>2
<1>11. \A x \in msgs' \ msgs : MessageOK(x, term', stood', ledger)
  <2>1. ASSUME NEW p PROVE MessageOK(RequestVote(n, p, t), term', stood', ledger)
    <3> DEFINE m == RequestVote(n, p, t)
    <3>1. /\ m.type = "RequestVote" /\ m.src = n /\ m.term = t
          /\ m.lastIndex = Len(log[n]) /\ m.lastTerm = LastTerm(log[n])
      BY DEF RequestVote
    <3>2. m.type # "AppendEntries" /\ m.type # "AppendEntriesReply"
      BY <3>1
    <3> HIDE DEF m
    <3>3. t <= t
      BY <1>4, TermsAreNat
    <3>4. /\ m.term <= term'[m.src] /\ m.lastIndex = Len(stood'[m.src][m.term])
          /\ m.lastTerm = LastTerm(stood'[m.src][m.term])
      BY <1>5, <1>6, <3>1, <3>3, Zenon
    <3>5. MessageOK(m, term', stood', ledger)
      BY <1>4, <3>1, <3>2, <3>4, Zenon DEF MessageOK
    <3> QED
      BY <3>5 DEF m
  <2> QED
    BY <1>1, <2>1, Zenon
<1>12. NobodyLeads
  BY <1>1, <1>6, <1>8, <1>9, <1>10, Zenon DEF NobodyLeads
<1> QED
  BY <1>1, <1>7, <1>11, <1>12, FollowStep, Zenon
=============================================================================
