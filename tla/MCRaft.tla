------------------------------ MODULE MCRaft ------------------------------
(***************************************************************************)
(* Raft with a budget for the events that can happen at any time: election *)
(* timeouts, heartbeats, client commands and their answers, restarts,      *)
(* crashes inside a handler and repeated deliveries.                       *)
(***************************************************************************)
EXTENDS Raft, TLC

VARIABLE budget

Spend(what) ==
    /\ budget[what] > 0
    /\ budget' = [budget EXCEPT ![what] = @ - 1]

Events == {"timeouts", "heartbeats", "submits", "answers", "restarts", "crashes", "repeats"}

Within(b) == budget = b @@ [e \in Events |-> 0]

\* A state reached from Init in one election: `a` leads term 1 with the
\* vote of `b` and has committed its no-op, which `b` holds; every other
\* message was lost.
LateInit ==
    \E a, b \in Nodes :
        LET others == Nodes \ {a, b}
            noop == <<[term |-> 1, cmd |-> Noop]>>
        IN  /\ a # b
            /\ term = [n \in Nodes |-> IF n \in others THEN 0 ELSE 1]
            /\ votedFor = [n \in Nodes |-> IF n \in others THEN Nil ELSE a]
            /\ log = [n \in Nodes |-> IF n \in others THEN <<>> ELSE noop]
            /\ role = [n \in Nodes |-> IF n = a THEN "leader" ELSE "follower"]
            /\ votes = [n \in Nodes |-> IF n = a THEN {a, b} ELSE {}]
            /\ commitIndex = [n \in Nodes |-> IF n = a THEN 1 ELSE 0]
            /\ nextIndex = [n \in Nodes |-> [p \in Nodes |-> IF n = a /\ p = b THEN 2 ELSE 1]]
            /\ matchIndex = [n \in Nodes |-> [p \in Nodes |-> IF n = a /\ p = b THEN 1 ELSE 0]]
            /\ db = [n \in Nodes |-> IF n = a THEN noop ELSE <<>>]
            /\ msgs = {}
            /\ waiting = {}
            /\ ballots = {[voter |-> n, term |-> 1, for |-> a] : n \in {a, b}}
            /\ leaders = {[term |-> 1, node |-> a]}
            /\ stood = [n \in Nodes |-> [t \in 0..MaxTerm |-> <<>>]]
            /\ ledger = [t \in 0..MaxTerm |-> IF t = 1 THEN noop ELSE <<>>]

MCNext ==
    \E n \in Nodes :
        \/ Timeout(n) /\ Spend("timeouts")
        \/ Heartbeat(n) /\ Spend("heartbeats")
        \/ \E c \in Commands : Submit(n, c) /\ Spend("submits")
        \/ \E w \in waiting : w.node = n /\ (Return(w) \/ GiveUp(w)) /\ Spend("answers")
        \/ Restart(n) /\ Spend("restarts")
        \/ \E m \in msgs : CrashInAccept(n, m) /\ m \notin msgs' /\ Spend("crashes")
        \/ \E m \in msgs : /\ Receive(n, m)
                           /\ IF m \in msgs' THEN Spend("repeats") ELSE UNCHANGED budget

Faults == {"timeouts", "heartbeats", "restarts", "crashes", "repeats"}

\* Three scenarios: two elections and a command from the start; after a
\* first election, a crash and all but one of another election, a heartbeat,
\* a restart and a repeated delivery; and, after a first election, a command
\* that is answered or not, and another election.
MCInit ==
    \/ Init /\ Within([timeouts |-> 2, submits |-> 1])
    \/ LateInit /\ \E f \in Faults \ {"crashes"} : Within([e \in Faults \ {f} |-> 1])
    \/ LateInit /\ Within([timeouts |-> 1, submits |-> 1, answers |-> 1])

MCSpec == MCInit /\ [][MCNext]_<<vars, budget>>

\* The last scenario with a heartbeat.
SubmitSpec ==
    /\ LateInit
    /\ Within([timeouts |-> 1, heartbeats |-> 1, submits |-> 1, answers |-> 1])
    /\ [][MCNext]_<<vars, budget>>

NodeSymmetry == Permutations(Nodes)
=============================================================================
