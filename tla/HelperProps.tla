---------------------------- MODULE HelperProps ----------------------------
(* What a client of the helper may rely on. *)
EXTENDS Helper

\* Every variable holds a value of its kind.
TypeOK ==
    /\ client \in [Client -> {"idle", "waiting", "closing", "gone"}]
    /\ request \in [Client -> Request \cup {None}]
    /\ call \in [Client -> 0..MaxCalls] /\ calls \in 0..MaxCalls
    /\ told \in [Client -> [code : Code \cup {None}, results : Seq(Outcome)]]
    /\ helper \in [Client -> {"none", "prompt", "check", "lock", "run"}]
    /\ done \in [Client -> Seq(Outcome)]
    /\ lock \in Client \cup {None}
    /\ log \in Seq([call : 1..MaxCalls, op : Op, outcome : Outcome, kills : BOOLEAN])

\* What the log holds of a call: nothing, or these operations with these
\* outcomes, one after the other, and no more.
Entries(n) == {i \in DOMAIN log : log[i].call = n}
NothingRan(n) == Entries(n) = {}
Ran(n, ops, outcomes) ==
    /\ Len(outcomes) = Len(ops)
    /\ \E k \in 0..Len(log) :
          /\ Entries(n) = (k + 1)..(k + Len(ops))
          /\ \A j \in DOMAIN ops : log[k + j].op = ops[j] /\ log[k + j].outcome = outcomes[j]

\* A call that returned, with an answer or with an error, left no helper at work
\* behind it: the next call of the window does not meet the last one still
\* running (subprocess.run in client.call, and its timeout).
NothingLeft == \A c \in Client : client[c] = "idle" => helper[c] = "none"

\* The operations of one request are not mixed with those of another: a batch
\* holds the state lock from its first op to its last (_dispatch).
Together ==
    \A i, k \in DOMAIN log : log[i].call = log[k].call => \A j \in i..k : log[j].call = log[i].call

\* What call returns is what happened (_run_batch, handle, client.call): a batch
\* has one result for each of its ops, in their order, failed ones included;
\* another action returns for the one operation that ran; and a call that was
\* refused, or timed out with that code, ran nothing.
ToldTheTruth ==
    \A c \in Client : client[c] = "idle" =>
        LET code == told[c].code
        IN  /\ code = "results" => Ran(call[c], Ops(c), told[c].results)
            /\ code \in Outcome =>
                   IF request[c].kind = "status" THEN NothingRan(call[c]) ELSE Ran(call[c], Ops(c), <<code>>)
            /\ code \in {"timeout", "permission_denied", "invalid_request"} => NothingRan(call[c])

\* What a call returns is what happened, though the helper is refused, times out,
\* is interrupted or killed (_run_batch, handle, client.call): a call that
\* returned left no helper at work behind it, and the operations of one request
\* are not mixed with another's (_dispatch).
AnswersAreTrue == TypeOK /\ ToldTheTruth /\ NothingLeft /\ Together

\* A client gets an answer or an error, though nobody answers the prompt of
\* pkexec and helpers wait for one another's lock.
CallReturns == \A c \in Client : []<>(client[c] \notin {"waiting", "closing"})

\* A client that gave up waiting says so ("helper did not respond within ...").
TimeoutIsSaid ==
    [][\A c \in Client : client[c] = "closing" /\ client'[c] = "idle" => told'[c].code = "timeout"]_vars
=============================================================================
