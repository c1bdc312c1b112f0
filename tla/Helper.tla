------------------------------- MODULE Helper -------------------------------
(***************************************************************************)
(* The calls of the privileged helper.  A client (a window's worker or a   *)
(* command, helper/client.py) starts `pkexec intermux helper`, waits for   *)
(* one answer and gives up after a time; the helper (helper/server.py)     *)
(* checks the request, takes the state lock and runs the operations.       *)
(***************************************************************************)
EXTENDS Naturals, Sequences, SequencesExt

CONSTANTS
    Client,
    Terminal,       \* the clients that Ctrl-C reaches, and their helper with them
    Direct,         \* root shells that start the helper themselves: no user is known
    Request,        \* [kind, ops, valid]
    None,
    MaxCalls        \* bound on the calls of a run

Kinds == {"status", "batch", "user", "reset", "plain"}
Op == UNION {Range(r.ops) : r \in Request}

VARIABLES
    client,         \* "idle", "waiting", "closing" (gave up, the helper lives) or "gone"
    request,        \* what each client asked
    call,           \* the number of its call
    told,           \* what its last call returned or raised
    calls,          \* how many calls were made
    helper,         \* of each client: "none", "prompt", "check", "lock" or "run"
    done,           \* what its helper has done so far: the outcomes of the operations
    lock,           \* who holds the state lock
    log             \* every operation that ran, in order

helpers == <<helper, done, lock, log>>
vars == <<client, request, call, told, calls, helpers>>

Outcome == {"ok", "refused", "internal"}
Code == {"ok", "results", "timeout", "helper_error", "permission_denied", "invalid_request", "interrupted"} \cup Outcome

ASSUME NullIsNew == None \notin Client /\ None \notin Request /\ None \notin Code
ASSUME CallsAreBounded == MaxCalls \in Nat
ASSUME RequestsAreRequests ==
    \A r \in Request :
        /\ r.kind \in Kinds /\ r.valid \in BOOLEAN /\ r.ops \in Seq(Op)
        /\ r.kind # "batch" => Len(r.ops) = 1

\* Mutant: a call is told before it returns.
Pending == [code |-> "pending", results |-> <<>>]

Untold == [code |-> None, results |-> <<>>]
Told(code, results) == [code |-> code, results |-> results]

Init ==
    /\ client = [c \in Client |-> "idle"]
    /\ request = [c \in Client |-> None]
    /\ call = [c \in Client |-> 0]
    /\ told = [c \in Client |-> Untold]
    /\ calls = 0
    /\ helper = [c \in Client |-> "none"]
    /\ done = [c \in Client |-> <<>>]
    /\ lock = None
    /\ log = <<>>

Ops(c) == request[c].ops
NeedsUser(c) == request[c].kind \in {"batch", "user"}
User(c) == c \notin Direct

\* The helper of a client ends: the system frees its lock.
Ends(c) == helper' = [helper EXCEPT ![c] = "none"] /\ lock' = IF lock = c THEN None ELSE lock

\* call returns or raises.
Returns(c, code, results) ==
    /\ client' = [client EXCEPT ![c] = "idle"]
    /\ told' = [told EXCEPT ![c] = Told(code, results)]

Call(c, r) ==
    /\ client[c] = "idle" /\ calls < MaxCalls
    /\ calls' = calls + 1
    /\ call' = [call EXCEPT ![c] = calls + 1]
    /\ request' = [request EXCEPT ![c] = r]
    /\ client' = [client EXCEPT ![c] = "waiting"]
    /\ told' = [told EXCEPT ![c] = Untold]
    /\ helper' = [helper EXCEPT ![c] = IF c \in Direct THEN "check" ELSE "prompt"]
    /\ done' = [done EXCEPT ![c] = <<>>]
    /\ UNCHANGED <<lock, log>>

\* pkexec or the helper is missing.
CannotStart(c) ==
    /\ client[c] = "idle" /\ calls < MaxCalls
    /\ calls' = calls + 1
    /\ call' = [call EXCEPT ![c] = calls + 1]
    /\ told' = [told EXCEPT ![c] = Told("helper_error", <<>>)]
    /\ done' = [done EXCEPT ![c] = <<>>]
    /\ UNCHANGED <<client, request, helper, lock, log>>

Grant(c) ==
    /\ helper[c] = "prompt"
    /\ helper' = [helper EXCEPT ![c] = "check"]
    /\ UNCHANGED <<client, request, call, told, calls, done, lock, log>>

Deny(c) ==
    /\ helper[c] = "prompt"
    /\ Ends(c)
    /\ IF client[c] = "waiting" THEN Returns(c, "permission_denied", <<>>) ELSE UNCHANGED <<client, told>>
    /\ UNCHANGED <<request, call, calls, done, log>>

\* The helper writes its answer and ends; a client that gave up has closed the
\* pipe, and still waits for the end: it takes the failed kill for an error.
Answers(c, code, results) ==
    /\ Ends(c)
    /\ CASE client[c] = "waiting" -> Returns(c, code, results)
         [] client[c] = "closing" -> Returns(c, "helper_error", <<>>)
         [] OTHER -> UNCHANGED <<client, told>>

\* validate_request, _resolve_user and what of _dispatch needs no lock.
Check(c) ==
    /\ helper[c] = "check"
    /\ \/ ~request[c].valid /\ Answers(c, "invalid_request", <<>>)
       \/ request[c].valid /\ NeedsUser(c) /\ ~User(c) /\ Answers(c, "permission_denied", <<>>)
       \/ request[c].valid /\ request[c].kind = "status" /\ Answers(c, "ok", <<>>)
       \/ /\ request[c].valid /\ request[c].kind # "status" /\ (NeedsUser(c) => User(c))
          /\ helper' = [helper EXCEPT ![c] = "lock"]
          /\ UNCHANGED <<client, told, lock>>
    /\ UNCHANGED <<request, call, calls, done, log>>

\* Mutant: the lock file is opened and never locked.
NoLock(c) ==
    /\ helper[c] = "lock"
    /\ lock' = c
    /\ helper' = [helper EXCEPT ![c] = "run"]
    /\ UNCHANGED <<client, request, call, told, calls, done, log>>

Lock(c) ==
    /\ helper[c] = "lock" /\ lock = None
    /\ lock' = c
    /\ helper' = [helper EXCEPT ![c] = "run"]
    /\ UNCHANGED <<client, request, call, told, calls, done, log>>

\* Mutant: a batch ends with its first op that fails.
StopsAtFailure(c) == IF done[c] = <<>> THEN Len(Ops(c)) > 0 ELSE Len(done[c]) < Len(Ops(c)) /\ Last(done[c]) = "ok"

\* _run_batch goes on after an op that failed.
MoreToDo(c) == Len(done[c]) < Len(Ops(c))

\* One operation of the engine, which may raise an InterMuxError or fail
\* otherwise.  reset kills applications only for a user it knows.
RunOp(c) ==
    /\ helper[c] = "run" /\ MoreToDo(c)
    /\ \E outcome \in Outcome :
          /\ done' = [done EXCEPT ![c] = Append(@, outcome)]
          /\ log' = Append(log, [call |-> call[c], op |-> Ops(c)[Len(done[c]) + 1], outcome |-> outcome,
                                 kills |-> request[c].kind = "reset" /\ User(c)])
    /\ UNCHANGED <<client, request, call, told, calls, helper, lock>>

\* A batch answers with an outcome for each op, another action with its own.
Answer(c) ==
    /\ helper[c] = "run" /\ ~MoreToDo(c)
    /\ IF request[c].kind = "batch" THEN Answers(c, "results", done[c]) ELSE Answers(c, Last(done[c]), <<>>)
    /\ UNCHANGED <<request, call, calls, done, log>>

\* Mutant: the lock is a file that a helper that is killed leaves behind.
KeepsLock(c) ==
    /\ helper[c] \in {"check", "lock", "run"}
    /\ helper' = [helper EXCEPT ![c] = "none"]
    /\ IF client[c] \in {"waiting", "closing"} THEN Returns(c, "helper_error", <<>>) ELSE UNCHANGED <<client, told>>
    /\ UNCHANGED <<request, call, calls, done, lock, log>>

\* The helper is killed or crashes: nothing, or half a line, is read from it.
Die(c) ==
    /\ helper[c] \in {"check", "lock", "run"}
    /\ Answers(c, "helper_error", <<>>)
    /\ UNCHANGED <<request, call, calls, done, log>>

\* Mutant: the client returns at the timeout, whatever the helper does.
ReturnsAtOnce(c) ==
    /\ client[c] = "waiting" /\ c \notin Direct
    /\ Returns(c, "timeout", <<>>)
    /\ IF helper[c] = "prompt" THEN Ends(c) ELSE UNCHANGED <<helper, lock>>
    /\ UNCHANGED <<request, call, calls, done, log>>

\* subprocess.run kills what it started when the time is over.  pkexec can be
\* killed while it asks; the helper that it became belongs to root: the kill
\* raises, and leaving the `with` block waits for the helper to end.
Timeout(c) ==
    /\ client[c] = "waiting" /\ c \notin Direct
    /\ IF helper[c] = "prompt" THEN Ends(c) /\ Returns(c, "timeout", <<>>)
       ELSE client' = [client EXCEPT ![c] = "closing"] /\ UNCHANGED <<helper, lock, told>>
    /\ UNCHANGED <<request, call, calls, done, log>>

\* Ctrl-C reaches the whole group: pkexec or the helper dies of it as well.
Interrupt(c) ==
    /\ c \in Terminal /\ client[c] \in {"waiting", "closing"}
    /\ Ends(c)
    /\ Returns(c, "interrupted", <<>>)
    /\ UNCHANGED <<request, call, calls, done, log>>

\* The window is closed, and its worker with it; the helper goes on.
Quit(c) ==
    /\ client[c] # "gone" /\ c \notin Terminal
    /\ client' = [client EXCEPT ![c] = "gone"]
    /\ UNCHANGED <<request, call, told, calls, helpers>>

HelperStep(c) == Check(c) \/ Lock(c) \/ RunOp(c) \/ Answer(c)
Next ==
    \E c \in Client :
        \/ (\E r \in Request : Call(c, r)) \/ CannotStart(c)
        \/ Grant(c) \/ Deny(c)
        \/ HelperStep(c) \/ Die(c)
        \/ Timeout(c) \/ Interrupt(c) \/ Quit(c)

Spec == Init /\ [][Next]_vars

\* The helper runs, takes the lock when it keeps becoming free, and the clock
\* of the client runs.  Nobody has to answer the prompt.
Fairness ==
    \A c \in Client : WF_vars(Check(c) \/ RunOp(c) \/ Answer(c)) /\ SF_vars(Lock(c)) /\ WF_vars(Timeout(c))
FairSpec == Spec /\ Fairness
=============================================================================
