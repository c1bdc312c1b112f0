------------------------------- MODULE Window -------------------------------
(***************************************************************************)
(* The main window (ui/app.py) and its worker (ui/worker.py).              *)
(*                                                                         *)
(* One thread runs the handlers, each to its end or to a dialog it opens:  *)
(* a dialog runs the event loop again, so other handlers run before the    *)
(* one that opened it goes on ("stack").  Requests to the root helper and  *)
(* readings of the state run in threads of their own ("jobs"), put what    *)
(* they found in a queue ("results"), and a timer hands it to the handler  *)
(* that waits for it.                                                      *)
(*                                                                         *)
(* The state file is its version number: a snapshot is the version read.   *)
(***************************************************************************)
EXTENDS Naturals, Sequences, FiniteSets, SequencesExt

CONSTANTS
    Item,           \* what can be queued: an interface and an application
    Id,             \* names of jobs
    None,           \* the null value
    MayNotGrab,     \* whether a dialog may fail to take the input (grab_set)
    MaxDialogs,     \* bound on the handlers that wait at a time
    MaxWorld,       \* bound on the versions of the state file
    MaxFaults       \* bound on the readings of the state that fail

ASSUME BoundsAreRight == MayNotGrab \in BOOLEAN /\ MaxDialogs \in Nat /\ MaxWorld \in Nat /\ MaxFaults \in Nat

VARIABLES
    pending,        \* the queue, in the order of its table
    selected,       \* the selected row of that table, 0 for none
    assigning,      \* "Start all" has begun and its result has not arrived
    busy,           \* requests that change something and have not returned
    stack,          \* handlers that wait for their dialog, the last first
    inflight,       \* a snapshot has been asked for and has not arrived
    shown,          \* the version of the state in the Bindings table
    open,           \* the window exists
    \* the worker
    jobs,           \* the job under each name, or None
    results,        \* names of the jobs that have returned, in order
    \* the system
    world,          \* the version of the state file
    faults          \* readings that have failed

queue == <<pending, selected>>
worker == <<jobs, results>>
system == <<world, faults>>
vars == <<queue, assigning, busy, stack, inflight, shown, open, worker, system>>

\* The elements of a sequence.
Elements(s) == {s[k] : k \in 1..Len(s)}

\* What a handler that waits was doing: planning a start (with the items it
\* has not come to and those it has planned), asking before a request, or
\* showing an error after one.
Frame == [for : {"start", "request", "error"}, asks : BOOLEAN, grabs : BOOLEAN,
          todo : Seq(Item), plan : Seq(Item)]

Job == [kind : {"snapshot", "start", "request"}, plan : Seq(Item),
        did : Seq(BOOLEAN), failed : BOOLEAN, read : (0..MaxWorld) \cup {None}]

ASSUME NullIsNew == None \notin Id \cup Job \cup Nat

\* Every variable holds a value of its kind.
TypeOK ==
    /\ pending \in Seq(Item) /\ selected \in Nat
    /\ assigning \in BOOLEAN /\ busy \in Nat
    /\ stack \in Seq(Frame)
    /\ inflight \in BOOLEAN /\ shown \in 0..MaxWorld /\ open \in BOOLEAN
    /\ jobs \in [Id -> Job \cup {None}]
    /\ results \in Seq(Id)
    /\ world \in 0..MaxWorld /\ faults \in 0..MaxFaults

Init ==
    /\ pending = <<>> /\ selected = 0
    /\ assigning = FALSE /\ busy = 0 /\ stack = <<>>
    /\ inflight = FALSE /\ shown = 0 /\ open = TRUE
    /\ jobs = [id \in Id |-> None] /\ results = <<>>
    /\ world = 0 /\ faults = 0

-----------------------------------------------------------------------------
\* Worker

Snapshot == [kind |-> "snapshot", plan |-> <<>>, did |-> <<>>, failed |-> FALSE, read |-> None]
Request == [Snapshot EXCEPT !.kind = "request"]
Start(plan) == [Snapshot EXCEPT !.kind = "start", !.plan = plan]

Free(table) == {id \in Id : table[id] = None}
Running == {id \in Id : jobs[id] # None /\ id \notin Elements(results)}
Changes(id) == jobs[id] # None /\ jobs[id].kind # "snapshot"

\* submit, for a request that locks the buttons.
RunMutation(job) ==
    \E id \in Free(jobs) :
        /\ jobs' = [jobs EXCEPT ![id] = job]
        /\ busy' = busy + 1

\* Mutant: a snapshot is asked for although one is under way.
RefreshSnapshot_Again(table) ==
    /\ inflight' = TRUE
    /\ \E id \in Free(table) : jobs' = [table EXCEPT ![id] = Snapshot]

\* refresh_snapshot: nothing when one is under way.  "table" holds the jobs
\* once the one that asks for it is over.
RefreshSnapshot(table) ==
    IF inflight
      THEN jobs' = table /\ UNCHANGED inflight
      ELSE /\ inflight' = TRUE
           /\ \E id \in Free(table) : jobs' = [table EXCEPT ![id] = Snapshot]

\* The thread reads the state file, and later returns.
ReadState(id) ==
    /\ id \in Running /\ jobs[id].kind = "snapshot" /\ jobs[id].read = None
    /\ \/ jobs' = [jobs EXCEPT ![id].read = world] /\ UNCHANGED faults
       \/ /\ faults < MaxFaults /\ faults' = faults + 1
          /\ jobs' = [jobs EXCEPT ![id].failed = TRUE, ![id].read = world]
    /\ UNCHANGED <<queue, assigning, busy, stack, inflight, shown, open, results, world>>

\* The helper starts the next item of a batch, or cannot.
StartNext(id) ==
    /\ id \in Running /\ jobs[id].kind = "start" /\ ~jobs[id].failed
    /\ Len(jobs[id].did) < Len(jobs[id].plan)
    /\ \/ /\ world < MaxWorld /\ world' = world + 1
          /\ jobs' = [jobs EXCEPT ![id].did = Append(@, TRUE)]
       \/ /\ jobs' = [jobs EXCEPT ![id].did = Append(@, FALSE)]
          /\ UNCHANGED world
    /\ UNCHANGED <<queue, assigning, busy, stack, inflight, shown, open, results, faults>>

\* The authorisation is denied, the helper dies or its answer is lost.
HelperFails(id) ==
    /\ id \in Running /\ Changes(id) /\ ~jobs[id].failed
    /\ jobs' = [jobs EXCEPT ![id].failed = TRUE]
    /\ UNCHANGED <<queue, assigning, busy, stack, inflight, shown, open, results, system>>

\* What a job's function has come to its end; its result goes to the queue.
Return(id) ==
    /\ id \in Running
    /\ \/ jobs[id].kind = "snapshot" /\ jobs[id].read # None
       \/ jobs[id].kind = "start" /\ (jobs[id].failed \/ Len(jobs[id].did) = Len(jobs[id].plan))
       \/ jobs[id].kind = "request"
    /\ results' = Append(results, id)
    /\ UNCHANGED <<queue, assigning, busy, stack, inflight, shown, open, jobs, system>>

\* Another change of the state file: the effect of a request, the watcher,
\* the command line.
WorldChanges ==
    /\ world < MaxWorld /\ world' = world + 1
    /\ UNCHANGED <<queue, assigning, busy, stack, inflight, shown, open, worker, faults>>

-----------------------------------------------------------------------------
(* The queue and the handlers of the user's actions *)

\* The event loop runs: no handler does, or the one that does has a dialog.
Looping == open /\ (stack # <<>> => Head(stack).asks)

\* The user's actions reach the main window.
UserFree == Looping /\ (stack # <<>> => ~Head(stack).grabs)

\* Mutant: no dialog takes the input.
Grabs_Never == {FALSE}

\* A dialog takes the input, unless grab_set fails.
Grabs == IF MayNotGrab THEN BOOLEAN ELSE {TRUE}

Push(frame) == stack' = <<frame>> \o stack
Waiting(for, grabs) == [for |-> for, asks |-> TRUE, grabs |-> grabs, todo |-> <<>>, plan |-> <<>>]

\* The rows of the table are named after their place in the queue: the
\* selection stays at its place, and goes when the place does.
StillSelected(rows) == IF selected <= Len(rows) THEN selected ELSE 0

\* _on_add, and queue_add: once for an interface and an application.
Add(i) ==
    /\ UserFree
    /\ i \notin Elements(pending)
    /\ pending' = Append(pending, i)
    /\ UNCHANGED <<selected, assigning, busy, stack, inflight, shown, open, worker, system>>

SelectQueued(k) ==
    /\ UserFree
    /\ k \in 1..Len(pending) /\ selected' = k
    /\ UNCHANGED <<pending, assigning, busy, stack, inflight, shown, open, worker, system>>

\* _on_remove_queued
RemoveQueued ==
    /\ UserFree
    /\ ~assigning /\ busy = 0 /\ selected \in 1..Len(pending)
    /\ pending' = RemoveAt(pending, selected)
    /\ selected' = 0
    /\ UNCHANGED <<assigning, busy, stack, inflight, shown, open, worker, system>>

\* Mutant: the queue is cleared while a start is under way.
Clear_WhenBusy ==
    /\ UserFree /\ pending # <<>>
    /\ pending' = <<>> /\ selected' = 0
    /\ UNCHANGED <<assigning, busy, stack, inflight, shown, open, worker, system>>

\* _on_clear
Clear ==
    /\ UserFree
    /\ busy = 0 /\ pending # <<>>
    /\ pending' = <<>> /\ selected' = 0
    /\ UNCHANGED <<assigning, busy, stack, inflight, shown, open, worker, system>>

\* A handler that sends its request at once: stop, restart, move, ...
Press ==
    /\ UserFree /\ busy = 0
    /\ RunMutation(Request)
    /\ UNCHANGED <<queue, assigning, stack, inflight, shown, open, results, system>>

\* A handler that asks first: limit, DNS, remove, force quit, reset.
AskFirst ==
    /\ UserFree /\ busy = 0 /\ Len(stack) < MaxDialogs
    /\ \E grabs \in Grabs : Push(Waiting("request", grabs))
    /\ UNCHANGED <<queue, assigning, busy, inflight, shown, open, worker, system>>

\* The answer sends the request, whatever has begun since it was asked.
Confirm ==
    /\ Looping /\ stack # <<>> /\ Head(stack).for = "request"
    /\ stack' = Tail(stack)
    /\ RunMutation(Request)
    /\ UNCHANGED <<queue, assigning, inflight, shown, open, results, system>>

Cancel ==
    /\ Looping /\ stack # <<>> /\ Head(stack).for = "request"
    /\ stack' = Tail(stack)
    /\ UNCHANGED <<queue, assigning, busy, inflight, shown, open, worker, system>>

-----------------------------------------------------------------------------
(* Start all: _on_assign *)

Assign ==
    /\ UserFree
    /\ busy = 0 /\ pending # <<>> /\ Len(stack) < MaxDialogs
    /\ assigning' = TRUE
    /\ Push([for |-> "start", asks |-> FALSE, grabs |-> FALSE, todo |-> pending, plan |-> <<>>])
    /\ UNCHANGED <<queue, busy, inflight, shown, open, worker, system>>

Planning == open /\ stack # <<>> /\ Head(stack).for = "start"
ReplaceTop(frame) == stack' = <<frame>> \o Tail(stack)

\* The next item needs no question, because nothing of it runs or because it
\* was queued with an answer ...
PlanNext ==
    /\ Planning /\ ~Head(stack).asks /\ Head(stack).todo # <<>>
    /\ ReplaceTop([Head(stack) EXCEPT !.todo = Tail(@), !.plan = Append(@, Head(Head(stack).todo))])
    /\ UNCHANGED <<queue, assigning, busy, inflight, shown, open, worker, system>>

\* ... or a dialog asks,
AskRunning ==
    /\ Planning /\ ~Head(stack).asks /\ Head(stack).todo # <<>>
    /\ \E grabs \in Grabs : ReplaceTop([Head(stack) EXCEPT !.asks = TRUE, !.grabs = grabs])
    /\ UNCHANGED <<queue, assigning, busy, inflight, shown, open, worker, system>>

\* and the item is planned, or stays in the queue.
AnswerRunning ==
    /\ Planning /\ Head(stack).asks
    /\ LET top == [Head(stack) EXCEPT !.asks = FALSE, !.todo = Tail(@)]
       IN \/ ReplaceTop([top EXCEPT !.plan = Append(@, Head(Head(stack).todo))])
          \/ ReplaceTop(top)
    /\ UNCHANGED <<queue, assigning, busy, inflight, shown, open, worker, system>>

PlanDone ==
    /\ Planning /\ ~Head(stack).asks /\ Head(stack).todo = <<>>
    /\ stack' = Tail(stack)
    /\ IF Head(stack).plan = <<>>
         THEN assigning' = FALSE /\ UNCHANGED <<busy, jobs>>
         ELSE RunMutation(Start(Head(stack).plan)) /\ UNCHANGED assigning
    /\ UNCHANGED <<queue, inflight, shown, open, results, system>>

-----------------------------------------------------------------------------
(* Results: Worker._poll *)

\* The timer that delivers runs again only when the handler it called is over.
Polling == Looping /\ \A k \in 1..Len(stack) : stack[k].for # "error"

Arrived == jobs[Head(results)]
\* Mutant: a result is handed over and stays.
Forget_Keeps == jobs
Forget == [jobs EXCEPT ![Head(results)] = None]

\* Mutant: a reading that failed leaves its flag.
DeliverSnapshot_FlagStays ==
    /\ Polling /\ results # <<>> /\ Arrived.kind = "snapshot"
    /\ results' = Tail(results) /\ jobs' = Forget
    /\ inflight' = Arrived.failed
    /\ shown' = IF Arrived.failed THEN shown ELSE Arrived.read
    /\ UNCHANGED <<queue, assigning, busy, stack, open, system>>

\* _on_snapshot
DeliverSnapshot ==
    /\ Polling /\ results # <<>> /\ Arrived.kind = "snapshot"
    /\ results' = Tail(results) /\ jobs' = Forget
    /\ inflight' = FALSE
    /\ shown' = IF Arrived.failed THEN shown ELSE Arrived.read
    /\ UNCHANGED <<queue, assigning, busy, stack, open, system>>

\* done, in _run_mutation, of what has succeeded.
DeliverRequest ==
    /\ Polling /\ results # <<>> /\ Arrived.kind = "request" /\ ~Arrived.failed
    /\ results' = Tail(results)
    /\ busy' = busy - 1
    /\ RefreshSnapshot(Forget)
    /\ UNCHANGED <<queue, assigning, stack, shown, open, system>>

\* Mutant: an item leaves the queue although its start has failed.
Succeeded_All(job) == Elements(job.plan)

\* What the helper says it has started.
Succeeded(job) == {job.plan[k] : k \in {n \in 1..Len(job.did) : job.did[n]}}

\* The members of a set of numbers, in order.
Ascending(S) == {at \in [1..Cardinality(S) -> S] : \A j, k \in DOMAIN at : j < k => at[j] < at[k]}

\* _on_batch_done: what was started leaves the queue, the rest stays in order.
DeliverStart ==
    /\ Polling /\ results # <<>> /\ Arrived.kind = "start" /\ ~Arrived.failed
    /\ results' = Tail(results)
    /\ busy' = busy - 1
    /\ assigning' = FALSE
    /\ \E at \in Ascending({k \in 1..Len(pending) : pending[k] \notin Succeeded(Arrived)}) :
          pending' = [k \in DOMAIN at |-> pending[at[k]]]
    /\ selected' = StillSelected(pending')
    /\ RefreshSnapshot(Forget)
    /\ UNCHANGED <<stack, shown, open, system>>

\* Mutants: an error leaves the buttons locked, or the start marked as going on.
DeliverError_StaysBusy ==
    /\ Polling /\ results # <<>> /\ Changes(Head(results)) /\ Arrived.failed
    /\ results' = Tail(results) /\ jobs' = Forget
    /\ assigning' = (assigning /\ Arrived.kind # "start")
    /\ \E grabs \in Grabs : Push(Waiting("error", grabs))
    /\ UNCHANGED <<queue, busy, inflight, shown, open, system>>

DeliverError_StaysAssigning ==
    /\ Polling /\ results # <<>> /\ Changes(Head(results)) /\ Arrived.failed
    /\ results' = Tail(results) /\ jobs' = Forget
    /\ busy' = busy - 1
    /\ \E grabs \in Grabs : Push(Waiting("error", grabs))
    /\ UNCHANGED <<queue, assigning, inflight, shown, open, system>>

\* _fail: the message box holds the handler, and what follows it.
DeliverError ==
    /\ Polling /\ results # <<>> /\ Changes(Head(results)) /\ Arrived.failed
    /\ results' = Tail(results) /\ jobs' = Forget
    /\ busy' = busy - 1
    /\ assigning' = (assigning /\ Arrived.kind # "start")
    /\ \E grabs \in Grabs : Push(Waiting("error", grabs))
    /\ UNCHANGED <<queue, inflight, shown, open, system>>

Dismiss ==
    /\ Looping /\ stack # <<>> /\ Head(stack).for = "error"
    /\ stack' = Tail(stack)
    /\ RefreshSnapshot(jobs)
    /\ UNCHANGED <<queue, assigning, busy, shown, open, results, system>>

-----------------------------------------------------------------------------
\* _auto_refresh_tick; F5 does no more.
Tick ==
    /\ Looping /\ ~inflight
    /\ RefreshSnapshot(jobs)
    /\ UNCHANGED <<queue, assigning, busy, stack, shown, open, results, system>>

\* _on_close: the threads end with the program.
Close ==
    /\ Looping
    /\ open' = FALSE
    /\ stack' = <<>> /\ results' = <<>> /\ jobs' = [id \in Id |-> None]
    /\ busy' = 0 /\ assigning' = FALSE /\ inflight' = FALSE
    /\ pending' = <<>> /\ selected' = 0
    /\ UNCHANGED <<shown, system>>

User ==
    \/ \E i \in Item : Add(i)
    \/ \E k \in 1..Len(pending) : SelectQueued(k)
    \/ RemoveQueued \/ Clear \/ Press \/ AskFirst \/ Confirm \/ Cancel \/ Assign
    \/ AnswerRunning \/ Dismiss \/ Close

Plan == PlanNext \/ AskRunning \/ PlanDone
Poll == DeliverSnapshot \/ DeliverRequest \/ DeliverStart \/ DeliverError
Thread(id) == ReadState(id) \/ StartNext(id) \/ HelperFails(id) \/ Return(id)

Next == User \/ Plan \/ Poll \/ Tick \/ WorldChanges \/ \E id \in Id : Thread(id)

Spec == Init /\ [][Next]_vars

\* A timer that is due is served when the event loop runs again, whatever the
\* user does in between; threads return (the client gives up on a helper that
\* does not answer), and a handler without a dialog comes to its end.
Fairness ==
    /\ SF_vars(Tick) /\ SF_vars(Poll) /\ WF_vars(Plan)
    /\ \A id \in Id : WF_vars(ReadState(id) \/ StartNext(id) \/ Return(id))

FairSpec == Spec /\ Fairness
=============================================================================
