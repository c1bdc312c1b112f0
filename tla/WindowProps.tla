----------------------------- MODULE WindowProps -----------------------------
(* What is claimed of Window. *)
EXTENDS Window

Outstanding == {id \in Id : Changes(id)}
Snapshots == {id \in Id : jobs[id] # None /\ jobs[id].kind = "snapshot"}

\* The buttons are locked exactly while a request is out, also when dialogs,
\* message boxes and results of other requests come in between
\* (_run_mutation: "with the buttons locked").
ButtonsLocked == busy = Cardinality(Outstanding)

\* While dialogs take the input, one request at a time is made of the helper.
OneRequest == Cardinality(Outstanding) <= 1

\* Never two snapshots under way, and never none while one is awaited: the
\* table would be frozen (refresh_snapshot).
OneSnapshot == Cardinality(Snapshots) = IF inflight THEN 1 ELSE 0

\* While dialogs nest, requests and snapshots answer and fail in any order, one
\* request at a time is out, with the buttons locked until its result has been
\* delivered, and one snapshot, which is always awaited (_run_mutation,
\* refresh_snapshot, Worker._poll).
OneAtATime == TypeOK /\ ButtonsLocked /\ OneRequest /\ OneSnapshot

\* What is about to be started stands in the queue until its result is known:
\* nothing the user has removed, or has cleared, is started afterwards.
BatchQueued ==
    \A id \in Outstanding : Elements(jobs[id].plan) \subseteq Elements(pending)

\* What the helper has started of the requests that are out.
Started ==
    UNION {{jobs[id].plan[k] : k \in {n \in DOMAIN jobs[id].did : jobs[id].did[n]}} : id \in Outstanding}

\* An item leaves the queue because the user takes it out, with no start under
\* way, or because the helper has started it (_on_batch_done).
LeavesStarted ==
    [][open' => \A i \in Elements(pending) \ Elements(pending') :
            i \in Started \/ (busy = 0 /\ ~assigning)]_vars

\* The queue holds what is being started until it has started, and what has not,
\* whatever the user does to the queue while the request is out (_on_assign,
\* _on_batch_done).
QueueKept == []BatchQueued /\ LeavesStarted

\* The tables never go back to an older state than they have shown: no reading
\* that is overtaken by a later one is applied (_on_snapshot).
NeverOlder == [][shown' >= shown]_vars

\* The table catches up with the state file, whatever is written to it and
\* whichever reading is under way, unless a message box holds the delivery of
\* results.  (Readings that fail and changes of the file come to an end.)
CatchesUp ==
    []<>(shown = world \/ ~open \/ \E k \in 1..Len(stack) : stack[k].for = "error")

\* What the window shows moves forward only, and arrives.
TablesFollow == NeverOlder /\ CatchesUp

\* "Start all" ends: the queue can be edited again, whatever became of the
\* request, unless a dialog waits for the user.
AssignEnds == assigning ~> (~assigning \/ stack # <<>>)

\* _sync_tree: "updating items in place so selection and scroll survive
\* refreshes".  When the items that were started leave the queue, the item
\* that stays selected is the one the user selected.
SelectionSurvives ==
    [][selected' # 0 /\ pending' # pending => pending'[selected'] = pending[selected]]_vars

=============================================================================
