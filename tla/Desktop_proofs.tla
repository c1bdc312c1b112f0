---------------------------- MODULE Desktop_proofs ----------------------------
(***************************************************************************)
(* Proofs about the main window: its requests and threads (Window,         *)
(* WindowProps), for any number of items, jobs, dialogs, versions of the   *)
(* state file and failed readings; and its table (Tables, TablesProps), as *)
(* MCDesktop puts it beside them, for any number of interfaces and         *)
(* applications and any snapshots that are real.                           *)
(*                                                                         *)
(* The functions of the table are recursive.  What they compute is proved  *)
(* by induction: a set of numbers that has an element has a least one, and *)
(* so a set that has 0 and the successor of each of its elements has all.  *)
(***************************************************************************)
EXTENDS MCDesktop, FiniteSetTheorems, SequenceTheorems, WellFoundedInduction, TLAPS

\* What tables of jobs are made of.
Table == [Id -> Job \cup {None}]
Out(t) == {id \in Id : t[id] # None /\ t[id].kind # "snapshot"}
Snaps(t) == {id \in Id : t[id] # None /\ t[id].kind = "snapshot"}

\* A dialog asks of an item that is left to plan.
Sound == {frame \in Frame : frame.for = "start" /\ frame.asks => frame.todo # <<>>}

TypeInv == TypeOK /\ stack \in Seq(Sound)

\* The jobs in the queue of results have come to their end, and stand there once.
Finished(id) == jobs[id] # None /\ (jobs[id].kind = "snapshot" => jobs[id].read # None)
Queued ==
    /\ \A k \in 1..Len(results) : Finished(results[k])
    /\ \A j, k \in 1..Len(results) : results[j] = results[k] => j = k

\* The buttons are locked by as many requests as are out.
Locked == IsFiniteSet(Out(jobs)) /\ busy = Cardinality(Out(jobs))

\* A snapshot that is awaited is under way, and no other.
Awaited == IF inflight THEN \E id \in Id : Snaps(jobs) = {id} ELSE Snaps(jobs) = {}

\* What has been read since is not older than what is shown.
Fresh ==
    /\ shown <= world
    /\ \A id \in Snaps(jobs) : jobs[id].read # None => shown <= jobs[id].read /\ jobs[id].read <= world

\* The part of the invariant that holds whether dialogs take the input or not.
BaseInv == TypeInv /\ Queued /\ Locked /\ Awaited /\ Fresh

-----------------------------------------------------------------------------
(* Tables of jobs *)

\* A job that is forgotten is neither out nor under way.
LEMMA DropJob ==
    ASSUME NEW t \in Table, NEW id \in Id
    PROVE  LET u == [t EXCEPT ![id] = None]
           IN  u \in Table /\ Out(u) = Out(t) \ {id} /\ Snaps(u) = Snaps(t) \ {id}
  BY DEF Table, Out, Snaps

\* A job that goes on stays what it is.
LEMMA ChangeJob ==
    ASSUME NEW t \in Table, NEW id \in Id, t[id] \in Job, NEW job \in Job, job.kind = t[id].kind,
           NEW u, u = [t EXCEPT ![id] = job]
    PROVE  u \in Table /\ u[id] = job /\ Out(u) = Out(t) /\ Snaps(u) = Snaps(t)
  BY NullIsNew DEF Table, Out, Snaps

\* The jobs that handlers submit.
LEMMA NewJobs ==
    /\ Snapshot \in Job /\ Snapshot.kind = "snapshot" /\ Snapshot.read = None
    /\ Request \in Job /\ Request.kind = "request" /\ Request.plan = <<>>
    /\ \A plan \in Seq(Item) : Start(plan) \in Job /\ Start(plan).kind = "start" /\ Start(plan).plan = plan
  <1>0. <<>> \in Seq(Item) /\ <<>> \in Seq(BOOLEAN) /\ None \in (0..MaxWorld) \cup {None} /\ FALSE \in BOOLEAN
    OBVIOUS
  <1>1. Snapshot \in Job
    BY <1>0 DEF Snapshot, Job
  <1>3. Request \in Job /\ Request.kind = "request" /\ Request.plan = <<>>
    BY <1>0, <1>1 DEF Request, Snapshot, Job
  <1>4. ASSUME NEW plan \in Seq(Item)
        PROVE  Start(plan) \in Job /\ Start(plan).kind = "start" /\ Start(plan).plan = plan
    BY <1>0, <1>1 DEF Start, Snapshot, Job
  <1>5. Snapshot.kind = "snapshot" /\ Snapshot.read = None
    BY DEF Snapshot
  <1> QED BY <1>1, <1>3, <1>4, <1>5

-----------------------------------------------------------------------------
(* Types *)

\* As many places as members: every member has one.
LEMMA Onto ==
    ASSUME NEW S, NEW n \in Nat, NEW f \in Injection(1..n, S), IsFiniteSet(S), n = Cardinality(S)
    PROVE  \A x \in S : \E k \in 1..n : f[k] = x
  <1>1. Cardinality(1..n) = n
    BY FS_Interval
  <1>2. f \in Surjection(1..n, S)
    BY <1>1, FS_Injection
  <1> QED BY <1>2 DEF Surjection

\* What stays of a queue is a queue.
LEMMA KeptIsQueue ==
    ASSUME NEW s \in Seq(Item), NEW S, S \subseteq 1..Len(s), NEW at \in Ascending(S)
    PROVE  /\ [k \in DOMAIN at |-> s[at[k]]] \in Seq(Item)
           /\ Elements([k \in DOMAIN at |-> s[at[k]]]) = {s[k] : k \in S}
  <1>0. Len(s) \in Nat /\ IsFiniteSet(1..Len(s)) /\ S \in SUBSET (1..Len(s))
    BY FS_Interval
  <1>1. IsFiniteSet(S) /\ Cardinality(S) \in Nat
    BY <1>0, FS_Subset, FS_CardinalityType
  <1>n. PICK n \in Nat : n = Cardinality(S)
    BY <1>1
  <1> DEFINE q == [k \in 1..n |-> s[at[k]]]
  <1>2. at \in [1..n -> S] /\ DOMAIN at = 1..n /\ \A j, k \in 1..n : j < k => at[j] < at[k]
    BY <1>n DEF Ascending
  <1>a. \A k \in 1..n : at[k] \in S /\ at[k] \in Nat
    <2>1. \A k \in 1..n : at[k] \in S
      BY <1>2, Zenon
    <2>2. \A x \in S : x \in Nat
      BY <1>0
    <2> QED BY <2>1, <2>2, Zenon
  <1>3. at \in Injection(1..n, S)
    <2>1. \A j, k \in 1..n : at[j] = at[k] => j = k
      <3> SUFFICES ASSUME NEW j \in 1..n, NEW k \in 1..n, at[j] = at[k] PROVE j = k
        OBVIOUS
      <3>1. at[j] \in Nat /\ at[k] \in Nat
        BY <1>a
      <3> QED BY <1>2, <3>1
    <2> QED BY <1>2, <2>1, Zenon DEF Injection, IsInjective
  <1>5. \A k \in 1..n : at[k] \in 1..Len(s) /\ s[at[k]] \in Item
    BY <1>0, <1>a
  <1>6. q \in Seq(Item) /\ Len(q) = n
    BY <1>1, <1>5
  <1>7. \A x \in S : \E k \in 1..n : at[k] = x
    BY <1>1, <1>n, <1>3, Onto
  <1>8. Elements(q) = {s[k] : k \in S}
    <2>1. Elements(q) = {s[at[k]] : k \in 1..n}
      BY <1>6 DEF Elements
    <2> QED BY <2>1, <1>2, <1>7
  <1> QED BY <1>2, <1>6, <1>8

\* A dialog takes the input, or may not.
LEMMA GrabsAreTruths == Grabs \subseteq BOOLEAN /\ (~MayNotGrab => Grabs = {TRUE})
  BY BoundsAreRight DEF Grabs

\* What the handlers push are frames.
LEMMA FramesArePushed ==
    ASSUME TypeInv
    PROVE  /\ \A for \in {"request", "error"}, grabs \in BOOLEAN : Waiting(for, grabs) \in Sound
           /\ [for |-> "start", asks |-> FALSE, grabs |-> FALSE, todo |-> pending, plan |-> <<>>] \in Sound
           /\ \A frame \in Sound : <<frame>> \o stack \in Seq(Sound)
           /\ stack # <<>> =>
                /\ Head(stack) \in Sound /\ Tail(stack) \in Seq(Sound)
                /\ \A frame \in Sound : <<frame>> \o Tail(stack) \in Seq(Sound)
  <1>1. <<>> \in Seq(Item) /\ pending \in Seq(Item) /\ stack \in Seq(Sound)
    BY DEF TypeOK, TypeInv
  <1>2. \A for \in {"request", "error"}, grabs \in BOOLEAN : Waiting(for, grabs) \in Sound
    BY <1>1 DEF Waiting, Frame, Sound
  <1>3. [for |-> "start", asks |-> FALSE, grabs |-> FALSE, todo |-> pending, plan |-> <<>>] \in Sound
    BY <1>1 DEF Frame, Sound
  <1>4. \A q \in Seq(Sound), frame \in Sound : <<frame>> \o q \in Seq(Sound)
    OBVIOUS
  <1>5. stack # <<>> => Head(stack) \in Sound /\ Tail(stack) \in Seq(Sound)
    BY <1>1
  <1> QED BY <1>1, <1>2, <1>3, <1>4, <1>5

\* A handler that plans goes on with a frame.
LEMMA PlanningFrames ==
    ASSUME NEW top \in Sound, NEW grabs \in BOOLEAN, top.todo # <<>>
    PROVE  /\ [top EXCEPT !.asks = TRUE, !.grabs = grabs] \in Sound
           /\ ~top.asks => [top EXCEPT !.todo = Tail(@), !.plan = Append(@, Head(top.todo))] \in Sound
           /\ [top EXCEPT !.asks = FALSE, !.todo = Tail(@)] \in Sound
           /\ [[top EXCEPT !.asks = FALSE, !.todo = Tail(@)] EXCEPT !.plan = Append(@, Head(top.todo))] \in Sound
  <1>1. Tail(top.todo) \in Seq(Item) /\ Append(top.plan, Head(top.todo)) \in Seq(Item)
    BY DEF Frame, Sound
  <1>2. [top EXCEPT !.asks = TRUE, !.grabs = grabs] \in Sound
    BY DEF Frame, Sound
  <1>3. ~top.asks => [top EXCEPT !.todo = Tail(@), !.plan = Append(@, Head(top.todo))] \in Sound
    BY <1>1 DEF Frame, Sound
  <1>4. [top EXCEPT !.asks = FALSE, !.todo = Tail(@)] \in Sound
    BY <1>1 DEF Frame, Sound
  <1>5. [[top EXCEPT !.asks = FALSE, !.todo = Tail(@)] EXCEPT !.plan = Append(@, Head(top.todo))] \in Sound
    BY <1>1 DEF Frame, Sound
  <1> QED BY <1>2, <1>3, <1>4, <1>5

\* Frames are frames.
LEMMA SoundIsTyped == ASSUME NEW q \in Seq(Sound) PROVE q \in Seq(Frame)
  BY DEF Sound

-----------------------------------------------------------------------------
(* The dialogs and the queue: steps that leave jobs and results alone *)

\* The handlers of the user that only edit the queue or open and close dialogs,
\* and those that plan a start.
Editing ==
    \/ (\E i \in Item : Add(i)) \/ (\E k \in 1..Len(pending) : SelectQueued(k))
    \/ RemoveQueued \/ Clear \/ AskFirst \/ Cancel \/ Assign
    \/ PlanNext \/ AskRunning \/ AnswerRunning

Outside == <<jobs, results, busy, inflight, shown, open, world, faults>>

LEMMA EditingIsInside == Editing => UNCHANGED Outside
  BY DEF Editing, Outside, Add, SelectQueued, RemoveQueued, Clear, AskFirst, Cancel, Assign, PlanNext, AskRunning,
         AnswerRunning, worker, system, queue

LEMMA EditingTyped == ASSUME TypeInv, Editing PROVE TypeInv'
  <1> USE DEF TypeInv
  <1>t. /\ pending \in Seq(Item) /\ selected \in Nat /\ assigning \in BOOLEAN /\ stack \in Seq(Sound)
    BY DEF TypeOK
  <1>s. SUFFICES pending' \in Seq(Item) /\ selected' \in Nat /\ assigning' \in BOOLEAN /\ stack' \in Seq(Sound)
    <2>1. stack' \in Seq(Sound) => stack' \in Seq(Frame)
      BY SoundIsTyped
    <2> QED BY <2>1, EditingIsInside DEF TypeOK, Outside
  <1>1. CASE \E i \in Item : Add(i)
    BY <1>1, <1>t DEF Add
  <1>2. CASE \E k \in 1..Len(pending) : SelectQueued(k)
    BY <1>2, <1>t DEF SelectQueued
  <1>3. CASE RemoveQueued
    <2>1. selected \in 1..Len(pending) /\ Len(pending) \in Nat
      BY <1>3, <1>t DEF RemoveQueued
    <2>2. SubSeq(pending, 1, selected - 1) \in Seq(Item) /\ SubSeq(pending, selected + 1, Len(pending)) \in Seq(Item)
      BY <2>1, <1>t
    <2>3. RemoveAt(pending, selected) \in Seq(Item)
      BY <2>2 DEF RemoveAt
    <2> QED BY <1>3, <1>t, <2>3 DEF RemoveQueued
  <1>4. CASE Clear
    BY <1>4, <1>t DEF Clear
  <1>5. CASE AskFirst
    BY <1>5, <1>t, FramesArePushed, GrabsAreTruths DEF AskFirst, Push, queue
  <1>6. CASE Cancel
    BY <1>6, <1>t, FramesArePushed DEF Cancel, queue
  <1>7. CASE Assign
    BY <1>7, <1>t, FramesArePushed DEF Assign, Push, queue
  <1> DEFINE top == Head(stack)
  <1>8. CASE PlanNext
    <2>1. top \in Sound /\ top.todo # <<>> /\ ~top.asks
      BY <1>8, FramesArePushed DEF PlanNext, Planning
    <2>2. [top EXCEPT !.todo = Tail(@), !.plan = Append(@, Head(top.todo))] \in Sound
      BY <2>1, PlanningFrames
    <2> QED BY <1>8, <1>t, <2>2, FramesArePushed DEF PlanNext, Planning, ReplaceTop, queue
  <1>9. CASE AskRunning
    <2>1. top \in Sound /\ top.todo # <<>>
      BY <1>9, FramesArePushed DEF AskRunning, Planning
    <2>2. \A grabs \in Grabs : [top EXCEPT !.asks = TRUE, !.grabs = grabs] \in Sound
      BY <2>1, PlanningFrames, GrabsAreTruths
    <2> QED BY <1>9, <1>t, <2>2, FramesArePushed DEF AskRunning, Planning, ReplaceTop, queue
  <1>10. CASE AnswerRunning
    <2>1. top \in Sound /\ top.todo # <<>>
      BY <1>10, FramesArePushed DEF AnswerRunning, Planning, Sound
    <2>2. /\ [top EXCEPT !.asks = FALSE, !.todo = Tail(@)] \in Sound
          /\ [[top EXCEPT !.asks = FALSE, !.todo = Tail(@)] EXCEPT !.plan = Append(@, Head(top.todo))] \in Sound
      BY <2>1, PlanningFrames
    <2> QED BY <1>10, <1>t, <2>2, FramesArePushed DEF AnswerRunning, Planning, ReplaceTop, queue
  <1> QED BY <1>1, <1>2, <1>3, <1>4, <1>5, <1>6, <1>7, <1>8, <1>9, <1>10 DEF Editing

-----------------------------------------------------------------------------
(* Jobs and results *)

JobsInv == Queued /\ Locked /\ Awaited /\ Fresh

\* A request that is submitted locks the buttons once more.
LEMMA Submits ==
    ASSUME BaseInv, NEW id \in Free(jobs), NEW job \in Job, job.kind # "snapshot",
           jobs' = [jobs EXCEPT ![id] = job], busy' = busy + 1, UNCHANGED <<results, inflight, shown, world>>
    PROVE  jobs' \in Table /\ busy' \in Nat /\ Out(jobs') = Out(jobs) \cup {id} /\ JobsInv'
  <1> USE DEF BaseInv
  <1>1. jobs \in Table /\ results \in Seq(Id) /\ busy \in Nat
    BY DEF TypeInv, TypeOK, Table
  <1>2. /\ jobs' \in Table /\ jobs'[id] = job /\ id \notin Out(jobs)
        /\ Out(jobs') = Out(jobs) \cup {id} /\ Snaps(jobs') = Snaps(jobs)
    BY <1>1, NullIsNew DEF Table, Out, Snaps, Free
  <1>3. \A x \in Id : x # id => jobs'[x] = jobs[x]
    BY <1>1 DEF Table
  <1>4. jobs[id] = None
    BY DEF Free
  <1>5. Queued'
    <2>1. \A k \in 1..Len(results) : results[k] \in Id /\ results[k] # id
      BY <1>1, <1>4 DEF Queued, Finished
    <2> QED BY <1>3, <2>1 DEF Queued, Finished
  <1>6. Locked'
    BY <1>2, FS_AddElement DEF Locked
  <1>7. Awaited'
    BY <1>2 DEF Awaited
  <1>8. Fresh'
    <2>1. id \notin Snaps(jobs)
      BY <1>4 DEF Snaps
    <2>2. \A x \in Snaps(jobs) : jobs'[x] = jobs[x]
      BY <1>3, <2>1 DEF Snaps
    <2> QED BY <1>2, <2>2 DEF Fresh
  <1>9. busy' \in Nat
    BY <1>1
  <1>10. JobsInv'
    BY <1>5, <1>6, <1>7, <1>8 DEF JobsInv
  <1> QED BY <1>2, <1>9, <1>10

\* The result that is delivered: what is left when it is forgotten.
LEMMA Forgets ==
    ASSUME BaseInv, results # <<>>
    PROVE  LET h == Head(results)
           IN  /\ h \in Id /\ Tail(results) \in Seq(Id) /\ jobs[h] \in Job /\ Finished(h)
               /\ Forget \in Table /\ \A id \in Id : id # h => Forget[id] = jobs[id]
               /\ Out(Forget) = Out(jobs) \ {h} /\ Snaps(Forget) = Snaps(jobs) \ {h}
               /\ IsFiniteSet(Out(Forget))
               /\ Changes(h) => h \in Out(jobs) /\ busy - 1 \in Nat /\ busy - 1 = Cardinality(Out(Forget))
               /\ \A k \in 1..Len(Tail(results)) :
                    Tail(results)[k] \in Id /\ Tail(results)[k] # h /\ Finished(Tail(results)[k])
               /\ \A j, k \in 1..Len(Tail(results)) : Tail(results)[j] = Tail(results)[k] => j = k
  <1> USE DEF BaseInv
  <1> DEFINE h == Head(results)
  <1>1. jobs \in Table /\ results \in Seq(Id) /\ busy \in Nat /\ Len(results) \in Nat /\ Len(results) >= 1
    BY DEF TypeInv, TypeOK, Table
  <1>2. h = results[1] /\ h \in Id /\ Tail(results) \in Seq(Id) /\ Len(Tail(results)) = Len(results) - 1
    BY <1>1
  <1>3. \A k \in 1..Len(Tail(results)) : k + 1 \in 1..Len(results) /\ Tail(results)[k] = results[k + 1]
    BY <1>1, <1>2
  <1>4. jobs[h] \in Job /\ Finished(h)
    BY <1>1, <1>2 DEF Queued, Finished, Table
  <1>5. /\ Forget \in Table /\ Out(Forget) = Out(jobs) \ {h} /\ Snaps(Forget) = Snaps(jobs) \ {h}
        /\ \A id \in Id : id # h => Forget[id] = jobs[id]
    BY <1>1, <1>2, DropJob DEF Forget, Table
  <1>6. IsFiniteSet(Out(Forget))
    BY <1>5, FS_RemoveElement DEF Locked
  <1>7. ASSUME Changes(h)
        PROVE  h \in Out(jobs) /\ busy - 1 \in Nat /\ busy - 1 = Cardinality(Out(Forget))
    <2>1. h \in Out(jobs)
      BY <1>2, <1>7 DEF Changes, Out
    <2>2. Cardinality(Out(Forget)) = busy - 1
      BY <2>1, <1>5, FS_RemoveElement DEF Locked
    <2>3. Cardinality(Out(Forget)) \in Nat
      BY <1>6, FS_CardinalityType
    <2> QED BY <2>1, <2>2, <2>3
  <1>8. \A k \in 1..Len(Tail(results)) :
          Tail(results)[k] \in Id /\ Tail(results)[k] # h /\ Finished(Tail(results)[k])
    BY <1>1, <1>2, <1>3 DEF Queued
  <1>9. \A j, k \in 1..Len(Tail(results)) : Tail(results)[j] = Tail(results)[k] => j = k
    BY <1>1, <1>2, <1>3 DEF Queued
  <1> QED BY <1>2, <1>4, <1>5, <1>6, <1>7, <1>8, <1>9

\* Results that stay are of jobs that stay.
LEMMA StillQueued ==
    ASSUME BaseInv, results # <<>>, results' = Tail(results),
           \A id \in Id : id # Head(results) /\ jobs[id] # None => jobs'[id] = jobs[id]
    PROVE  Queued'
  BY Forgets DEF Queued, Finished

\* A refresh asks for a snapshot, or finds one under way.
LEMMA Refreshes ==
    ASSUME BaseInv, NEW t \in Table, Snaps(t) = Snaps(jobs), \A id \in Snaps(t) : t[id] = jobs[id],
           RefreshSnapshot(t), UNCHANGED <<shown, world>>
    PROVE  /\ jobs' \in Table /\ inflight' \in BOOLEAN
           /\ Out(jobs') = Out(t) /\ \A id \in Id : t[id] # None => jobs'[id] = t[id]
           /\ Awaited' /\ Fresh'
  <1> USE DEF BaseInv
  <1>1. CASE inflight
    <2>1. jobs' = t /\ inflight' = inflight
      BY <1>1 DEF RefreshSnapshot
    <2> QED BY <1>1, <2>1 DEF TypeInv, TypeOK, Awaited, Fresh
  <1>2. CASE ~inflight
    <2>1. PICK id \in Free(t) : jobs' = [t EXCEPT ![id] = Snapshot] /\ inflight' = TRUE
      BY <1>2 DEF RefreshSnapshot
    <2>2. jobs' \in Table /\ Out(jobs') = Out(t) /\ Snaps(jobs') = Snaps(t) \cup {id} /\ jobs'[id] = Snapshot
      <3>1. Snapshot \in Job /\ Snapshot.kind = "snapshot"
        BY NewJobs
      <3> QED BY <2>1, <3>1, NullIsNew DEF Table, Out, Snaps, Free
    <2>3. Snaps(t) = {}
      BY <1>2 DEF Awaited
    <2>4. \A x \in Id : t[x] # None => jobs'[x] = t[x]
      BY <2>1 DEF Free, Table
    <2>5. Awaited'
      BY <2>1, <2>2, <2>3 DEF Awaited, Free
    <2>6. Fresh'
      BY <2>2, <2>3, NewJobs DEF Fresh
    <2> QED BY <2>1, <2>2, <2>4, <2>5, <2>6
  <1> QED BY <1>1, <1>2

\* A thread goes on with its job.
LEMMA Works ==
    ASSUME BaseInv, NEW id \in Running, NEW job \in Job, job.kind = jobs[id].kind,
           jobs' = [jobs EXCEPT ![id] = job], UNCHANGED <<results, busy, inflight, shown>>,
           world \in Nat, world' \in Nat, world <= world',
           job.kind = "snapshot" /\ job.read # None => shown <= job.read /\ job.read <= world'
    PROVE  jobs' \in Table /\ Out(jobs') = Out(jobs) /\ JobsInv'
  <1> USE DEF BaseInv
  <1>1. jobs \in Table /\ results \in Seq(Id) /\ shown \in Nat
    BY DEF TypeInv, TypeOK, Table
  <1>2. id \in Id /\ jobs[id] \in Job /\ id \notin Elements(results)
    BY <1>1 DEF Running, Table
  <1>3. /\ jobs' \in Table /\ jobs'[id] = job /\ Out(jobs') = Out(jobs) /\ Snaps(jobs') = Snaps(jobs)
        /\ \A x \in Id : x # id => jobs'[x] = jobs[x]
    BY <1>1, <1>2, NullIsNew DEF Table, Out, Snaps
  <1>4. Queued'
    <2>1. \A k \in 1..Len(results) : results[k] \in Id /\ results[k] # id
      BY <1>1, <1>2 DEF Elements
    <2> QED BY <1>3, <2>1 DEF Queued, Finished
  <1>5. Locked'
    BY <1>3 DEF Locked
  <1>6. Awaited'
    BY <1>3 DEF Awaited
  <1>7. Fresh'
    <2>1. shown' <= world'
      BY <1>1 DEF Fresh
    <2>2. ASSUME NEW x \in Snaps(jobs'), jobs'[x].read # None
          PROVE  shown' <= jobs'[x].read /\ jobs'[x].read <= world'
      <3>1. CASE x = id
        BY <3>1, <2>2, <1>3 DEF Snaps
      <3>2. CASE x # id
        <4>1. jobs'[x] = jobs[x] /\ x \in Snaps(jobs) /\ jobs[x] \in Job
          BY <3>2, <2>2, <1>1, <1>3 DEF Snaps, Table
        <4>2. jobs[x].read \in Nat /\ jobs[x].read <= world /\ shown <= jobs[x].read
          BY <4>1, <2>2, BoundsAreRight DEF Fresh, Job
        <4> QED BY <4>1, <4>2
      <3> QED BY <3>1, <3>2
    <2> QED BY <2>1, <2>2 DEF Fresh
  <1>8. JobsInv'
    BY <1>4, <1>5, <1>6, <1>7 DEF JobsInv
  <1> QED BY <1>3, <1>8

-----------------------------------------------------------------------------
(* The invariant that holds whether dialogs take the input or not *)

LEMMA BaseInit == Init => BaseInv
  <1> SUFFICES ASSUME Init PROVE BaseInv
    OBVIOUS
  <1> USE DEF Init
  <1>1. TypeInv
    <2>1. jobs \in [Id -> Job \cup {None}]
      OBVIOUS
    <2>2. pending \in Seq(Item) /\ stack \in Seq(Frame) /\ stack \in Seq(Sound) /\ results \in Seq(Id)
      OBVIOUS
    <2>3. shown \in 0..MaxWorld /\ world \in 0..MaxWorld /\ faults \in 0..MaxFaults
      BY BoundsAreRight
    <2> QED BY <2>1, <2>2, <2>3 DEF TypeInv, TypeOK
  <1>2. Out(jobs) = {} /\ Snaps(jobs) = {}
    BY DEF Out, Snaps
  <1>3. Queued
    BY DEF Queued
  <1>4. Locked
    BY <1>2, FS_EmptySet DEF Locked
  <1>5. Awaited /\ Fresh
    BY <1>2 DEF Awaited, Fresh
  <1> QED BY <1>1, <1>3, <1>4, <1>5 DEF BaseInv

\* The steps that leave jobs and results alone.
LEMMA EditingBase == ASSUME BaseInv, Editing PROVE BaseInv'
  <1>1. TypeInv'
    BY EditingTyped DEF BaseInv
  <1>2. UNCHANGED Outside
    BY EditingIsInside
  <1>3. Queued' /\ Locked' /\ Awaited' /\ Fresh'
    BY <1>2 DEF BaseInv, Outside, Queued, Finished, Locked, Awaited, Fresh
  <1> QED BY <1>1, <1>3 DEF BaseInv

\* Handlers that send a request.
Sending == Press \/ Confirm \/ PlanDone

LEMMA SendingBase == ASSUME BaseInv, Sending PROVE BaseInv'
  <1>t. TypeInv /\ TypeOK /\ stack \in Seq(Sound)
    BY DEF BaseInv, TypeInv
  <1>1. ASSUME NEW job \in Job, job.kind # "snapshot", RunMutation(job), stack' \in Seq(Sound),
               UNCHANGED <<queue, assigning, inflight, shown, open, results, system>>
        PROVE  BaseInv'
    <2>1. PICK id \in Free(jobs) : jobs' = [jobs EXCEPT ![id] = job] /\ busy' = busy + 1
      BY <1>1 DEF RunMutation
    <2>2. UNCHANGED <<results, inflight, shown, world>>
      BY <1>1 DEF system
    <2>3. jobs' \in Table /\ busy' \in Nat /\ JobsInv'
      BY <1>1, <2>1, <2>2, Submits
    <2>4. stack' \in Seq(Frame)
      BY <1>1, SoundIsTyped
    <2>5. TypeInv'
      BY <1>t, <1>1, <2>3, <2>4 DEF TypeInv, TypeOK, Table, queue, system
    <2> QED BY <2>3, <2>5 DEF BaseInv, JobsInv
  <1>2. stack # <<>> => Tail(stack) \in Seq(Sound) /\ Head(stack) \in Sound
    BY <1>t, FramesArePushed
  <1>3. CASE Press
    BY <1>1, <1>3, <1>t, NewJobs DEF Press
  <1>4. CASE Confirm
    BY <1>1, <1>2, <1>4, NewJobs DEF Confirm
  <1>5. CASE PlanDone
    <2>1. stack # <<>> /\ stack' \in Seq(Sound)
      BY <1>2, <1>5 DEF PlanDone, Planning
    <2>2. CASE Head(stack).plan = <<>>
      <3>1. stack' \in Seq(Frame)
        BY <2>1, SoundIsTyped
      <3>2. UNCHANGED <<jobs, results, busy, inflight, shown, world>>
        BY <2>2, <1>5 DEF PlanDone, system
      <3>3. TypeInv'
        BY <1>t, <1>5, <2>1, <2>2, <3>1 DEF PlanDone, TypeInv, TypeOK, queue, system
      <3>4. Queued' /\ Locked' /\ Awaited' /\ Fresh'
        BY <3>2 DEF BaseInv, Queued, Finished, Locked, Awaited, Fresh
      <3> QED BY <3>3, <3>4 DEF BaseInv
    <2>3. CASE Head(stack).plan # <<>>
      <3>1. Head(stack).plan \in Seq(Item)
        BY <1>2, <2>1 DEF Sound, Frame
      <3>2. Start(Head(stack).plan) \in Job /\ Start(Head(stack).plan).kind # "snapshot"
        BY <3>1, NewJobs
      <3> QED BY <1>1, <1>5, <2>1, <2>3, <3>2 DEF PlanDone
    <2> QED BY <2>2, <2>3
  <1> QED BY <1>3, <1>4, <1>5 DEF Sending

\* Handlers of results.
LEMMA DeliverBase == ASSUME BaseInv, Poll PROVE BaseInv'
  <1> DEFINE h == Head(results)
  <1>t. TypeInv /\ TypeOK /\ stack \in Seq(Sound) /\ jobs \in Table
    BY DEF BaseInv, TypeInv, TypeOK, Table
  <1>1. results # <<>> /\ results' = Tail(results) /\ UNCHANGED system
    BY DEF Poll, DeliverSnapshot, DeliverRequest, DeliverStart, DeliverError
  <1>2. /\ h \in Id /\ Tail(results) \in Seq(Id) /\ jobs[h] \in Job /\ Finished(h)
        /\ Forget \in Table /\ \A id \in Id : id # h => Forget[id] = jobs[id]
        /\ Out(Forget) = Out(jobs) \ {h} /\ Snaps(Forget) = Snaps(jobs) \ {h}
        /\ IsFiniteSet(Out(Forget))
        /\ Changes(h) => h \in Out(jobs) /\ busy - 1 \in Nat /\ busy - 1 = Cardinality(Out(Forget))
    BY <1>1, Forgets
  <1>3. CASE DeliverSnapshot
    <2>1. /\ jobs' = Forget /\ inflight' = FALSE /\ shown' = IF jobs[h].failed THEN shown ELSE jobs[h].read
          /\ jobs[h].kind = "snapshot" /\ UNCHANGED <<queue, assigning, busy, stack, open, system>>
      BY <1>3 DEF DeliverSnapshot, Arrived
    <2>2. h \in Snaps(jobs) /\ h \notin Out(jobs)
      BY <1>2, <2>1 DEF Snaps, Out, Finished
    <2>3. jobs[h].read \in 0..MaxWorld /\ shown <= jobs[h].read /\ jobs[h].read <= world
      BY <1>2, <2>1, <2>2 DEF Finished, BaseInv, Fresh, Job
    <2>4. Snaps(jobs') = {} /\ Out(jobs') = Out(jobs)
      BY <1>2, <2>1, <2>2 DEF BaseInv, Awaited
    <2>5. Queued'
      BY <1>1, <1>2, <2>1, StillQueued
    <2>6. Locked'
      BY <2>1, <2>4 DEF BaseInv, Locked
    <2>7. Awaited'
      BY <2>1, <2>4 DEF Awaited
    <2>8. shown' \in 0..MaxWorld
      BY <2>1, <2>3, <1>t DEF TypeOK
    <2>9. TypeInv'
      BY <1>t, <1>1, <1>2, <2>1, <2>8 DEF TypeInv, TypeOK, Table, queue, system
    <2>10. shown' <= world'
      BY <2>1, <2>3, <1>1 DEF BaseInv, Fresh, system
    <2>11. Fresh'
      BY <2>4, <2>10 DEF Fresh
    <2> QED BY <2>5, <2>6, <2>7, <2>9, <2>11 DEF BaseInv
  <1>4. ASSUME Changes(h), RefreshSnapshot(Forget), busy' = busy - 1, pending' \in Seq(Item), selected' \in Nat,
               assigning' \in BOOLEAN, UNCHANGED <<stack, shown, open, system>>
        PROVE  BaseInv'
    <2>1. h \notin Snaps(jobs)
      BY <1>4 DEF Changes, Snaps
    <2>2. Snaps(Forget) = Snaps(jobs) /\ \A id \in Snaps(Forget) : Forget[id] = jobs[id]
      BY <1>2, <2>1 DEF Snaps
    <2>3. UNCHANGED <<shown, world>>
      BY <1>4 DEF system
    <2>4. /\ jobs' \in Table /\ inflight' \in BOOLEAN /\ Out(jobs') = Out(Forget)
          /\ \A id \in Id : Forget[id] # None => jobs'[id] = Forget[id]
          /\ Awaited' /\ Fresh'
      BY <1>2, <1>4, <2>2, <2>3, Refreshes
    <2>5. Queued'
      BY <1>1, <1>2, <2>4, StillQueued
    <2>6. Locked'
      BY <1>2, <1>4, <2>4 DEF Locked
    <2>7. TypeInv'
      BY <1>t, <1>1, <1>2, <1>4, <2>4 DEF TypeInv, TypeOK, Table, system
    <2> QED BY <2>4, <2>5, <2>6, <2>7 DEF BaseInv
  <1>5. CASE DeliverRequest
    <2>1. Changes(h)
      BY <1>2, <1>5 DEF DeliverRequest, Changes, Arrived, Finished
    <2> QED BY <1>4, <1>5, <1>t, <2>1 DEF DeliverRequest, TypeOK, queue
  <1>6. CASE DeliverStart
    <2>1. Changes(h)
      BY <1>2, <1>6 DEF DeliverStart, Changes, Arrived, Finished
    <2>2. pending' \in Seq(Item)
      <3> DEFINE S == {k \in 1..Len(pending) : pending[k] \notin Succeeded(Arrived)}
      <3>1. PICK at \in Ascending(S) : pending' = [k \in DOMAIN at |-> pending[at[k]]]
        BY <1>6 DEF DeliverStart
      <3>2. pending \in Seq(Item) /\ S \subseteq 1..Len(pending)
        BY <1>t DEF TypeOK
      <3> HIDE DEF S
      <3> QED BY <3>1, <3>2, KeptIsQueue
    <2>3. selected' \in Nat
      BY <1>6, <1>t DEF DeliverStart, StillSelected, TypeOK
    <2> QED BY <1>4, <1>6, <2>1, <2>2, <2>3 DEF DeliverStart
  <1>7. CASE DeliverError
    <2>1. /\ jobs' = Forget /\ busy' = busy - 1 /\ Changes(h) /\ assigning' \in BOOLEAN
          /\ UNCHANGED <<queue, inflight, shown, open, system>>
      BY <1>7, <1>t DEF DeliverError, TypeOK
    <2>2. stack' \in Seq(Sound) /\ stack' \in Seq(Frame)
      <3>1. PICK grabs \in Grabs : stack' = <<Waiting("error", grabs)>> \o stack
        BY <1>7 DEF DeliverError, Push
      <3>2. Waiting("error", grabs) \in Sound
        BY <1>t, FramesArePushed, GrabsAreTruths
      <3> QED BY <1>t, <3>1, <3>2, FramesArePushed, SoundIsTyped
    <2>3. h \notin Snaps(jobs)
      BY <2>1 DEF Changes, Snaps
    <2>4. Queued'
      BY <1>1, <1>2, <2>1, StillQueued
    <2>5. Locked'
      BY <1>2, <2>1 DEF Locked
    <2>6. Snaps(jobs') = Snaps(jobs) /\ \A id \in Snaps(jobs) : jobs'[id] = jobs[id]
      BY <1>2, <2>1, <2>3 DEF Snaps
    <2>7. Awaited'
      BY <2>1, <2>6 DEF BaseInv, Awaited
    <2>8. Fresh'
      BY <1>1, <2>1, <2>6 DEF BaseInv, Fresh, system
    <2>9. TypeInv'
      BY <1>t, <1>1, <1>2, <2>1, <2>2 DEF TypeInv, TypeOK, Table, queue, system
    <2> QED BY <2>4, <2>5, <2>7, <2>8, <2>9 DEF BaseInv
  <1> QED BY <1>3, <1>5, <1>6, <1>7 DEF Poll

\* The handlers that only ask for a snapshot.
LEMMA RefreshBase ==
    ASSUME BaseInv, RefreshSnapshot(jobs), stack' \in Seq(Sound),
           UNCHANGED <<queue, assigning, busy, shown, open, results, system>>
    PROVE  BaseInv'
  <1>t. TypeOK /\ jobs \in Table /\ results \in Seq(Id)
    BY DEF BaseInv, TypeInv, TypeOK, Table
  <1>1. UNCHANGED <<shown, world>>
    BY DEF system
  <1>2. /\ jobs' \in Table /\ inflight' \in BOOLEAN /\ Out(jobs') = Out(jobs)
        /\ \A id \in Id : jobs[id] # None => jobs'[id] = jobs[id]
        /\ Awaited' /\ Fresh'
    BY <1>t, <1>1, Refreshes
  <1>3. Queued'
    BY <1>t, <1>2 DEF BaseInv, Queued, Finished
  <1>4. Locked'
    BY <1>2 DEF BaseInv, Locked
  <1>5. TypeInv'
    BY <1>t, <1>2, SoundIsTyped DEF TypeInv, TypeOK, Table, queue, system
  <1> QED BY <1>2, <1>3, <1>4, <1>5 DEF BaseInv

\* The window closes.
LEMMA CloseBase == ASSUME BaseInv, Close PROVE BaseInv'
  <1>1. Out(jobs') = {} /\ Snaps(jobs') = {} /\ jobs' \in Table /\ results' = <<>>
    BY DEF Close, Out, Snaps, Table
  <1>2. Queued' /\ Awaited' /\ Locked' /\ Fresh'
    <2>1. Queued'
      BY <1>1 DEF Queued
    <2>2. Awaited'
      BY <1>1 DEF Awaited, Close
    <2>3. Locked'
      BY <1>1, FS_EmptySet DEF Locked, Close
    <2>4. Fresh'
      BY <1>1 DEF Fresh, Close, BaseInv, system
    <2> QED BY <2>1, <2>2, <2>3, <2>4
  <1>3. TypeInv'
    <2>1. pending' = <<>> /\ stack' = <<>> /\ selected' = 0 /\ assigning' = FALSE /\ busy' = 0 /\ inflight' = FALSE
          /\ open' = FALSE /\ UNCHANGED <<shown, world, faults>>
      BY DEF Close, system
    <2>2. pending' \in Seq(Item) /\ stack' \in Seq(Frame) /\ stack' \in Seq(Sound) /\ results' \in Seq(Id)
      BY <1>1, <2>1
    <2> QED BY <1>1, <2>1, <2>2 DEF BaseInv, TypeInv, TypeOK, Table
  <1> QED BY <1>2, <1>3 DEF BaseInv

\* The threads.
LEMMA ThreadBase == ASSUME BaseInv, NEW id \in Id, Thread(id) PROVE BaseInv'
  <1>t. /\ TypeInv /\ TypeOK /\ jobs \in Table /\ results \in Seq(Id)
        /\ world \in Nat /\ shown \in Nat /\ world <= MaxWorld /\ MaxWorld \in Nat /\ shown <= world
    BY BoundsAreRight DEF BaseInv, TypeInv, TypeOK, Table, Fresh
  <1>1. id \in Running /\ jobs[id] \in Job
    BY <1>t DEF Thread, ReadState, StartNext, HelperFails, Return, Running, Table
  <1>2. ASSUME NEW job \in Job, job.kind = jobs[id].kind, jobs' = [jobs EXCEPT ![id] = job],
               world' \in 0..MaxWorld, world <= world', faults' \in 0..MaxFaults,
               job.kind = "snapshot" /\ job.read # None => shown <= job.read /\ job.read <= world',
               UNCHANGED <<queue, assigning, busy, stack, inflight, shown, open, results>>
        PROVE  BaseInv'
    <2>0. world' \in Nat /\ UNCHANGED <<results, busy, inflight, shown>>
      BY <1>2, <1>t
    <2>1. jobs' \in Table /\ JobsInv'
      BY <1>1, <1>2, <1>t, <2>0, Works
    <2>2. TypeInv'
      BY <1>t, <1>2, <2>1 DEF TypeInv, TypeOK, Table, queue
    <2> QED BY <2>1, <2>2 DEF BaseInv, JobsInv
  <1>3. ASSUME Fresh PROVE jobs[id].kind = "snapshot" /\ jobs[id].read # None => shown <= jobs[id].read /\ jobs[id].read <= world
    BY <1>1, <1>3, NullIsNew DEF Fresh, Snaps
  <1>4. CASE ReadState(id)
    <2> DEFINE read == [jobs[id] EXCEPT !.read = world]
               broken == [[jobs[id] EXCEPT !.failed = TRUE] EXCEPT !.read = world]
    <2>1. read \in Job /\ broken \in Job /\ read.kind = jobs[id].kind /\ broken.kind = jobs[id].kind
      BY <1>1, <1>t DEF Job, TypeOK
    <2>2. read.read = world /\ broken.read = world
      BY <1>1 DEF Job
    <2>3. jobs' = [jobs EXCEPT ![id] = read] \/ jobs' = [jobs EXCEPT ![id] = broken]
      BY <1>4, <1>t, <1>1 DEF ReadState, Table, Job
    <2>4. /\ UNCHANGED <<queue, assigning, busy, stack, inflight, shown, open, results, world>>
          /\ faults' \in 0..MaxFaults
      BY <1>4, <1>t, BoundsAreRight DEF ReadState, TypeOK
    <2>5. world' \in 0..MaxWorld /\ world <= world'
      BY <2>4, <1>t DEF TypeOK
    <2> HIDE DEF read, broken
    <2> QED BY <2>1, <2>2, <2>3, <2>4, <2>5, <1>2, <1>t
  <1>5. CASE StartNext(id)
    <2> DEFINE next(ok) == [jobs[id] EXCEPT !.did = Append(@, ok)]
    <2>1. \A ok \in BOOLEAN : next(ok) \in Job /\ next(ok).kind = jobs[id].kind /\ next(ok).kind = "start"
      <3>1. \A ok \in BOOLEAN : Append(jobs[id].did, ok) \in Seq(BOOLEAN)
        BY <1>1 DEF Job
      <3> QED BY <3>1, <1>1, <1>5 DEF Job, StartNext
    <2>2. \E ok \in BOOLEAN : jobs' = [jobs EXCEPT ![id] = next(ok)]
      BY <1>5, <1>t, <1>1 DEF StartNext, Table, Job
    <2>3. /\ UNCHANGED <<queue, assigning, busy, stack, inflight, shown, open, results, faults>>
          /\ faults' \in 0..MaxFaults /\ world' \in 0..MaxWorld /\ world <= world'
      <3>1. UNCHANGED <<queue, assigning, busy, stack, inflight, shown, open, results, faults>>
        BY <1>5 DEF StartNext
      <3>2. (world < MaxWorld /\ world' = world + 1) \/ world' = world
        BY <1>5 DEF StartNext
      <3>3. faults' \in 0..MaxFaults
        BY <1>t, <3>1 DEF TypeOK
      <3> QED BY <1>t, <3>1, <3>2, <3>3
    <2> HIDE DEF next
    <2> QED BY <2>1, <2>2, <2>3, <1>2
  <1>6. CASE HelperFails(id)
    <2> DEFINE broken == [jobs[id] EXCEPT !.failed = TRUE]
    <2>1. broken \in Job /\ broken.kind = jobs[id].kind /\ broken.kind # "snapshot"
      BY <1>1, <1>6 DEF Job, HelperFails, Changes
    <2>2. jobs' = [jobs EXCEPT ![id] = broken]
      BY <1>6, <1>t, <1>1 DEF HelperFails, Table, Job
    <2>3. /\ UNCHANGED <<queue, assigning, busy, stack, inflight, shown, open, results>>
          /\ faults' \in 0..MaxFaults /\ world' \in 0..MaxWorld /\ world <= world'
      BY <1>6, <1>t DEF HelperFails, TypeOK, system
    <2> HIDE DEF broken
    <2> QED BY <2>1, <2>2, <2>3, <1>2
  <1>7. CASE Return(id)
    <2>1. /\ results' = Append(results, id) /\ UNCHANGED <<queue, assigning, busy, stack, inflight, shown, open, jobs, system>>
          /\ jobs[id].kind = "snapshot" => jobs[id].read # None
          /\ id \notin Elements(results) /\ jobs[id] # None
      BY <1>7 DEF Return, Running
    <2>2. \A k \in 1..Len(results) : results[k] # id
      BY <2>1 DEF Elements
    <2>3. results' \in Seq(Id) /\ Len(results') = Len(results) + 1 /\ results'[Len(results) + 1] = id
          /\ \A k \in 1..Len(results) : results'[k] = results[k]
      BY <2>1, <1>t
    <2>4. Queued'
      <3>1. \A k \in 1..Len(results') :
              jobs'[results'[k]] # None /\ (jobs'[results'[k]].kind = "snapshot" => jobs'[results'[k]].read # None)
        BY <1>t, <2>1, <2>3 DEF BaseInv, Queued, Finished
      <3>2. \A j, k \in 1..Len(results') : results'[j] = results'[k] => j = k
        BY <1>t, <2>2, <2>3 DEF BaseInv, Queued
      <3> QED BY <3>1, <3>2 DEF Queued, Finished
    <2>5. Locked' /\ Awaited' /\ Fresh'
      BY <2>1 DEF BaseInv, Locked, Awaited, Fresh, system
    <2>6. TypeInv'
      BY <1>t, <2>1, <2>3 DEF TypeInv, TypeOK, queue, system
    <2> QED BY <2>4, <2>5, <2>6 DEF BaseInv
  <1> QED BY <1>4, <1>5, <1>6, <1>7 DEF Thread

LEMMA BaseStep == BaseInv /\ [Next]_vars => BaseInv'
  <1> SUFFICES ASSUME BaseInv, [Next]_vars PROVE BaseInv'
    OBVIOUS
  <1>t. TypeInv /\ TypeOK /\ stack \in Seq(Sound)
    BY DEF BaseInv, TypeInv
  <1>1. CASE Editing
    BY <1>1, EditingBase
  <1>2. CASE Sending
    BY <1>2, SendingBase
  <1>3. CASE Poll
    BY <1>3, DeliverBase
  <1>4. CASE Dismiss
    <2>1. stack' \in Seq(Sound)
      BY <1>4, <1>t, FramesArePushed DEF Dismiss
    <2> QED BY <1>4, <2>1, RefreshBase DEF Dismiss
  <1>5. CASE Tick
    <2>1. stack' \in Seq(Sound)
      BY <1>5, <1>t DEF Tick
    <2> QED BY <1>5, <2>1, RefreshBase DEF Tick
  <1>6. CASE Close
    BY <1>6, CloseBase
  <1>7. CASE WorldChanges
    <2>1. world' = world + 1 /\ world' \in 0..MaxWorld /\ world \in Nat
      BY <1>7, <1>t, BoundsAreRight DEF WorldChanges, TypeOK
    <2>2. UNCHANGED <<queue, assigning, busy, stack, inflight, shown, open, jobs, results, faults>>
      BY <1>7 DEF WorldChanges, worker
    <2>3. TypeInv'
      BY <1>t, <2>1, <2>2 DEF TypeInv, TypeOK, queue
    <2>4. Queued' /\ Locked' /\ Awaited'
      BY <2>2 DEF BaseInv, Queued, Finished, Locked, Awaited
    <2>5. Fresh'
      <3>1. shown' <= world'
        BY <1>t, <2>1, <2>2 DEF BaseInv, Fresh, TypeOK
      <3>2. ASSUME NEW x \in Snaps(jobs), jobs[x].read # None PROVE shown <= jobs[x].read /\ jobs[x].read <= world'
        <4>1. jobs[x].read \in Nat
          BY <1>t, <3>2, BoundsAreRight DEF Snaps, TypeOK, Job
        <4> QED BY <4>1, <3>2, <2>1 DEF BaseInv, Fresh
      <3> QED BY <3>1, <3>2, <2>2 DEF Fresh
    <2> QED BY <2>3, <2>4, <2>5 DEF BaseInv
  <1>8. CASE \E id \in Id : Thread(id)
    BY <1>8, ThreadBase
  <1>9. CASE UNCHANGED vars
    BY <1>9 DEF vars, queue, worker, system, BaseInv, TypeInv, TypeOK, Queued, Finished, Locked, Awaited, Fresh
  <1> QED BY <1>1, <1>2, <1>3, <1>4, <1>5, <1>6, <1>7, <1>8, <1>9 DEF Next, User, Plan, Editing, Sending

\* The invariant, whether dialogs take the input or not.
LEMMA BaseAlways == Spec => []BaseInv
  BY BaseInit, BaseStep, PTL DEF Spec

-----------------------------------------------------------------------------
(* What always holds of the buttons and of snapshots *)

\* The parts of WindowProps that follow.
LEMMA BaseImplies == BaseInv => TypeOK /\ ButtonsLocked /\ OneSnapshot
  <1> SUFFICES ASSUME BaseInv PROVE TypeOK /\ ButtonsLocked /\ OneSnapshot
    OBVIOUS
  <1>1. Outstanding = Out(jobs) /\ Snapshots = Snaps(jobs)
    BY DEF Outstanding, Changes, Out, Snapshots, Snaps
  <1>2. ButtonsLocked
    BY <1>1 DEF BaseInv, Locked, ButtonsLocked
  <1>3. OneSnapshot
    BY <1>1, FS_EmptySet, FS_Singleton DEF BaseInv, Awaited, OneSnapshot
  <1> QED BY <1>2, <1>3 DEF BaseInv, TypeInv

\* The buttons are locked exactly while requests are out, and a snapshot that is
\* awaited is under way: also when a dialog fails to take the input, so that
\* handlers nest and several requests are out (_run_mutation, refresh_snapshot).
THEOREM AlwaysLocked == Spec => [](ButtonsLocked /\ OneSnapshot)
  BY BaseAlways, BaseImplies, PTL

\* A delivered snapshot is not older than what the tables show (_on_snapshot).
THEOREM AlwaysForward == Spec => NeverOlder
  <1>1. BaseInv /\ [Next]_vars => [shown' >= shown]_vars
    <2> SUFFICES ASSUME BaseInv, [Next]_vars PROVE shown' >= shown
      OBVIOUS
    <2>1. shown \in Nat
      BY BoundsAreRight DEF BaseInv, TypeInv, TypeOK
    <2>2. CASE DeliverSnapshot
      <3>1. results # <<>>
        BY <2>2 DEF DeliverSnapshot
      <3>2. Head(results) \in Id /\ Finished(Head(results)) /\ jobs[Head(results)] \in Job
        BY <3>1, Forgets
      <3>3. Head(results) \in Snaps(jobs) /\ jobs[Head(results)].read # None
        BY <2>2, <3>2 DEF DeliverSnapshot, Arrived, Snaps, Finished
      <3>4. jobs[Head(results)].read \in Nat
        BY <3>2, <3>3, BoundsAreRight DEF Job
      <3>5. shown <= jobs[Head(results)].read
        BY <3>3 DEF BaseInv, Fresh
      <3> QED BY <2>1, <2>2, <3>4, <3>5 DEF DeliverSnapshot, Arrived
    <2>3. CASE ~DeliverSnapshot
      <3>1. shown' = shown
        <4>1. CASE Editing
          BY <4>1, EditingIsInside DEF Outside
        <4>2. CASE Sending
          BY <4>2 DEF Sending, Press, Confirm, PlanDone
        <4>3. CASE DeliverRequest \/ DeliverStart \/ DeliverError
          BY <4>3 DEF DeliverRequest, DeliverStart, DeliverError
        <4>4. CASE Dismiss \/ Tick \/ Close \/ WorldChanges
          BY <4>4 DEF Dismiss, Tick, Close, WorldChanges
        <4>5. CASE \E id \in Id : Thread(id)
          BY <4>5 DEF Thread, ReadState, StartNext, HelperFails, Return
        <4>6. CASE UNCHANGED vars
          BY <4>6 DEF vars
        <4> QED BY <4>1, <4>2, <4>3, <4>4, <4>5, <4>6, <2>3 DEF Next, User, Plan, Poll, Editing, Sending
      <3> QED BY <2>1, <3>1
    <2> QED BY <2>2, <2>3
  <1> QED BY <1>1, BaseAlways, PTL DEF Spec, NeverOlder

-----------------------------------------------------------------------------
(* What holds while dialogs take the input *)

\* A dialog stands alone, and no request is out behind it.
OneDialog ==
    stack # <<>> =>
        /\ Tail(stack) = <<>> /\ busy = 0
        /\ Head(stack).asks => Head(stack).grabs
        /\ Head(stack).for # "start" => Head(stack).asks

\* A start that was begun is being planned, or is out.
Begun ==
    assigning =>
        \/ stack # <<>> /\ Head(stack).for = "start"
        \/ \E id \in Out(jobs) : jobs[id].kind = "start"

\* What is planned or being started stands in the queue.
PlansQueued ==
    /\ \A id \in Out(jobs) : Elements(jobs[id].plan) \subseteq Elements(pending)
    /\ stack # <<>> => Elements(Head(stack).todo) \cup Elements(Head(stack).plan) \subseteq Elements(pending)

ModalInv == OneDialog /\ busy <= 1 /\ Begun /\ PlansQueued

\* The elements of sequences.
LEMMA ElementsFacts ==
    /\ Elements(<<>>) = {}
    /\ \A s \in Seq(Item), i \in Item : Elements(Append(s, i)) = Elements(s) \cup {i}
    /\ \A s \in Seq(Item) : s # <<>> => Head(s) \in Elements(s) /\ Elements(Tail(s)) \subseteq Elements(s)
  <1>1. Elements(<<>>) = {}
    BY DEF Elements
  <1>2. ASSUME NEW s \in Seq(Item), NEW i \in Item PROVE Elements(Append(s, i)) = Elements(s) \cup {i}
    <2>1. /\ Len(Append(s, i)) = Len(s) + 1 /\ Append(s, i)[Len(s) + 1] = i /\ Len(s) \in Nat
          /\ \A k \in 1..Len(s) : Append(s, i)[k] = s[k]
      OBVIOUS
    <2>2. 1..(Len(s) + 1) = (1..Len(s)) \cup {Len(s) + 1}
      BY <2>1
    <2> QED BY <2>1, <2>2 DEF Elements
  <1>3. ASSUME NEW s \in Seq(Item), s # <<>>
        PROVE  Head(s) \in Elements(s) /\ Elements(Tail(s)) \subseteq Elements(s)
    <2>1. Len(s) \in Nat /\ Len(s) >= 1 /\ Head(s) = s[1] /\ Len(Tail(s)) = Len(s) - 1
      BY <1>3
    <2>2. \A k \in 1..Len(Tail(s)) : k + 1 \in 1..Len(s) /\ Tail(s)[k] = s[k + 1]
      BY <1>3, <2>1
    <2> QED BY <2>1, <2>2 DEF Elements
  <1> QED BY <1>1, <1>2, <1>3

\* Nothing is out when the buttons are free, and what is out keeps them locked.
LEMMA FreeMeansNothingOut ==
    ASSUME BaseInv
    PROVE  busy \in Nat /\ (busy = 0 <=> Out(jobs) = {}) /\ (busy = 1 <=> \E id : Out(jobs) = {id})
  <1>1. IsFiniteSet(Out(jobs)) /\ busy = Cardinality(Out(jobs))
    BY DEF BaseInv, Locked
  <1> QED BY <1>1, FS_EmptySet, FS_Singleton, FS_CardinalityType

\* While dialogs take the input, a handler of the user begins with none open and,
\* when the buttons are free, with no start under way.
LEMMA UserBegins ==
    ASSUME BaseInv, ModalInv, UserFree
    PROVE  stack = <<>> /\ (busy = 0 => ~assigning /\ Out(jobs) = {})
  <1>1. stack = <<>>
    BY DEF UserFree, Looping, ModalInv, OneDialog
  <1> QED BY <1>1, FreeMeansNothingOut DEF ModalInv, Begun

\* What neither opens nor closes a dialog nor sends or delivers a request.
LEMMA ModalStays ==
    ASSUME BaseInv, ModalInv, UNCHANGED <<stack, busy, assigning>>, Out(jobs') = Out(jobs),
           \A id \in Out(jobs) : jobs'[id].kind = jobs[id].kind /\ jobs'[id].plan = jobs[id].plan,
           Elements(pending) \subseteq Elements(pending')
    PROVE  ModalInv'
  <1>1. OneDialog' /\ busy' <= 1
    BY DEF ModalInv, OneDialog
  <1>2. Begun'
    BY DEF ModalInv, Begun
  <1>3. PlansQueued'
    BY DEF ModalInv, PlansQueued
  <1> QED BY <1>1, <1>2, <1>3 DEF ModalInv

\* One frame on an empty stack, or in the place of the only one.
LEMMA OneFrame ==
    ASSUME NEW frame, NEW q, q = <<frame>> \o <<>>
    PROVE  q # <<>> /\ Head(q) = frame /\ Tail(q) = <<>>
  OBVIOUS

-----------------------------------------------------------------------------
(* Its steps *)

LEMMA ModalInit == Init => ModalInv
  BY DEF Init, ModalInv, OneDialog, Begun, PlansQueued, Out

\* The handlers that edit the queue or open and close dialogs.
LEMMA EditingModal == ASSUME ~MayNotGrab, BaseInv, ModalInv, Editing PROVE ModalInv'
  <1>t. TypeInv /\ TypeOK /\ stack \in Seq(Sound) /\ pending \in Seq(Item)
    BY DEF BaseInv, TypeInv, TypeOK
  <1>1. UNCHANGED <<jobs, busy>>
    BY EditingIsInside DEF Outside
  <1> DEFINE top == Head(stack)
  <1>2. CASE \E i \in Item : Add(i)
    <2>1. PICK i \in Item : pending' = Append(pending, i) /\ UNCHANGED <<stack, assigning>>
      BY <1>2 DEF Add
    <2>2. Elements(pending) \subseteq Elements(pending')
      BY <2>1, <1>t, ElementsFacts
    <2> QED BY <1>1, <2>1, <2>2, ModalStays
  <1>3. CASE \E k \in 1..Len(pending) : SelectQueued(k)
    <2>1. UNCHANGED <<pending, stack, assigning>>
      BY <1>3 DEF SelectQueued
    <2> QED BY <1>1, <2>1, ModalStays
  <1>4. CASE RemoveQueued \/ Clear
    <2>1. UserFree /\ busy = 0 /\ UNCHANGED <<stack, assigning>>
      BY <1>4 DEF RemoveQueued, Clear
    <2>2. stack = <<>> /\ Out(jobs) = {} /\ ~assigning
      BY <2>1, UserBegins
    <2>3. stack' = <<>> /\ Out(jobs') = {} /\ busy' = 0 /\ ~assigning'
      BY <1>1, <2>1, <2>2
    <2> QED BY <2>3 DEF ModalInv, OneDialog, Begun, PlansQueued
  <1>5. CASE AskFirst
    <2>1. UserFree /\ busy = 0 /\ UNCHANGED <<pending, assigning>>
      BY <1>5 DEF AskFirst, queue
    <2>2. stack = <<>> /\ Out(jobs) = {} /\ ~assigning
      BY <2>1, UserBegins
    <2>3. stack' = <<Waiting("request", TRUE)>> \o <<>>
      BY <1>5, <2>2, GrabsAreTruths DEF AskFirst, Push
    <2>4. /\ Head(stack') = Waiting("request", TRUE) /\ Tail(stack') = <<>>
          /\ Out(jobs') = {} /\ busy' = 0 /\ ~assigning'
      BY <1>1, <2>1, <2>2, <2>3, OneFrame
    <2> QED BY <2>4, ElementsFacts DEF Waiting, ModalInv, OneDialog, Begun, PlansQueued
  <1>6. CASE Cancel
    <2>1. stack # <<>> /\ Head(stack).for = "request" /\ stack' = Tail(stack) /\ UNCHANGED <<pending, assigning>>
      BY <1>6 DEF Cancel, queue
    <2>2. Tail(stack) = <<>> /\ busy = 0
      BY <2>1 DEF ModalInv, OneDialog
    <2>3. Out(jobs) = {}
      BY <2>2, FreeMeansNothingOut
    <2>4. ~assigning
      BY <2>1, <2>3 DEF ModalInv, Begun
    <2>5. stack' = <<>> /\ busy' = 0 /\ ~assigning' /\ Out(jobs') = {}
      BY <1>1, <2>1, <2>2, <2>3, <2>4
    <2> QED BY <2>5 DEF ModalInv, OneDialog, Begun, PlansQueued
  <1>7. CASE Assign
    <2> DEFINE begun == [for |-> "start", asks |-> FALSE, grabs |-> FALSE, todo |-> pending, plan |-> <<>>]
    <2>1. UserFree /\ busy = 0 /\ pending' = pending /\ stack' = <<begun>> \o stack
      BY <1>7 DEF Assign, queue, Push
    <2>2. stack = <<>> /\ Out(jobs) = {}
      BY <2>1, UserBegins
    <2>3. stack' # <<>> /\ Head(stack') = begun /\ Tail(stack') = <<>> /\ Out(jobs') = {} /\ busy' = 0
      BY <1>1, <2>1, <2>2, OneFrame
    <2> QED BY <2>1, <2>3, ElementsFacts DEF ModalInv, OneDialog, Begun, PlansQueued
  <1>8. ASSUME NEW frame, Planning, ReplaceTop(frame), frame.for = "start", frame.asks => frame.grabs,
               Elements(frame.todo) \cup Elements(frame.plan) \subseteq Elements(pending),
               UNCHANGED <<pending, assigning>>
        PROVE  ModalInv'
    <2>1. stack # <<>> /\ Tail(stack) = <<>> /\ busy = 0
      BY <1>8 DEF Planning, ModalInv, OneDialog
    <2>2. stack' # <<>> /\ Head(stack') = frame /\ Tail(stack') = <<>>
      BY <1>8, <2>1, OneFrame DEF ReplaceTop
    <2>3. Out(jobs') = {} /\ busy' = 0
      BY <1>1, <2>1, FreeMeansNothingOut
    <2> QED BY <1>8, <2>2, <2>3 DEF ModalInv, OneDialog, Begun, PlansQueued
  <1>9. ASSUME Planning, top.todo # <<>>
        PROVE  /\ top \in Sound /\ top.for = "start" /\ top.todo \in Seq(Item) /\ top.plan \in Seq(Item)
               /\ Head(top.todo) \in Item
               /\ Elements(Tail(top.todo)) \cup Elements(top.plan) \cup {Head(top.todo)} \subseteq Elements(pending)
               /\ Elements(Append(top.plan, Head(top.todo))) \subseteq Elements(pending)
               /\ Elements(top.todo) \subseteq Elements(pending)
    <2>1. top \in Sound /\ top.for = "start"
      BY <1>9, <1>t, FramesArePushed DEF Planning
    <2>2. top.todo \in Seq(Item) /\ top.plan \in Seq(Item)
      BY <2>1 DEF Sound, Frame
    <2>3. Head(top.todo) \in Item
      BY <1>9, <2>2
    <2>4. Elements(top.todo) \cup Elements(top.plan) \subseteq Elements(pending)
      BY <1>9 DEF Planning, ModalInv, PlansQueued
    <2> QED BY <1>9, <2>1, <2>2, <2>3, <2>4, ElementsFacts
  <1>10. CASE PlanNext
    <2> DEFINE frame == [top EXCEPT !.todo = Tail(@), !.plan = Append(@, Head(top.todo))]
    <2>1. Planning /\ top.todo # <<>> /\ ~top.asks /\ ReplaceTop(frame) /\ UNCHANGED <<pending, assigning>>
      BY <1>10 DEF PlanNext, queue
    <2>2. /\ frame.for = top.for /\ frame.asks = top.asks /\ frame.todo = Tail(top.todo)
          /\ frame.plan = Append(top.plan, Head(top.todo))
      BY <2>1, <1>9 DEF Sound, Frame
    <2> HIDE DEF frame
    <2> QED BY <2>1, <2>2, <1>8, <1>9
  <1>11. CASE AskRunning
    <2> DEFINE frame == [top EXCEPT !.asks = TRUE, !.grabs = TRUE]
    <2>1. Planning /\ top.todo # <<>> /\ ReplaceTop(frame) /\ UNCHANGED <<pending, assigning>>
      BY <1>11, GrabsAreTruths DEF AskRunning, queue
    <2>2. frame.for = top.for /\ frame.grabs = TRUE /\ frame.todo = top.todo /\ frame.plan = top.plan
      BY <2>1, <1>9 DEF Sound, Frame
    <2> HIDE DEF frame
    <2> QED BY <2>1, <2>2, <1>8, <1>9
  <1>12. CASE AnswerRunning
    <2> DEFINE left == [top EXCEPT !.asks = FALSE, !.todo = Tail(@)]
               planned == [left EXCEPT !.plan = Append(@, Head(top.todo))]
    <2>1. Planning /\ top.asks /\ (ReplaceTop(planned) \/ ReplaceTop(left)) /\ UNCHANGED <<pending, assigning>>
      BY <1>12 DEF AnswerRunning, queue
    <2>2. top.todo # <<>>
      BY <2>1, <1>t, FramesArePushed DEF Planning, Sound
    <2>3. /\ left.for = top.for /\ left.asks = FALSE /\ left.todo = Tail(top.todo) /\ left.plan = top.plan
          /\ planned.for = top.for /\ planned.asks = FALSE /\ planned.todo = Tail(top.todo)
          /\ planned.plan = Append(top.plan, Head(top.todo))
      BY <2>1, <2>2, <1>9 DEF Sound, Frame
    <2> HIDE DEF left, planned
    <2> QED BY <2>1, <2>2, <2>3, <1>8, <1>9
  <1> QED BY <1>2, <1>3, <1>4, <1>5, <1>6, <1>7, <1>10, <1>11, <1>12 DEF Editing

\* Handlers that send a request.
LEMMA SendingModal == ASSUME BaseInv, ModalInv, Sending PROVE ModalInv'
  <1>t. TypeInv /\ TypeOK /\ stack \in Seq(Sound) /\ jobs \in Table /\ busy \in Nat
    BY DEF BaseInv, TypeInv, TypeOK, Table
  <1>1. ASSUME NEW job \in Job, job.kind # "snapshot", RunMutation(job), Out(jobs) = {}, busy = 0, stack' = <<>>,
               Elements(job.plan) \subseteq Elements(pending), assigning => job.kind = "start",
               UNCHANGED <<pending, assigning>>
        PROVE  ModalInv'
    <2>1. PICK id \in Free(jobs) : jobs' = [jobs EXCEPT ![id] = job] /\ busy' = busy + 1
      BY <1>1 DEF RunMutation
    <2>2. jobs'[id] = job /\ Out(jobs') = {id}
      BY <1>t, <1>1, <2>1, NullIsNew DEF Table, Out, Free
    <2>3. OneDialog' /\ busy' <= 1
      BY <1>1, <2>1 DEF OneDialog
    <2>4. Begun'
      BY <1>1, <2>2 DEF Begun
    <2>5. PlansQueued'
      BY <1>1, <2>2 DEF PlansQueued
    <2> QED BY <2>3, <2>4, <2>5 DEF ModalInv
  <1>2. CASE Press
    <2>1. UserFree /\ busy = 0 /\ RunMutation(Request) /\ UNCHANGED <<pending, assigning, stack>>
      BY <1>2 DEF Press, queue
    <2>2. stack = <<>> /\ Out(jobs) = {} /\ ~assigning
      BY <2>1, UserBegins
    <2> QED BY <1>1, <2>1, <2>2, NewJobs, ElementsFacts
  <1>3. CASE Confirm
    <2>1. /\ stack # <<>> /\ Head(stack).for = "request" /\ stack' = Tail(stack)
          /\ RunMutation(Request) /\ UNCHANGED <<pending, assigning>>
      BY <1>3 DEF Confirm, queue
    <2>2. Tail(stack) = <<>> /\ busy = 0
      BY <2>1 DEF ModalInv, OneDialog
    <2>3. Out(jobs) = {}
      BY <2>2, FreeMeansNothingOut
    <2>4. ~assigning
      BY <2>1, <2>3 DEF ModalInv, Begun
    <2> QED BY <1>1, <2>1, <2>2, <2>3, <2>4, NewJobs, ElementsFacts
  <1>4. CASE PlanDone
    <2>1. stack # <<>> /\ Head(stack).for = "start" /\ stack' = Tail(stack) /\ pending' = pending
      BY <1>4 DEF PlanDone, Planning, queue
    <2>2. Tail(stack) = <<>> /\ busy = 0
      BY <2>1 DEF ModalInv, OneDialog
    <2>3. Out(jobs) = {}
      BY <2>2, FreeMeansNothingOut
    <2>4. CASE Head(stack).plan = <<>>
      <3>1. ~assigning' /\ UNCHANGED <<jobs, busy>>
        BY <1>4, <2>4 DEF PlanDone
      <3> QED BY <2>1, <2>2, <2>3, <3>1 DEF ModalInv, OneDialog, Begun, PlansQueued
    <2>5. CASE Head(stack).plan # <<>>
      <3>1. Head(stack).plan \in Seq(Item) /\ Elements(Head(stack).plan) \subseteq Elements(pending)
        BY <1>t, <2>1, FramesArePushed DEF Sound, Frame, ModalInv, PlansQueued
      <3>2. RunMutation(Start(Head(stack).plan)) /\ assigning' = assigning
        BY <1>4, <2>5 DEF PlanDone
      <3>3. /\ Start(Head(stack).plan) \in Job /\ Start(Head(stack).plan).kind = "start"
            /\ Start(Head(stack).plan).plan = Head(stack).plan
        BY <3>1, NewJobs
      <3> QED BY <1>1, <2>1, <2>2, <2>3, <3>1, <3>2, <3>3
    <2> QED BY <2>4, <2>5
  <1> QED BY <1>2, <1>3, <1>4 DEF Sending

\* The only request that is out is the one whose result is delivered.
LEMMA DeliversTheOne ==
    ASSUME BaseInv, ModalInv, results # <<>>, Changes(Head(results))
    PROVE  /\ busy = 1 /\ stack = <<>> /\ Out(jobs) = {Head(results)} /\ Out(Forget) = {}
           /\ assigning => Arrived.kind = "start"
  <1>1. Head(results) \in Out(jobs) /\ Out(Forget) = Out(jobs) \ {Head(results)}
    BY Forgets
  <1>2. busy \in Nat /\ busy # 0
    BY <1>1, FreeMeansNothingOut
  <1>3. busy = 1
    BY <1>2 DEF ModalInv
  <1>4. Out(jobs) = {Head(results)}
    BY <1>1, <1>3, FreeMeansNothingOut
  <1>5. stack = <<>>
    BY <1>2 DEF ModalInv, OneDialog
  <1> QED BY <1>1, <1>3, <1>4, <1>5 DEF ModalInv, Begun, Arrived

\* Handlers of results.
LEMMA DeliverModal == ASSUME ~MayNotGrab, BaseInv, ModalInv, Poll PROVE ModalInv'
  <1> DEFINE h == Head(results)
  <1>1. results # <<>>
    BY DEF Poll, DeliverSnapshot, DeliverRequest, DeliverStart, DeliverError
  <1>2. /\ h \in Id /\ jobs[h] \in Job /\ Finished(h) /\ \A id \in Id : id # h => Forget[id] = jobs[id]
        /\ Forget \in Table /\ Snaps(Forget) = Snaps(jobs) \ {h} /\ Out(Forget) = Out(jobs) \ {h}
    BY <1>1, Forgets
  <1>3. CASE DeliverSnapshot
    <2>1. jobs' = Forget /\ UNCHANGED <<pending, stack, busy, assigning>>
      BY <1>3 DEF DeliverSnapshot, queue
    <2>2. h \notin Out(jobs)
      BY <1>3 DEF DeliverSnapshot, Arrived, Out
    <2>3. Out(jobs') = Out(jobs) /\ \A id \in Out(jobs) : jobs'[id] = jobs[id]
      BY <1>2, <2>1, <2>2 DEF Out
    <2> QED BY <2>1, <2>3, ModalStays
  <1>4. ASSUME Changes(h), RefreshSnapshot(Forget), busy' = busy - 1, UNCHANGED <<stack, shown, world>>,
               ~assigning'
        PROVE  ModalInv'
    <2>1. busy = 1 /\ stack = <<>> /\ Out(Forget) = {}
      BY <1>1, <1>4, DeliversTheOne
    <2>2. h \notin Snaps(jobs)
      BY <1>4 DEF Changes, Snaps
    <2>3. Snaps(Forget) = Snaps(jobs) /\ \A id \in Snaps(Forget) : Forget[id] = jobs[id]
      BY <1>2, <2>2 DEF Snaps
    <2>4. Out(jobs') = Out(Forget)
      BY <1>2, <1>4, <2>3, Refreshes
    <2> QED BY <1>4, <2>1, <2>4 DEF ModalInv, OneDialog, Begun, PlansQueued
  <1>5. CASE DeliverRequest
    <2>1. Changes(h) /\ Arrived.kind = "request"
      BY <1>2, <1>5 DEF DeliverRequest, Changes, Arrived, Finished
    <2>2. ~assigning
      BY <1>1, <2>1, DeliversTheOne
    <2> QED BY <1>4, <1>5, <2>1, <2>2 DEF DeliverRequest, system
  <1>6. CASE DeliverStart
    <2>1. Changes(h)
      BY <1>2, <1>6 DEF DeliverStart, Changes, Arrived, Finished
    <2> QED BY <1>4, <1>6, <2>1 DEF DeliverStart, system
  <1>7. CASE DeliverError
    <2>1. /\ Changes(h) /\ jobs' = Forget /\ busy' = busy - 1 /\ assigning' = (assigning /\ Arrived.kind # "start")
      BY <1>7 DEF DeliverError
    <2>2. busy = 1 /\ stack = <<>> /\ Out(Forget) = {} /\ (assigning => Arrived.kind = "start")
      BY <1>1, <2>1, DeliversTheOne
    <2>3. stack' = <<Waiting("error", TRUE)>> \o <<>>
      BY <1>7, <2>2, GrabsAreTruths DEF DeliverError, Push
    <2>4. Head(stack') = Waiting("error", TRUE) /\ Tail(stack') = <<>>
      BY <2>3, OneFrame
    <2>5. ~assigning'
      BY <2>1, <2>2, Zenon
    <2>6. busy' = 0 /\ Out(jobs') = {}
      BY <2>1, <2>2
    <2> QED BY <2>4, <2>5, <2>6, ElementsFacts DEF Waiting, ModalInv, OneDialog, Begun, PlansQueued
  <1> QED BY <1>3, <1>5, <1>6, <1>7 DEF Poll

\* A refresh changes no request that is out.
LEMMA RefreshKeepsOut ==
    ASSUME BaseInv, RefreshSnapshot(jobs), UNCHANGED <<shown, world>>
    PROVE  Out(jobs') = Out(jobs) /\ \A id \in Out(jobs) : jobs'[id] = jobs[id]
  <1>1. jobs \in Table
    BY DEF BaseInv, TypeInv, TypeOK, Table
  <1>2. Out(jobs') = Out(jobs) /\ \A id \in Id : jobs[id] # None => jobs'[id] = jobs[id]
    BY <1>1, Refreshes
  <1> QED BY <1>2 DEF Out

\* A thread changes neither the kind nor the plan of a job.
LEMMA ThreadKeepsOut ==
    ASSUME BaseInv, NEW id \in Id, Thread(id)
    PROVE  /\ Out(jobs') = Out(jobs)
           /\ \A x \in Out(jobs) : jobs'[x].kind = jobs[x].kind /\ jobs'[x].plan = jobs[x].plan
  <1>1. jobs \in Table /\ jobs[id] \in Job /\ id \in Running
    BY DEF BaseInv, TypeInv, TypeOK, Table, Thread, ReadState, StartNext, HelperFails, Return, Running
  <1>2. ASSUME NEW job \in Job, job.kind = jobs[id].kind, job.plan = jobs[id].plan, jobs' = [jobs EXCEPT ![id] = job]
        PROVE  /\ Out(jobs') = Out(jobs)
               /\ \A x \in Out(jobs) : jobs'[x].kind = jobs[x].kind /\ jobs'[x].plan = jobs[x].plan
    BY <1>1, <1>2, NullIsNew DEF Table, Out, Running
  <1>3. CASE ReadState(id)
    <2>1. world \in (0..MaxWorld) \cup {None}
      BY DEF BaseInv, TypeInv, TypeOK
    <2> DEFINE read == [jobs[id] EXCEPT !.read = world]
               broken == [[jobs[id] EXCEPT !.failed = TRUE] EXCEPT !.read = world]
    <2>2. /\ read \in Job /\ read.kind = jobs[id].kind /\ read.plan = jobs[id].plan
          /\ broken \in Job /\ broken.kind = jobs[id].kind /\ broken.plan = jobs[id].plan
      BY <1>1, <2>1 DEF Job
    <2>3. jobs' = [jobs EXCEPT ![id] = read] \/ jobs' = [jobs EXCEPT ![id] = broken]
      BY <1>1, <1>3 DEF ReadState, Table, Job
    <2> HIDE DEF read, broken
    <2> QED BY <1>2, <2>2, <2>3
  <1>4. CASE StartNext(id)
    <2> DEFINE next(ok) == [jobs[id] EXCEPT !.did = Append(@, ok)]
    <2>1. \A ok \in BOOLEAN : Append(jobs[id].did, ok) \in Seq(BOOLEAN)
      BY <1>1 DEF Job
    <2>2. \A ok \in BOOLEAN : next(ok) \in Job /\ next(ok).kind = jobs[id].kind /\ next(ok).plan = jobs[id].plan
      BY <1>1, <2>1 DEF Job
    <2>3. \E ok \in BOOLEAN : jobs' = [jobs EXCEPT ![id] = next(ok)]
      BY <1>1, <1>4 DEF StartNext, Table, Job
    <2> HIDE DEF next
    <2> QED BY <1>2, <2>2, <2>3
  <1>5. CASE HelperFails(id)
    <2> DEFINE broken == [jobs[id] EXCEPT !.failed = TRUE]
    <2>1. broken \in Job /\ broken.kind = jobs[id].kind /\ broken.plan = jobs[id].plan
      BY <1>1 DEF Job
    <2>2. jobs' = [jobs EXCEPT ![id] = broken]
      BY <1>1, <1>5 DEF HelperFails, Table, Job
    <2> HIDE DEF broken
    <2> QED BY <1>2, <2>1, <2>2
  <1>6. CASE Return(id)
    BY <1>6 DEF Return
  <1> QED BY <1>3, <1>4, <1>5, <1>6 DEF Thread

LEMMA ModalStep == ~MayNotGrab /\ BaseInv /\ ModalInv /\ [Next]_vars => ModalInv'
  <1> SUFFICES ASSUME ~MayNotGrab, BaseInv, ModalInv, [Next]_vars PROVE ModalInv'
    OBVIOUS
  <1>1. CASE Editing
    BY <1>1, EditingModal
  <1>2. CASE Sending
    BY <1>2, SendingModal
  <1>3. CASE Poll
    BY <1>3, DeliverModal
  <1>4. CASE Dismiss
    <2>1. /\ stack # <<>> /\ Head(stack).for = "error" /\ stack' = Tail(stack) /\ RefreshSnapshot(jobs)
          /\ UNCHANGED <<pending, assigning, busy, shown, world>>
      BY <1>4 DEF Dismiss, queue, system
    <2>2. Tail(stack) = <<>> /\ busy = 0
      BY <2>1 DEF ModalInv, OneDialog
    <2>3. Out(jobs) = {}
      BY <2>2, FreeMeansNothingOut
    <2>4. ~assigning
      BY <2>1, <2>3 DEF ModalInv, Begun
    <2>5. Out(jobs') = {}
      BY <2>1, <2>3, RefreshKeepsOut
    <2> QED BY <2>1, <2>2, <2>4, <2>5 DEF ModalInv, OneDialog, Begun, PlansQueued
  <1>5. CASE Tick
    <2>1. RefreshSnapshot(jobs) /\ UNCHANGED <<pending, assigning, busy, stack, shown, world>>
      BY <1>5 DEF Tick, queue, system
    <2>2. Out(jobs') = Out(jobs) /\ \A id \in Out(jobs) : jobs'[id] = jobs[id]
      BY <2>1, RefreshKeepsOut
    <2> QED BY <2>1, <2>2, ModalStays
  <1>6. CASE Close
    <2>1. stack' = <<>> /\ busy' = 0 /\ assigning' = FALSE /\ Out(jobs') = {}
      BY <1>6 DEF Close, Out
    <2> QED BY <2>1 DEF ModalInv, OneDialog, Begun, PlansQueued
  <1>7. CASE WorldChanges
    BY <1>7, ModalStays DEF WorldChanges, queue, worker
  <1>8. CASE \E id \in Id : Thread(id)
    <2>1. PICK id \in Id : Thread(id)
      BY <1>8
    <2>2. UNCHANGED <<pending, stack, busy, assigning>>
      BY <2>1 DEF Thread, ReadState, StartNext, HelperFails, Return, queue
    <2> QED BY <2>1, <2>2, ThreadKeepsOut, ModalStays
  <1>9. CASE UNCHANGED vars
    BY <1>9, ModalStays DEF vars, queue, worker
  <1> QED BY <1>1, <1>2, <1>3, <1>4, <1>5, <1>6, <1>7, <1>8, <1>9 DEF Next, User, Plan, Editing, Sending

LEMMA ModalAlways == ASSUME ~MayNotGrab PROVE Spec => []ModalInv
  <1>1. BaseInv /\ ModalInv /\ [Next]_vars => ModalInv'
    BY ModalStep
  <1> QED BY <1>1, ModalInit, BaseAlways, PTL DEF Spec

-----------------------------------------------------------------------------
(* What is claimed while dialogs take the input *)

\* While dialogs take the input, one request at a time is out, with the buttons
\* locked until its result has been delivered, and one snapshot, which is awaited
\* (_run_mutation, refresh_snapshot, Worker._poll).
THEOREM AlwaysOneAtATime == ASSUME ~MayNotGrab PROVE Spec => []OneAtATime
  <1>1. BaseInv /\ ModalInv => OneAtATime
    <2> SUFFICES ASSUME BaseInv, ModalInv PROVE OneRequest
      BY BaseImplies DEF OneAtATime
    <2>1. Outstanding = Out(jobs)
      BY DEF Outstanding, Changes, Out
    <2> QED BY <2>1 DEF BaseInv, Locked, ModalInv, OneRequest
  <1> QED BY <1>1, BaseAlways, ModalAlways, PTL

\* While dialogs take the input, what is about to be started stands in the queue
\* until it has started, and nothing else leaves the queue than by the user's
\* hand, with no start under way (_on_assign, _on_batch_done).
THEOREM AlwaysQueueKept == ASSUME ~MayNotGrab PROVE Spec => QueueKept
  <1>1. BaseInv /\ ModalInv => BatchQueued
    BY DEF ModalInv, PlansQueued, BatchQueued, Outstanding, Changes, Out
  <1> DEFINE Leaves == open' => \A i \in Elements(pending) \ Elements(pending') :
                                    i \in Started \/ (busy = 0 /\ ~assigning)
  <1>2. BaseInv /\ ModalInv /\ [Next]_vars => [Leaves]_vars
    <2> SUFFICES ASSUME BaseInv, ModalInv, [Next]_vars PROVE Leaves
      OBVIOUS
    <2>t. pending \in Seq(Item)
      BY DEF BaseInv, TypeInv, TypeOK
    <2>1. CASE \E i \in Item : Add(i)
      BY <2>1, <2>t, ElementsFacts DEF Add
    <2>2. CASE RemoveQueued \/ Clear
      <3>1. UserFree /\ busy = 0
        BY <2>2 DEF RemoveQueued, Clear
      <3> QED BY <3>1, UserBegins
    <2>3. CASE Close
      BY <2>3 DEF Close
    <2>4. CASE DeliverStart
      <3> DEFINE S == {k \in 1..Len(pending) : pending[k] \notin Succeeded(Arrived)}
      <3>1. PICK at \in Ascending(S) : pending' = [k \in DOMAIN at |-> pending[at[k]]]
        BY <2>4 DEF DeliverStart
      <3>2. S \subseteq 1..Len(pending)
        OBVIOUS
      <3>3. Elements(pending') = {pending[k] : k \in S}
        <4> HIDE DEF S
        <4> QED BY <2>t, <3>1, <3>2, KeptIsQueue
      <3>4. \A i \in Elements(pending) \ Elements(pending') : i \in Succeeded(Arrived)
        BY <3>3 DEF Elements
      <3>5. results # <<>> /\ Arrived.kind = "start"
        BY <2>4 DEF DeliverStart
      <3>6. Head(results) \in Outstanding /\ Arrived \in Job
        BY <3>5, Forgets DEF Outstanding, Changes, Arrived, Finished
      <3>7. Succeeded(Arrived) \subseteq Started
        <4>1. DOMAIN Arrived.did = 1..Len(Arrived.did)
          BY <3>6 DEF Job
        <4> QED BY <3>6, <4>1 DEF Succeeded, Started, Arrived
      <3> QED BY <3>4, <3>7
    <2>5. ASSUME pending' = pending PROVE Leaves
      BY <2>5
    <2>6. CASE (\E k \in 1..Len(pending) : SelectQueued(k)) \/ AskFirst \/ Cancel \/ Assign \/ PlanNext \/ AskRunning \/ AnswerRunning
      BY <2>5, <2>6 DEF SelectQueued, AskFirst, Cancel, Assign, PlanNext, AskRunning, AnswerRunning, queue
    <2>7. CASE Sending
      BY <2>5, <2>7 DEF Sending, Press, Confirm, PlanDone, queue
    <2>8. CASE DeliverSnapshot \/ DeliverRequest \/ DeliverError
      BY <2>5, <2>8 DEF DeliverSnapshot, DeliverRequest, DeliverError, queue
    <2>9. CASE Dismiss \/ Tick \/ WorldChanges
      BY <2>5, <2>9 DEF Dismiss, Tick, WorldChanges, queue
    <2>10. CASE \E id \in Id : Thread(id)
      BY <2>5, <2>10 DEF Thread, ReadState, StartNext, HelperFails, Return, queue
    <2>11. CASE UNCHANGED vars
      BY <2>5, <2>11 DEF vars, queue
    <2> QED BY <2>1, <2>2, <2>3, <2>4, <2>6, <2>7, <2>8, <2>9, <2>10, <2>11 DEF Next, User, Plan, Poll, Sending
  <1> QED BY <1>1, <1>2, BaseAlways, ModalAlways, PTL DEF Spec, QueueKept, LeavesStarted

-----------------------------------------------------------------------------
(* Induction, for the functions of the table *)


\* A set of numbers that has an element has a least one.
LEMMA Least ==
    ASSUME NEW N \in SUBSET Nat, N # {}
    PROVE  \E m \in N : \A n \in N : m <= n
<1> DEFINE R == {ss \in Nat \X Nat : ss[1] < ss[2]}
<1>1. IsWellFoundedOn(R, Nat) BY NatLessThanWellFounded DEF OpToRel
<1>2. ASSUME NEW m \in N, NEW n \in N, n < m PROVE <<n, m>> \in R
  <2>1. <<n, m>> \in Nat \X Nat /\ <<n, m>>[1] < <<n, m>>[2] BY <1>2
  <2> QED BY <2>1
<1> HIDE DEF R
<1>3. \E m \in N : \A n \in N : <<n, m>> \notin R BY <1>1, WFMin
<1>4. \A m, n \in N : n < m \/ m <= n OBVIOUS
<1> QED BY <1>2, <1>3, <1>4

\* Induction over the numbers, for a set of them.
LEMMA Induct ==
    ASSUME NEW N \in SUBSET Nat, 0 \in N, \A n \in N : n + 1 \in N
    PROVE  N = Nat
<1> DEFINE Rest == Nat \ N
<1> SUFFICES ASSUME Rest # {} PROVE FALSE
  OBVIOUS
<1>1. PICK m \in Rest : \A n \in Rest : m <= n BY Least
<1>2. m \in Nat /\ m # 0 /\ m - 1 \in Nat /\ m - 1 \notin Rest /\ m - 1 + 1 = m BY <1>1
<1> QED BY <1>1, <1>2

\* Induction over sequences, for a set of them.
LEMMA SeqInduct ==
    ASSUME NEW A, NEW Q \in SUBSET Seq(A), <<>> \in Q, \A q \in Q, x \in A : Append(q, x) \in Q
    PROVE  Q = Seq(A)
<1> DEFINE N == {n \in Nat : \A q \in Seq(A) : Len(q) = n => q \in Q}
<1>1. 0 \in N BY EmptySeq
<1>2. ASSUME NEW n \in N PROVE n + 1 \in N
  <2> SUFFICES ASSUME NEW q \in Seq(A), Len(q) = n + 1 PROVE q \in Q OBVIOUS
  <2>1. q # <<>> OBVIOUS
  <2>2. PICK r \in Seq(A), x \in A : q = Append(r, x) BY <2>1, SequenceEmptyOrAppend
  <2>3. Len(r) = n BY <2>2, LenProperties
  <2> QED BY <2>2, <2>3
<1>3. N = Nat
  <2>1. N \in SUBSET Nat OBVIOUS
  <2> HIDE DEF N
  <2> QED BY <1>1, <1>2, <2>1, Induct
<1> QED BY <1>3, LenProperties

-----------------------------------------------------------------------------
(* The selection of a sequence: Only *)

\* f[k] is what is selected of the first k elements.
OnlyNext(f, q, S, k) == IF q[k] \in S THEN Append(f[k - 1], q[k]) ELSE f[k - 1]
Selects(f, q, S, n) ==
    /\ f = [k \in 0..n |-> f[k]] /\ f[0] = <<>>
    /\ \A k \in 1..n : f[k] = OnlyNext(f, q, S, k)

\* Such a function exists for every sequence.
LEMMA OnlyExists ==
    ASSUME NEW q, NEW S, NEW n \in Nat PROVE \E f : Selects(f, q, S, n)
<1> DEFINE N == {m \in Nat : \E f : Selects(f, q, S, m)}
<1>1. 0 \in N
  <2>1. Selects([k \in 0..0 |-> <<>>], q, S, 0) BY DEF Selects
  <2> QED BY <2>1
<1>2. ASSUME NEW m \in N PROVE m + 1 \in N
  <2>1. PICK f : Selects(f, q, S, m) OBVIOUS
  <2> DEFINE g == [k \in 0..(m + 1) |-> IF k = m + 1 THEN OnlyNext(f, q, S, m + 1) ELSE f[k]]
  <2>2. g[0] = <<>> /\ g = [k \in 0..(m + 1) |-> g[k]] BY <2>1 DEF Selects
  <2>3. ASSUME NEW k \in 1..(m + 1) PROVE g[k] = OnlyNext(g, q, S, k)
    <3>1. g[k - 1] = f[k - 1] OBVIOUS
    <3>2. OnlyNext(g, q, S, k) = OnlyNext(f, q, S, k) BY <3>1 DEF OnlyNext
    <3>3. CASE k = m + 1 BY <3>2, <3>3
    <3>4. CASE k # m + 1
      <4>1. g[k] = f[k] BY <3>4
      <4> QED BY <3>2, <3>4, <4>1, <2>1 DEF Selects
    <3> QED BY <3>3, <3>4
  <2> HIDE DEF g
  <2>4. Selects(g, q, S, m + 1) BY <2>2, <2>3 DEF Selects
  <2> QED BY <2>4
<1>3. N = Nat
  <2>1. N \in SUBSET Nat OBVIOUS
  <2> HIDE DEF N
  <2> QED BY <1>1, <1>2, <2>1, Induct
<1> QED BY <1>3

\* What Only gives is the last value of one.
LEMMA OnlyIsSelected ==
    ASSUME NEW q, NEW S, Len(q) \in Nat
    PROVE  \E f : Selects(f, q, S, Len(q)) /\ T!Only(q, S) = f[Len(q)]
<1> DEFINE Body(g) == [k \in 0..Len(q) |->
                          IF k = 0 THEN <<>> ELSE IF q[k] \in S THEN Append(g[k - 1], q[k]) ELSE g[k - 1]]
           f == CHOOSE g : g = Body(g)
<1>1. PICK h : Selects(h, q, S, Len(q)) BY OnlyExists
<1>2. h = Body(h)
  <2>1. h[0] = <<>> /\ \A k \in 1..Len(q) : h[k] = OnlyNext(h, q, S, k) BY <1>1 DEF Selects
  <2>2. \A k \in 0..Len(q) : Body(h)[k] = h[k] BY <2>1 DEF OnlyNext
  <2>3. DOMAIN h = 0..Len(q) BY <1>1 DEF Selects
  <2> QED BY <1>1, <2>2 DEF Selects
<1>3. f = Body(f) BY <1>2
<1>4. T!Only(q, S) = f[Len(q)] BY DEF T!Only
<1>5. Selects(f, q, S, Len(q))
  <2>1. ASSUME NEW g, g = Body(g) PROVE Selects(g, q, S, Len(q))
    <3>1. DOMAIN g = 0..Len(q) /\ g[0] = <<>> BY <2>1
    <3>2. ASSUME NEW k \in 1..Len(q) PROVE g[k] = OnlyNext(g, q, S, k)
      <4> DEFINE B == Body(g)
      <4>1. g[k] = B[k] BY <2>1, Zenon
      <4>2. k \in 0..Len(q) /\ k # 0 OBVIOUS
      <4>3. B[k] = OnlyNext(g, q, S, k) BY <4>2 DEF OnlyNext
      <4> QED BY <4>1, <4>3, Zenon
    <3>3. g = [k \in 0..Len(q) |-> g[k]] BY <2>1
    <3> QED BY <3>1, <3>2, <3>3 DEF Selects
  <2> HIDE DEF f
  <2> QED BY <1>3, <2>1
<1> QED BY <1>4, <1>5

\* Nothing is selected of nothing.
LEMMA OnlyEmpty ==
    ASSUME NEW S PROVE T!Only(<<>>, S) = <<>>
<1>1. Len(<<>>) = 0 OBVIOUS
<1>2. PICK f : Selects(f, <<>>, S, Len(<<>>)) /\ T!Only(<<>>, S) = f[Len(<<>>)] BY <1>1, OnlyIsSelected
<1> QED BY <1>1, <1>2 DEF Selects

\* The last element of a sequence is selected last.
LEMMA OnlyAppend ==
    ASSUME NEW A, NEW q \in Seq(A), NEW x \in A, NEW S
    PROVE  T!Only(Append(q, x), S) = IF x \in S THEN Append(T!Only(q, S), x) ELSE T!Only(q, S)
<1> DEFINE r == Append(q, x)
           n == Len(q)
<1>1. n \in Nat /\ Len(r) = n + 1 /\ r[n + 1] = x /\ \A k \in 1..n : r[k] = q[k] BY AppendProperties
<1> HIDE DEF r, n
<1>2. PICK g : Selects(g, q, S, n) /\ T!Only(q, S) = g[n] BY <1>1, OnlyIsSelected DEF n
<1>3. PICK f : Selects(f, r, S, n + 1) /\ T!Only(r, S) = f[n + 1]
  <2>1. Len(r) \in Nat BY <1>1
  <2> QED BY <1>1, <2>1, OnlyIsSelected
<1>4. \A k \in 0..n : f[k] = g[k]
  <2> DEFINE N == {k \in Nat : k <= n => f[k] = g[k]}
  <2>1. 0 \in N BY <1>2, <1>3 DEF Selects
  <2>2. ASSUME NEW k \in N PROVE k + 1 \in N
    <3> SUFFICES ASSUME k + 1 <= n PROVE f[k + 1] = g[k + 1] OBVIOUS
    <3>1. f[k] = g[k] BY <1>1
    <3>2. k + 1 \in 1..n /\ k + 1 \in 1..(n + 1) /\ (k + 1) - 1 = k BY <1>1
    <3>3. f[k + 1] = OnlyNext(f, r, S, k + 1) /\ g[k + 1] = OnlyNext(g, q, S, k + 1)
      BY <1>2, <1>3, <3>2 DEF Selects
    <3>4. r[k + 1] = q[k + 1] BY <1>1, <3>2
    <3> QED BY <3>1, <3>2, <3>3, <3>4 DEF OnlyNext
  <2>3. N = Nat
    <3>1. N \in SUBSET Nat OBVIOUS
    <3> HIDE DEF N
    <3> QED BY <2>1, <2>2, <3>1, Induct
  <2> QED BY <1>1, <2>3
<1>5. n + 1 \in 1..(n + 1) /\ (n + 1) - 1 = n /\ n \in 0..n BY <1>1
<1>6. f[n + 1] = OnlyNext(f, r, S, n + 1) BY <1>3, <1>5 DEF Selects
<1>7. f[n] = g[n] BY <1>4, <1>5
<1> QED BY <1>1, <1>2, <1>3, <1>5, <1>6, <1>7 DEF OnlyNext, r


\* What is selected is from the sequence, and in the set.
LEMMA OnlyType ==
    ASSUME NEW A, NEW q \in Seq(A), NEW S
    PROVE  T!Only(q, S) \in Seq(A) /\ T!Only(q, S) \in Seq(A \cap S)
<1> DEFINE Q == {r \in Seq(A) : T!Only(r, S) \in Seq(A \cap S)}
<1>1. <<>> \in Q
  <2>1. T!Only(<<>>, S) = <<>> BY OnlyEmpty
  <2> QED BY <2>1, EmptySeq
<1>2. ASSUME NEW r \in Q, NEW x \in A PROVE Append(r, x) \in Q
  <2> DEFINE o == T!Only(r, S)
  <2>1. o \in Seq(A \cap S) OBVIOUS
  <2>2. T!Only(Append(r, x), S) = IF x \in S THEN Append(o, x) ELSE o BY OnlyAppend
  <2> HIDE DEF o
  <2>3. x \in S => Append(o, x) \in Seq(A \cap S)
    <3> SUFFICES ASSUME x \in S PROVE Append(o, x) \in Seq(A \cap S) OBVIOUS
    <3>1. x \in A \cap S OBVIOUS
    <3> QED BY <2>1, <3>1, AppendProperties
  <2>4. Append(r, x) \in Seq(A) BY AppendProperties
  <2> QED BY <2>1, <2>2, <2>3, <2>4
<1>3. Q = Seq(A)
  <2>1. Q \in SUBSET Seq(A) OBVIOUS
  <2> HIDE DEF Q
  <2> QED BY <1>1, <1>2, <2>1, SeqInduct
<1>4. T!Only(q, S) \in Seq(A \cap S) BY <1>3
<1> QED BY <1>4, SeqMonotonic, A \cap S \subseteq A

\* What is appended to the second part is appended to the whole.
LEMMA AppendToConcat ==
    ASSUME NEW A, NEW q \in Seq(A), NEW r \in Seq(A), NEW x \in A
    PROVE  q \o Append(r, x) = Append(q \o r, x)
<1>1. <<x>> \in Seq(A) /\ q \o r \in Seq(A) BY ConcatProperties
<1>2. Append(r, x) = r \o <<x>> /\ Append(q \o r, x) = (q \o r) \o <<x>> BY <1>1, AppendIsConcat
<1>3. (q \o r) \o <<x>> = q \o (r \o <<x>>) BY <1>1, ConcatAssociative
<1> QED BY <1>2, <1>3

\* The parts of a sequence are selected apart.
LEMMA OnlyConcat ==
    ASSUME NEW A, NEW q \in Seq(A), NEW r \in Seq(A), NEW S
    PROVE  T!Only(q \o r, S) = T!Only(q, S) \o T!Only(r, S)
<1> DEFINE Q == {p \in Seq(A) : T!Only(q \o p, S) = T!Only(q, S) \o T!Only(p, S)}
           u == T!Only(q, S)
<1>u. u \in Seq(A) BY OnlyType
<1>1. <<>> \in Q
  <2>1. T!Only(<<>>, S) = <<>> BY OnlyEmpty
  <2>2. q \o <<>> = q BY ConcatEmptySeq
  <2> HIDE DEF u
  <2>3. u \o <<>> = u BY <1>u, ConcatEmptySeq
  <2>4. T!Only(q \o <<>>, S) = T!Only(q, S) \o T!Only(<<>>, S) BY <2>1, <2>2, <2>3 DEF u
  <2> QED BY <2>4, EmptySeq
<1>2. ASSUME NEW p \in Q, NEW x \in A PROVE Append(p, x) \in Q
  <2> DEFINE o == T!Only(p, S)
             qp == q \o p
  <2>1. o \in Seq(A) /\ qp \in Seq(A) BY OnlyType, ConcatProperties
  <2>2. T!Only(qp, S) = u \o o OBVIOUS
  <2>3. q \o Append(p, x) = Append(qp, x) BY AppendToConcat
  <2> HIDE DEF qp
  <2>4. T!Only(Append(qp, x), S) = IF x \in S THEN Append(T!Only(qp, S), x) ELSE T!Only(qp, S)
    BY <2>1, OnlyAppend
  <2>5. T!Only(Append(p, x), S) = IF x \in S THEN Append(o, x) ELSE o BY OnlyAppend
  <2> HIDE DEF o, u
  <2>6. u \o Append(o, x) = Append(u \o o, x) BY <1>u, <2>1, AppendToConcat
  <2>7. T!Only(q \o Append(p, x), S) = u \o T!Only(Append(p, x), S)
    BY <2>2, <2>3, <2>4, <2>5, <2>6
  <2> QED BY <2>7, AppendProperties DEF u
<1>3. Q = Seq(A)
  <2>1. Q \in SUBSET Seq(A) OBVIOUS
  <2> HIDE DEF Q
  <2> QED BY <1>1, <1>2, <2>1, SeqInduct
<1> QED BY <1>3

\* Two selections from a sequence are one.
LEMMA OnlyOnly ==
    ASSUME NEW A, NEW q \in Seq(A), NEW S, NEW U
    PROVE  T!Only(T!Only(q, S), U) = T!Only(q, S \cap U)
<1> DEFINE Q == {p \in Seq(A) : T!Only(T!Only(p, S), U) = T!Only(p, S \cap U)}
<1>1. <<>> \in Q
  <2>1. T!Only(<<>>, S) = <<>> /\ T!Only(<<>>, U) = <<>> /\ T!Only(<<>>, S \cap U) = <<>> BY OnlyEmpty
  <2> QED BY <2>1, EmptySeq
<1>2. ASSUME NEW p \in Q, NEW x \in A PROVE Append(p, x) \in Q
  <2> DEFINE o == T!Only(p, S)
             oo == T!Only(p, S \cap U)
  <2>1. o \in Seq(A) BY OnlyType
  <2>2. T!Only(Append(p, x), S) = IF x \in S THEN Append(o, x) ELSE o BY OnlyAppend
  <2>3. T!Only(Append(p, x), S \cap U) = IF x \in S \cap U THEN Append(oo, x) ELSE oo BY OnlyAppend
  <2>4. T!Only(o, U) = oo OBVIOUS
  <2> HIDE DEF o, oo
  <2>5. T!Only(Append(o, x), U) = IF x \in U THEN Append(oo, x) ELSE oo BY <2>1, <2>4, OnlyAppend
  <2>6. T!Only(T!Only(Append(p, x), S), U) = T!Only(Append(p, x), S \cap U)
    BY <2>2, <2>3, <2>4, <2>5
  <2> QED BY <2>6, AppendProperties
<1>3. Q = Seq(A)
  <2>1. Q \in SUBSET Seq(A) OBVIOUS
  <2> HIDE DEF Q
  <2> QED BY <1>1, <1>2, <2>1, SeqInduct
<1> QED BY <1>3

\* The sets select the same that agree on the elements of the sequence.
LEMMA OnlySame ==
    ASSUME NEW A, NEW q \in Seq(A), NEW S, NEW U, \A x \in A : (x \in S) = (x \in U)
    PROVE  T!Only(q, S) = T!Only(q, U)
<1> DEFINE Q == {p \in Seq(A) : T!Only(p, S) = T!Only(p, U)}
<1>1. <<>> \in Q
  <2>1. T!Only(<<>>, S) = <<>> /\ T!Only(<<>>, U) = <<>> BY OnlyEmpty
  <2> QED BY <2>1, EmptySeq
<1>2. ASSUME NEW p \in Q, NEW x \in A PROVE Append(p, x) \in Q
  <2> DEFINE o == T!Only(p, S)
             oo == T!Only(p, U)
  <2>1. T!Only(Append(p, x), S) = IF x \in S THEN Append(o, x) ELSE o BY OnlyAppend
  <2>2. T!Only(Append(p, x), U) = IF x \in U THEN Append(oo, x) ELSE oo BY OnlyAppend
  <2>3. o = oo OBVIOUS
  <2> HIDE DEF o, oo
  <2>4. T!Only(Append(p, x), S) = T!Only(Append(p, x), U) BY <2>1, <2>2, <2>3
  <2> QED BY <2>4, AppendProperties
<1>3. Q = Seq(A)
  <2>1. Q \in SUBSET Seq(A) OBVIOUS
  <2> HIDE DEF Q
  <2> QED BY <1>1, <1>2, <2>1, SeqInduct
<1> QED BY <1>3

\* All of a sequence, and nothing of it.
LEMMA OnlyAll ==
    ASSUME NEW A, NEW q \in Seq(A), NEW S, A \subseteq S
    PROVE  T!Only(q, S) = q
<1> DEFINE Q == {p \in Seq(A) : T!Only(p, S) = p}
<1>1. <<>> \in Q BY OnlyEmpty, EmptySeq
<1>2. ASSUME NEW p \in Q, NEW x \in A PROVE Append(p, x) \in Q
  <2>1. T!Only(Append(p, x), S) = IF x \in S THEN Append(T!Only(p, S), x) ELSE T!Only(p, S) BY OnlyAppend
  <2>2. x \in S /\ T!Only(p, S) = p OBVIOUS
  <2> QED BY <2>1, <2>2, AppendProperties
<1>3. Q = Seq(A)
  <2>1. Q \in SUBSET Seq(A) OBVIOUS
  <2> HIDE DEF Q
  <2> QED BY <1>1, <1>2, <2>1, SeqInduct
<1> QED BY <1>3

\* Nothing is selected that is not in the set.
LEMMA OnlyNone ==
    ASSUME NEW A, NEW q \in Seq(A), NEW S, A \cap S = {}
    PROVE  T!Only(q, S) = <<>>
<1>1. T!Only(q, S) \in Seq(A \cap S) BY OnlyType
<1> QED BY <1>1, LenProperties

\* The places in a sequence of what is selected of it: all are different.
LEMMA OnlyPlaces ==
    ASSUME NEW A, NEW q \in Seq(A), NEW S
    PROVE  \E e \in [1..Len(T!Only(q, S)) -> 1..Len(q)] :
              /\ \A k \in 1..Len(T!Only(q, S)) : T!Only(q, S)[k] = q[e[k]]
              /\ \A j, k \in 1..Len(T!Only(q, S)) : e[j] = e[k] => j = k
<1> DEFINE Fits(p, e) ==
              LET o == T!Only(p, S) IN
              /\ e \in [1..Len(o) -> 1..Len(p)]
              /\ \A k \in 1..Len(o) : o[k] = p[e[k]]
              /\ \A j, k \in 1..Len(o) : e[j] = e[k] => j = k
           Q == {p \in Seq(A) : \E e : Fits(p, e)}
<1>1. <<>> \in Q
  <2>1. T!Only(<<>>, S) = <<>> /\ Len(<<>>) = 0 BY OnlyEmpty
  <2>2. Fits(<<>>, [k \in 1..0 |-> 0]) BY <2>1
  <2> HIDE DEF Fits
  <2> QED BY <2>2, EmptySeq
<1>2. ASSUME NEW p \in Q, NEW x \in A PROVE Append(p, x) \in Q
  <2> DEFINE o == T!Only(p, S)
             r == Append(p, x)
             n == Len(p)
             m == Len(o)
  <2>1. PICK e : Fits(p, e) OBVIOUS
  <2>2. e \in [1..m -> 1..n] /\ (\A k \in 1..m : o[k] = p[e[k]]) /\ \A j, k \in 1..m : e[j] = e[k] => j = k
    BY <2>1
  <2>3. T!Only(r, S) = IF x \in S THEN Append(o, x) ELSE o BY OnlyAppend
  <2>4. n \in Nat /\ Len(r) = n + 1 /\ r[n + 1] = x /\ \A k \in 1..n : r[k] = p[k] BY AppendProperties
  <2>5. o \in Seq(A) BY OnlyType
  <2>6. m \in Nat BY <2>5, LenProperties
  <2>7. x \in S => Len(Append(o, x)) = m + 1 /\ Append(o, x)[m + 1] = x /\ \A k \in 1..m : Append(o, x)[k] = o[k]
    BY <2>5, AppendProperties
  <2> HIDE DEF o, r, n, m
  <2>8. \E d : Fits(r, d)
    <3>1. CASE x \notin S
      <4>1. T!Only(r, S) = o /\ Len(o) = m BY <2>3, <3>1 DEF m
      <4>2. e \in [1..m -> 1..Len(r)] BY <2>2, <2>4
      <4>3. \A k \in 1..m : o[k] = r[e[k]] BY <2>2, <2>4
      <4>4. Fits(r, e) BY <4>1, <4>2, <4>3, <2>2
      <4> HIDE DEF Fits
      <4> QED BY <4>4
    <3>2. CASE x \in S
      <4> DEFINE d == [k \in 1..(m + 1) |-> IF k = m + 1 THEN n + 1 ELSE e[k]]
                 oo == Append(o, x)
      <4>1. T!Only(r, S) = oo /\ Len(oo) = m + 1 BY <2>3, <2>7, <3>2
      <4>2. d \in [1..(m + 1) -> 1..Len(r)]
        <5>1. \A k \in 1..(m + 1) : d[k] \in 1..(n + 1) BY <2>2, <2>4, <2>6
        <5> QED BY <5>1, <2>4
      <4>3. ASSUME NEW k \in 1..(m + 1) PROVE oo[k] = r[d[k]]
        <5>1. CASE k = m + 1 BY <5>1, <2>4, <2>7, <3>2
        <5>2. CASE k # m + 1
          <6>1. k \in 1..m BY <2>6, <5>2
          <6>2. d[k] = e[k] /\ e[k] \in 1..n BY <2>2, <6>1, <5>2
          <6>3. oo[k] = o[k] BY <2>7, <3>2, <6>1
          <6> QED BY <2>2, <2>4, <6>1, <6>2, <6>3
        <5> QED BY <5>1, <5>2
      <4>4. ASSUME NEW j \in 1..(m + 1), NEW k \in 1..(m + 1), d[j] = d[k] PROVE j = k
        <5>1. \A i \in 1..m : e[i] \in 1..n BY <2>2
        <5> QED BY <2>2, <2>4, <2>6, <4>4, <5>1
      <4> HIDE DEF d, oo
      <4>5. Fits(r, d) BY <4>1, <4>2, <4>3, <4>4
      <4> HIDE DEF Fits
      <4> QED BY <4>5
    <3> QED BY <3>1, <3>2
  <2>9. r \in Seq(A) BY AppendProperties DEF r
  <2> QED BY <2>8, <2>9 DEF r
<1>3. Q = Seq(A)
  <2>1. Q \in SUBSET Seq(A) OBVIOUS
  <2> HIDE DEF Q
  <2> QED BY <1>1, <1>2, <2>1, SeqInduct
<1>4. \E e : Fits(q, e) BY <1>3
<1> QED BY <1>4

\* What is in a sequence and in the set is selected.
LEMMA OnlyHas ==
    ASSUME NEW A, NEW q \in Seq(A), NEW S, NEW k \in 1..Len(q), q[k] \in S
    PROVE  \E j \in 1..Len(T!Only(q, S)) : T!Only(q, S)[j] = q[k]
<1> DEFINE Has(o, x) == \E j \in 1..Len(o) : o[j] = x
           Q == {p \in Seq(A) : \A i \in 1..Len(p) : p[i] \in S => Has(T!Only(p, S), p[i])}
<1>1. <<>> \in Q BY EmptySeq
<1>2. ASSUME NEW p \in Q, NEW x \in A PROVE Append(p, x) \in Q
  <2> DEFINE o == T!Only(p, S)
             r == Append(p, x)
  <2>1. T!Only(r, S) = IF x \in S THEN Append(o, x) ELSE o BY OnlyAppend
  <2>2. /\ r \in Seq(A) /\ Len(r) = Len(p) + 1 /\ r[Len(p) + 1] = x /\ Len(p) \in Nat
        /\ \A i \in 1..Len(p) : r[i] = p[i]
    BY AppendProperties, LenProperties
  <2>3. o \in Seq(A) BY OnlyType
  <2>4. \A i \in 1..Len(p) : p[i] \in S => Has(o, p[i]) OBVIOUS
  <2> HIDE DEF o, r
  <2>5. /\ Len(Append(o, x)) = Len(o) + 1 /\ Append(o, x)[Len(o) + 1] = x /\ Len(o) \in Nat
        /\ \A i \in 1..Len(o) : Append(o, x)[i] = o[i]
    BY <2>3, AppendProperties, LenProperties
  <2>6. ASSUME NEW y, Has(o, y) PROVE Has(Append(o, x), y)
    <3>1. PICK j \in 1..Len(o) : o[j] = y BY <2>6
    <3>2. j \in 1..(Len(o) + 1) /\ Append(o, x)[j] = y BY <2>5, <3>1
    <3> QED BY <2>5, <3>2
  <2>7. Has(Append(o, x), x)
    <3>1. Len(o) + 1 \in 1..Len(Append(o, x)) BY <2>5
    <3> QED BY <2>5, <3>1
  <2> HIDE DEF Has
  <2>8. ASSUME NEW i \in 1..Len(r), r[i] \in S PROVE Has(T!Only(r, S), r[i])
    <3>1. CASE i = Len(p) + 1 BY <2>1, <2>2, <2>7, <2>8, <3>1
    <3>2. CASE i # Len(p) + 1
      <4>1. i \in 1..Len(p) /\ r[i] = p[i] BY <2>2, <3>2
      <4>2. Has(o, r[i]) BY <2>4, <2>8, <4>1
      <4> QED BY <2>1, <2>6, <4>2
    <3> QED BY <3>1, <3>2
  <2> QED BY <2>2, <2>8 DEF r
<1>3. Q = Seq(A)
  <2>1. Q \in SUBSET Seq(A) OBVIOUS
  <2> HIDE DEF Q
  <2> QED BY <1>1, <1>2, <2>1, SeqInduct
<1> QED BY <1>3


-----------------------------------------------------------------------------
(* The rows of a snapshot *)

\* What rows are made of.
Row(s, known) ==
    {T!RowOfIface(s, i, known) : i \in T!Iface}
    \cup {T!RowOfBinding(s, s.bindings[k]) : k \in DOMAIN s.bindings}
    \cup {T!RowOfAdoption(s, s.adoptions[k]) : k \in DOMAIN s.adoptions}

\* The orders of a snapshot, and what stands in them.
LEMMA SnapshotOrders ==
    ASSUME NEW s, T!Snapshot(s)
    PROVE  /\ s.bindings \in Seq(T!Binding) /\ s.adoptions \in Seq(T!Adoption)
           /\ DOMAIN s.bindings = 1..Len(s.bindings) /\ DOMAIN s.adoptions = 1..Len(s.adoptions)
           /\ Len(s.bindings) \in Nat /\ Len(s.adoptions) \in Nat
           /\ \A k \in DOMAIN s.bindings : s.bindings[k] \in T!Binding
           /\ \A k \in DOMAIN s.adoptions : s.adoptions[k] \in T!Adoption
           /\ \A j, k \in DOMAIN s.bindings : s.bindings[j] = s.bindings[k] => j = k
           /\ \A j, k \in DOMAIN s.adoptions : s.adoptions[j].id = s.adoptions[k].id => j = k
<1>1. /\ s.bindings \in Seq(T!Binding) /\ s.adoptions \in Seq(T!Adoption)
      /\ \A j, k \in DOMAIN s.bindings : s.bindings[j] = s.bindings[k] => j = k
      /\ \A j, k \in DOMAIN s.adoptions : s.adoptions[j].id = s.adoptions[k].id => j = k
  BY DEF T!Snapshot
<1>2. /\ DOMAIN s.bindings = 1..Len(s.bindings) /\ DOMAIN s.adoptions = 1..Len(s.adoptions)
      /\ Len(s.bindings) \in Nat /\ Len(s.adoptions) \in Nat
  BY <1>1, LenProperties
<1>3. \A k \in 1..Len(s.bindings) : s.bindings[k] \in T!Binding BY <1>1, ElementOfSeq
<1>4. \A k \in 1..Len(s.adoptions) : s.adoptions[k] \in T!Adoption BY <1>1, ElementOfSeq
<1> QED BY <1>1, <1>2, <1>3, <1>4

\* Names of rows are different that stand for different things.
LEMMA NamesApart ==
    /\ \A i, j : T!IfaceRow(i) = T!IfaceRow(j) => i = j
    /\ \A c, d : T!BindRow(c) = T!BindRow(d) => c.iface = d.iface /\ c.app = d.app
    /\ \A x, y : T!AdoptRow(x) = T!AdoptRow(y) => x = y
    /\ \A i, c : T!IfaceRow(i) # T!BindRow(c)
    /\ \A i, x : T!IfaceRow(i) # T!AdoptRow(x)
    /\ \A c, x : T!BindRow(c) # T!AdoptRow(x)
<1>1. ASSUME NEW i, NEW j, T!IfaceRow(i) = T!IfaceRow(j) PROVE i = j
  <2>1. <<"if", i>>[2] = <<"if", j>>[2] BY <1>1, Zenon DEF T!IfaceRow
  <2> QED BY <2>1
<1>2. ASSUME NEW c, NEW d, T!BindRow(c) = T!BindRow(d) PROVE c.iface = d.iface /\ c.app = d.app
  <2> DEFINE m == <<"b", c.iface, c.app>>
             n == <<"b", d.iface, d.app>>
  <2>1. m = n BY <1>2, Zenon DEF T!BindRow
  <2>2. m[2] = n[2] /\ m[3] = n[3] BY <2>1, Zenon
  <2>3. m[2] = c.iface /\ m[3] = c.app /\ n[2] = d.iface /\ n[3] = d.app OBVIOUS
  <2> HIDE DEF m, n
  <2> QED BY <2>2, <2>3
<1>3. ASSUME NEW x, NEW y, T!AdoptRow(x) = T!AdoptRow(y) PROVE x = y
  <2>1. <<"a", x>>[2] = <<"a", y>>[2] BY <1>3, Zenon DEF T!AdoptRow
  <2> QED BY <2>1
<1>4. ASSUME NEW i, NEW c PROVE T!IfaceRow(i) # T!BindRow(c)
  <2> DEFINE m == <<"if", i>>
             n == <<"b", c.iface, c.app>>
  <2>1. m[1] = "if" /\ n[1] = "b" OBVIOUS
  <2>2. m # n BY <2>1
  <2> QED BY <2>2, Zenon DEF T!IfaceRow, T!BindRow
<1>5. ASSUME NEW i, NEW x PROVE T!IfaceRow(i) # T!AdoptRow(x)
  <2>1. <<"if", i>>[1] # <<"a", x>>[1] OBVIOUS
  <2> QED BY <2>1, Zenon DEF T!IfaceRow, T!AdoptRow
<1>6. ASSUME NEW c, NEW x PROVE T!BindRow(c) # T!AdoptRow(x)
  <2> DEFINE m == <<"a", x>>
             n == <<"b", c.iface, c.app>>
  <2>1. m[1] = "a" /\ n[1] = "b" OBVIOUS
  <2>2. m # n BY <2>1
  <2> QED BY <2>2, Zenon DEF T!AdoptRow, T!BindRow
<1> QED BY <1>1, <1>2, <1>3, <1>4, <1>5, <1>6

\* A row is named for what it shows.
LEMMA IfaceFields ==
    ASSUME NEW s, NEW known, NEW i
    PROVE  /\ T!RowOfIface(s, i, known).iid = T!IfaceRow(i) /\ T!RowOfIface(s, i, known).parent = None
           /\ T!RowOfIface(s, i, known).kind = "iface" /\ T!RowOfIface(s, i, known).iface = i
  BY DEF T!RowOfIface

LEMMA BindFields ==
    ASSUME NEW s, NEW c
    PROVE  /\ T!RowOfBinding(s, c).iid = T!BindRow(c) /\ T!RowOfBinding(s, c).parent = T!IfaceRow(c.iface)
           /\ T!RowOfBinding(s, c).kind = "bind" /\ T!RowOfBinding(s, c).iface = c.iface
           /\ T!RowOfBinding(s, c).running = T!Runs(s, c)
  BY DEF T!RowOfBinding

LEMMA AdoptFields ==
    ASSUME NEW s, NEW ad
    PROVE  /\ T!RowOfAdoption(s, ad).iid = T!AdoptRow(ad.id) /\ T!RowOfAdoption(s, ad).parent = T!IfaceRow(ad.iface)
           /\ T!RowOfAdoption(s, ad).kind = "adopt" /\ T!RowOfAdoption(s, ad).iface = ad.iface
  BY DEF T!RowOfAdoption

\* Two rows of a snapshot that have the same name are the same.
LEMMA RowNamed ==
    ASSUME NEW s, T!Snapshot(s), NEW known, NEW q \in Row(s, known), NEW r \in Row(s, known), q.iid = r.iid
    PROVE  q = r
<1>1. CASE \E i \in T!Iface : q = T!RowOfIface(s, i, known)
  <2>1. PICK i \in T!Iface : q = T!RowOfIface(s, i, known) BY <1>1
  <2>2. r.iid = T!IfaceRow(i) BY <2>1, IfaceFields
  <2>3. \A k : T!RowOfBinding(s, s.bindings[k]).iid # T!IfaceRow(i) BY BindFields, NamesApart
  <2>4. \A k : T!RowOfAdoption(s, s.adoptions[k]).iid # T!IfaceRow(i) BY AdoptFields, NamesApart
  <2>5. PICK j \in T!Iface : r = T!RowOfIface(s, j, known) BY <2>2, <2>3, <2>4, Zenon DEF Row
  <2>6. r.iid = T!IfaceRow(j) BY <2>5, IfaceFields
  <2>7. i = j BY <2>2, <2>6, NamesApart
  <2> QED BY <2>1, <2>5, <2>7
<1>2. CASE \E k \in DOMAIN s.bindings : q = T!RowOfBinding(s, s.bindings[k])
  <2>1. PICK k \in DOMAIN s.bindings : q = T!RowOfBinding(s, s.bindings[k]) BY <1>2
  <2> DEFINE c == s.bindings[k]
  <2>2. r.iid = T!BindRow(c) BY <2>1, BindFields
  <2>3. \A i : T!RowOfIface(s, i, known).iid # T!BindRow(c) BY IfaceFields, NamesApart
  <2>4. \A j : T!RowOfAdoption(s, s.adoptions[j]).iid # T!BindRow(c) BY AdoptFields, NamesApart
  <2>5. PICK j \in DOMAIN s.bindings : r = T!RowOfBinding(s, s.bindings[j]) BY <2>2, <2>3, <2>4, Zenon DEF Row
  <2> DEFINE d == s.bindings[j]
  <2>6. r.iid = T!BindRow(d) BY <2>5, BindFields
  <2>7. c \in T!Binding /\ d \in T!Binding BY SnapshotOrders
  <2>8. c.iface = d.iface /\ c.app = d.app BY <2>2, <2>6, NamesApart
  <2>9. r = T!RowOfBinding(s, d) /\ q = T!RowOfBinding(s, c) BY <2>1, <2>5
  <2> HIDE DEF c, d
  <2>10. c = d BY <2>7, <2>8 DEF T!Binding
  <2> QED BY <2>9, <2>10
<1>3. CASE \E k \in DOMAIN s.adoptions : q = T!RowOfAdoption(s, s.adoptions[k])
  <2>1. PICK k \in DOMAIN s.adoptions : q = T!RowOfAdoption(s, s.adoptions[k]) BY <1>3
  <2> DEFINE c == s.adoptions[k]
  <2>2. r.iid = T!AdoptRow(c.id) BY <2>1, AdoptFields
  <2>3. \A i : T!RowOfIface(s, i, known).iid # T!AdoptRow(c.id) BY IfaceFields, NamesApart
  <2>4. \A j : T!RowOfBinding(s, s.bindings[j]).iid # T!AdoptRow(c.id) BY BindFields, NamesApart
  <2>5. PICK j \in DOMAIN s.adoptions : r = T!RowOfAdoption(s, s.adoptions[j]) BY <2>2, <2>3, <2>4, Zenon DEF Row
  <2> DEFINE d == s.adoptions[j]
  <2>6. r.iid = T!AdoptRow(d.id) BY <2>5, AdoptFields
  <2>7. c.id = d.id BY <2>2, <2>6, NamesApart
  <2>8. k = j BY <2>7, SnapshotOrders
  <2> QED BY <2>1, <2>5, <2>8
<1> QED BY <1>1, <1>2, <1>3, Zenon DEF Row

\* Rows of different names each.
OneEach(q) == \A j, k \in 1..Len(q) : q[j].iid = q[k].iid => j = k
\* A row stands under one that is there, or under none.
Headed(q) == \A k \in 1..Len(q) : q[k].parent = None \/ \E j \in 1..Len(q) : q[j].iid = q[k].parent

\* Parts without a common name have each name once together.
LEMMA OneEachConcat ==
    ASSUME NEW A, NEW q \in Seq(A), NEW r \in Seq(A), OneEach(q), OneEach(r),
           \A j \in 1..Len(q), k \in 1..Len(r) : q[j].iid # r[k].iid
    PROVE  OneEach(q \o r)
<1> DEFINE c == q \o r
<1>1. /\ Len(q) \in Nat /\ Len(r) \in Nat /\ Len(c) = Len(q) + Len(r)
      /\ \A k \in 1..Len(q) + Len(r) : c[k] = IF k <= Len(q) THEN q[k] ELSE r[k - Len(q)]
  BY LenProperties, ConcatProperties
<1> HIDE DEF c
<1> SUFFICES ASSUME NEW j \in 1..Len(c), NEW k \in 1..Len(c), c[j].iid = c[k].iid PROVE j = k
  BY DEF OneEach, c
<1>2. CASE j <= Len(q) /\ k <= Len(q) BY <1>1, <1>2 DEF OneEach
<1>3. CASE j > Len(q) /\ k > Len(q)
  <2>1. j - Len(q) \in 1..Len(r) /\ k - Len(q) \in 1..Len(r) BY <1>1, <1>3
  <2>2. c[j] = r[j - Len(q)] /\ c[k] = r[k - Len(q)] BY <1>1, <1>3
  <2>3. j - Len(q) = k - Len(q) BY <2>1, <2>2 DEF OneEach
  <2> QED BY <1>1, <2>3
<1>4. CASE j <= Len(q) /\ k > Len(q)
  <2>1. j \in 1..Len(q) /\ k - Len(q) \in 1..Len(r) BY <1>1, <1>4
  <2>2. c[j] = q[j] /\ c[k] = r[k - Len(q)] BY <1>1, <1>4
  <2> QED BY <2>1, <2>2
<1>5. CASE j > Len(q) /\ k <= Len(q)
  <2>1. k \in 1..Len(q) /\ j - Len(q) \in 1..Len(r) BY <1>1, <1>5
  <2>2. c[k] = q[k] /\ c[j] = r[j - Len(q)] BY <1>1, <1>5
  <2> QED BY <2>1, <2>2
<1> QED BY <1>1, <1>2, <1>3, <1>4, <1>5

\* Parts whose rows stand under their own stand so together.
LEMMA HeadedConcat ==
    ASSUME NEW A, NEW q \in Seq(A), NEW r \in Seq(A), Headed(q), Headed(r)
    PROVE  Headed(q \o r)
<1> DEFINE c == q \o r
<1>1. /\ Len(q) \in Nat /\ Len(r) \in Nat /\ Len(c) = Len(q) + Len(r)
      /\ \A k \in 1..Len(q) + Len(r) : c[k] = IF k <= Len(q) THEN q[k] ELSE r[k - Len(q)]
  BY LenProperties, ConcatProperties
<1> HIDE DEF c
<1> SUFFICES ASSUME NEW k \in 1..Len(c), c[k].parent # None
             PROVE  \E j \in 1..Len(c) : c[j].iid = c[k].parent
  BY DEF Headed, c
<1>2. CASE k <= Len(q)
  <2>1. k \in 1..Len(q) /\ c[k] = q[k] BY <1>1, <1>2
  <2>2. PICK j \in 1..Len(q) : q[j].iid = q[k].parent BY <2>1 DEF Headed
  <2>3. j \in 1..Len(c) /\ c[j] = q[j] BY <1>1
  <2> QED BY <2>1, <2>2, <2>3
<1>3. CASE k > Len(q)
  <2>1. k - Len(q) \in 1..Len(r) /\ c[k] = r[k - Len(q)] BY <1>1, <1>3
  <2>2. PICK j \in 1..Len(r) : r[j].iid = r[k - Len(q)].parent BY <2>1 DEF Headed
  <2>3. Len(q) + j \in 1..Len(c) /\ c[Len(q) + j] = r[j] BY <1>1
  <2> QED BY <2>1, <2>2, <2>3
<1> QED BY <1>1, <1>2, <1>3


\* The rows of the bindings of an interface, and of the adoptions on it.
BindRows(s, i) ==
    [k \in DOMAIN T!Only(s.bindings, [iface : {i}, app : App]) |->
        T!RowOfBinding(s, T!Only(s.bindings, [iface : {i}, app : App])[k])]
AdoptRows(s, i) ==
    [k \in DOMAIN T!Only(s.adoptions, [id : Slot, iface : {i}]) |->
        T!RowOfAdoption(s, T!Only(s.adoptions, [id : Slot, iface : {i}])[k])]

\* Rows of an interface: they are rows of the snapshot, one of each, and stand
\* under the row of the interface.
Under(q, s, known, i) ==
    /\ q \in Seq(Row(s, known)) /\ OneEach(q)
    /\ \A k \in 1..Len(q) : q[k].iface = i /\ q[k].parent = T!IfaceRow(i)

\* The rows of the bindings of an interface: each once, none missing.
LEMMA BindRowsUnder ==
    ASSUME NEW s, T!Snapshot(s), NEW known, NEW i \in T!Iface
    PROVE  /\ Under(BindRows(s, i), s, known, i)
           /\ \A k \in 1..Len(BindRows(s, i)) : BindRows(s, i)[k].kind = "bind"
           \* None is missing.
           /\ \A k \in DOMAIN s.bindings : s.bindings[k].iface = i =>
                 \E j \in 1..Len(BindRows(s, i)) : BindRows(s, i)[j] = T!RowOfBinding(s, s.bindings[k])
<1> DEFINE S == [iface : {i}, app : App]
           o == T!Only(s.bindings, S)
           q == BindRows(s, i)
<1> HIDE DEF S
<1>1. s.bindings \in Seq(T!Binding) BY SnapshotOrders
<1>2. o \in Seq(T!Binding \cap S) BY <1>1, OnlyType
<1>3. PICK e \in [1..Len(o) -> 1..Len(s.bindings)] :
         /\ \A k \in 1..Len(o) : o[k] = s.bindings[e[k]]
         /\ \A j, k \in 1..Len(o) : e[j] = e[k] => j = k
  BY <1>1, OnlyPlaces
<1>4. q = [k \in DOMAIN o |-> T!RowOfBinding(s, o[k])] BY DEF BindRows, S
<1> HIDE DEF o, q
<1>5. DOMAIN o = 1..Len(o) /\ Len(o) \in Nat /\ \A k \in 1..Len(o) : o[k].iface = i /\ o[k] \in T!Binding
  <2>1. \A k \in 1..Len(o) : o[k] \in T!Binding \cap S BY <1>2, ElementOfSeq
  <2> QED BY <1>2, <2>1, LenProperties DEF S
<1>6. q = [k \in 1..Len(o) |-> T!RowOfBinding(s, o[k])] BY <1>4, <1>5
<1>7. \A k \in 1..Len(o) : q[k] = T!RowOfBinding(s, o[k]) BY <1>6
<1>8. \A k \in 1..Len(o) : q[k] \in Row(s, known)
  <2> SUFFICES ASSUME NEW k \in 1..Len(o) PROVE q[k] \in Row(s, known) OBVIOUS
  <2>1. e[k] \in DOMAIN s.bindings BY <1>3, SnapshotOrders
  <2>2. q[k] = T!RowOfBinding(s, s.bindings[e[k]]) BY <1>3, <1>7
  <2> QED BY <2>1, <2>2, Zenon DEF Row
<1>9. q \in Seq(Row(s, known)) /\ Len(q) = Len(o)
  <2>1. q \in [1..Len(o) -> Row(s, known)]
    <3>1. DOMAIN q = 1..Len(o) BY <1>6
    <3> QED BY <1>6, <1>7, <1>8
  <2> QED BY <2>1, <1>5
<1>10. OneEach(q)
  <2> SUFFICES ASSUME NEW j \in 1..Len(o), NEW k \in 1..Len(o), q[j].iid = q[k].iid PROVE j = k
    BY <1>9 DEF OneEach
  <2>1. T!BindRow(o[j]) = T!BindRow(o[k]) BY <1>7, BindFields
  <2>2. o[j].iface = o[k].iface /\ o[j].app = o[k].app BY <2>1, NamesApart
  <2>3. o[j] = o[k] BY <1>5, <2>2 DEF T!Binding
  <2>4. s.bindings[e[j]] = s.bindings[e[k]] /\ e[j] \in DOMAIN s.bindings /\ e[k] \in DOMAIN s.bindings
    BY <1>3, <2>3, SnapshotOrders
  <2>5. e[j] = e[k] BY <2>4, SnapshotOrders
  <2> QED BY <1>3, <2>5
<1>11. \A k \in 1..Len(q) : q[k].iface = i /\ q[k].parent = T!IfaceRow(i) /\ q[k].kind = "bind"
  BY <1>5, <1>7, <1>9, BindFields
<1>12. ASSUME NEW k \in DOMAIN s.bindings, s.bindings[k].iface = i
       PROVE  \E j \in 1..Len(q) : q[j] = T!RowOfBinding(s, s.bindings[k])
  <2>1. s.bindings[k] \in S /\ k \in 1..Len(s.bindings) BY <1>12, SnapshotOrders DEF S, T!Binding
  <2>2. PICK j \in 1..Len(o) : o[j] = s.bindings[k]
    <3> DEFINE w == s.bindings
    <3>1. w \in Seq(T!Binding) /\ k \in 1..Len(w) /\ w[k] \in S BY <1>1, <2>1
    <3> HIDE DEF w
    <3>2. \E j \in 1..Len(T!Only(w, S)) : T!Only(w, S)[j] = w[k] BY <3>1, OnlyHas
    <3> QED BY <3>2 DEF o, w
  <2> QED BY <1>7, <1>9, <2>2
<1> QED BY <1>9, <1>10, <1>11, <1>12 DEF Under, q

\* The rows of the adoptions on it: each once, none missing.
LEMMA AdoptRowsUnder ==
    ASSUME NEW s, T!Snapshot(s), NEW known, NEW i \in T!Iface
    PROVE  /\ Under(AdoptRows(s, i), s, known, i)
           /\ \A k \in 1..Len(AdoptRows(s, i)) : AdoptRows(s, i)[k].kind = "adopt"
           /\ \A k \in DOMAIN s.adoptions : s.adoptions[k].iface = i =>
                 \E j \in 1..Len(AdoptRows(s, i)) : AdoptRows(s, i)[j] = T!RowOfAdoption(s, s.adoptions[k])
<1> DEFINE S == [id : Slot, iface : {i}]
           o == T!Only(s.adoptions, S)
           q == AdoptRows(s, i)
<1> HIDE DEF S
<1>1. s.adoptions \in Seq(T!Adoption) BY SnapshotOrders
<1>2. o \in Seq(T!Adoption \cap S) BY <1>1, OnlyType
<1>3. PICK e \in [1..Len(o) -> 1..Len(s.adoptions)] :
         /\ \A k \in 1..Len(o) : o[k] = s.adoptions[e[k]]
         /\ \A j, k \in 1..Len(o) : e[j] = e[k] => j = k
  BY <1>1, OnlyPlaces
<1>4. q = [k \in DOMAIN o |-> T!RowOfAdoption(s, o[k])] BY DEF AdoptRows, S
<1> HIDE DEF o, q
<1>5. DOMAIN o = 1..Len(o) /\ Len(o) \in Nat /\ \A k \in 1..Len(o) : o[k].iface = i
  <2>1. \A k \in 1..Len(o) : o[k] \in T!Adoption \cap S BY <1>2, ElementOfSeq
  <2> QED BY <1>2, <2>1, LenProperties DEF S
<1>6. q = [k \in 1..Len(o) |-> T!RowOfAdoption(s, o[k])] BY <1>4, <1>5
<1>7. \A k \in 1..Len(o) : q[k] = T!RowOfAdoption(s, o[k]) BY <1>6
<1>8. \A k \in 1..Len(o) : q[k] \in Row(s, known)
  <2> SUFFICES ASSUME NEW k \in 1..Len(o) PROVE q[k] \in Row(s, known) OBVIOUS
  <2>1. e[k] \in DOMAIN s.adoptions BY <1>3, SnapshotOrders
  <2>2. q[k] = T!RowOfAdoption(s, s.adoptions[e[k]]) BY <1>3, <1>7
  <2> QED BY <2>1, <2>2, Zenon DEF Row
<1>9. q \in Seq(Row(s, known)) /\ Len(q) = Len(o)
  <2>1. q \in [1..Len(o) -> Row(s, known)]
    <3>1. DOMAIN q = 1..Len(o) BY <1>6
    <3> QED BY <1>6, <1>7, <1>8
  <2> QED BY <2>1, <1>5
<1>10. OneEach(q)
  <2> SUFFICES ASSUME NEW j \in 1..Len(o), NEW k \in 1..Len(o), q[j].iid = q[k].iid PROVE j = k
    BY <1>9 DEF OneEach
  <2>1. T!AdoptRow(o[j].id) = T!AdoptRow(o[k].id) BY <1>7, AdoptFields
  <2>2. o[j].id = o[k].id BY <2>1, NamesApart
  <2>3. s.adoptions[e[j]].id = s.adoptions[e[k]].id /\ e[j] \in DOMAIN s.adoptions /\ e[k] \in DOMAIN s.adoptions
    BY <1>3, <2>2, SnapshotOrders
  <2>4. e[j] = e[k] BY <2>3, SnapshotOrders
  <2> QED BY <1>3, <2>4
<1>11. \A k \in 1..Len(q) : q[k].iface = i /\ q[k].parent = T!IfaceRow(i) /\ q[k].kind = "adopt"
  BY <1>5, <1>7, <1>9, AdoptFields
<1>12. ASSUME NEW k \in DOMAIN s.adoptions, s.adoptions[k].iface = i
       PROVE  \E j \in 1..Len(q) : q[j] = T!RowOfAdoption(s, s.adoptions[k])
  <2>1. s.adoptions[k] \in S /\ k \in 1..Len(s.adoptions) BY <1>12, SnapshotOrders DEF S, T!Adoption
  <2>2. PICK j \in 1..Len(o) : o[j] = s.adoptions[k]
    <3> DEFINE w == s.adoptions
    <3>1. w \in Seq(T!Adoption) /\ k \in 1..Len(w) /\ w[k] \in S BY <1>1, <2>1
    <3> HIDE DEF w
    <3>2. \E j \in 1..Len(T!Only(w, S)) : T!Only(w, S)[j] = w[k] BY <3>1, OnlyHas
    <3> QED BY <3>2 DEF o, w
  <2> QED BY <1>7, <1>9, <2>2
<1> QED BY <1>9, <1>10, <1>11, <1>12 DEF Under, q

\* The rows made of the first i interfaces: those that carry applications, and
\* all of them.
UpTo(q, s, known, i) ==
    /\ q \in Seq(Row(s, known)) /\ OneEach(q) /\ Headed(q)
    /\ \A k \in 1..Len(q) : q[k].iface \in 1..i /\ q[k].iface \in T!Bound(s)
    /\ \A r \in Row(s, known) : r.iface \in 1..i /\ r.iface \in T!Bound(s) => \E k \in 1..Len(q) : q[k] = r

\* All rows of an interface, led by its own.
LEMMA GroupRows ==
    ASSUME NEW s, T!Snapshot(s), NEW known, NEW i \in T!Iface
    PROVE  /\ T!Group(s, i, known) \in Seq(Row(s, known))
           /\ OneEach(T!Group(s, i, known)) /\ Headed(T!Group(s, i, known))
           /\ \A k \in 1..Len(T!Group(s, i, known)) : T!Group(s, i, known)[k].iface = i
           /\ \A r \in Row(s, known) : r.iface = i =>
                 \E k \in 1..Len(T!Group(s, i, known)) : T!Group(s, i, known)[k] = r
<1> DEFINE h == T!RowOfIface(s, i, known)
           R == Row(s, known)
           q == BindRows(s, i)
           r == AdoptRows(s, i)
           top == <<h>>
           c == q \o r
           g == top \o c
<1>1. /\ Under(q, s, known, i) /\ \A k \in 1..Len(q) : q[k].kind = "bind"
      /\ \A k \in DOMAIN s.bindings : s.bindings[k].iface = i =>
            \E j \in 1..Len(q) : q[j] = T!RowOfBinding(s, s.bindings[k])
  BY BindRowsUnder
<1>2. /\ Under(r, s, known, i) /\ \A k \in 1..Len(r) : r[k].kind = "adopt"
      /\ \A k \in DOMAIN s.adoptions : s.adoptions[k].iface = i =>
            \E j \in 1..Len(r) : r[j] = T!RowOfAdoption(s, s.adoptions[k])
  BY AdoptRowsUnder
<1>3. h \in R /\ h.iid = T!IfaceRow(i) /\ h.parent = None /\ h.kind = "iface" /\ h.iface = i
  <2>1. h \in R BY Zenon DEF Row
  <2> QED BY <2>1, IfaceFields
<1>g. T!Group(s, i, known) = (top \o q) \o r BY Zenon DEF T!Group, BindRows, AdoptRows
<1>4. q \in Seq(R) /\ r \in Seq(R) BY <1>1, <1>2 DEF Under
<1> HIDE DEF h, R, q, r
<1>5. top \in Seq(R) /\ Len(top) = 1 /\ top[1] = h BY <1>3
<1> HIDE DEF top
<1>6. /\ c \in Seq(R) /\ Len(c) = Len(q) + Len(r) /\ Len(q) \in Nat /\ Len(r) \in Nat
      /\ \A k \in 1..Len(q) + Len(r) : c[k] = IF k <= Len(q) THEN q[k] ELSE r[k - Len(q)]
  BY <1>4, ConcatProperties, LenProperties
<1>7. g = (top \o q) \o r BY <1>4, <1>5, ConcatAssociative
<1> HIDE DEF c
<1>8. /\ g \in Seq(R) /\ Len(g) = 1 + Len(c) /\ g[1] = h
      /\ \A k \in 2..(1 + Len(c)) : g[k] = c[k - 1]
  <2>1. /\ g \in Seq(R) /\ Len(g) = Len(top) + Len(c)
        /\ \A k \in 1..Len(top) + Len(c) : g[k] = IF k <= Len(top) THEN top[k] ELSE c[k - Len(top)]
    <3>1. top \in Seq(R) /\ c \in Seq(R) BY <1>5, <1>6
    <3> QED BY <3>1, ConcatProperties
  <2> HIDE DEF g
  <2> QED BY <2>1, <1>5, <1>6
<1> HIDE DEF g
<1>9. \A k \in 1..Len(c) : c[k].iface = i /\ c[k].parent = T!IfaceRow(i) /\ c[k].kind # "iface"
  <2> SUFFICES ASSUME NEW k \in 1..Len(c)
               PROVE  c[k].iface = i /\ c[k].parent = T!IfaceRow(i) /\ c[k].kind # "iface"
    OBVIOUS
  <2>1. CASE k <= Len(q)
    <3>1. k \in 1..Len(q) /\ c[k] = q[k] BY <1>6, <2>1
    <3> QED BY <3>1, <1>1 DEF Under
  <2>2. CASE k > Len(q)
    <3>1. k - Len(q) \in 1..Len(r) /\ c[k] = r[k - Len(q)] BY <1>6, <2>2
    <3> QED BY <3>1, <1>2 DEF Under
  <2> QED BY <2>1, <2>2, <1>6
<1>10. OneEach(c)
  <2>1. ASSUME NEW j \in 1..Len(q), NEW k \in 1..Len(r) PROVE q[j].iid # r[k].iid
    <3>1. q[j] \in R /\ r[k] \in R BY <1>4, ElementOfSeq
    <3>2. q[j] # r[k] BY <1>1, <1>2
    <3> QED BY <3>1, <3>2, RowNamed DEF R
  <2>2. OneEach(q) /\ OneEach(r) BY <1>1, <1>2 DEF Under
  <2> QED BY <1>4, <2>1, <2>2, OneEachConcat DEF c
<1>11. OneEach(g)
  <2>1. ASSUME NEW j \in 1..Len(top), NEW k \in 1..Len(c) PROVE top[j].iid # c[k].iid
    <3>1. top[j] = h /\ c[k] \in R BY <1>5, <1>6, ElementOfSeq
    <3>2. h # c[k] BY <1>3, <1>9
    <3> QED BY <1>3, <3>1, <3>2, RowNamed DEF R
  <2>2. OneEach(top) BY <1>5 DEF OneEach
  <2> QED BY <1>5, <1>6, <1>10, <2>1, <2>2, OneEachConcat DEF g
<1>12. \A k \in 1..Len(g) : g[k].iface = i /\ (g[k].parent = None \/ g[k].parent = g[1].iid)
  <2> SUFFICES ASSUME NEW k \in 1..Len(g) PROVE g[k].iface = i /\ (g[k].parent = None \/ g[k].parent = g[1].iid)
    OBVIOUS
  <2>1. CASE k = 1 BY <1>3, <1>8, <2>1
  <2>2. CASE k # 1
    <3>1. k \in 2..(1 + Len(c)) /\ k - 1 \in 1..Len(c) /\ g[k] = c[k - 1] BY <1>6, <1>8, <2>2
    <3> QED BY <1>3, <1>8, <1>9, <3>1
  <2> QED BY <2>1, <2>2
<1>13. Headed(g)
  <2>1. 1 \in 1..Len(g) BY <1>6, <1>8
  <2> QED BY <1>12, <2>1 DEF Headed
<1>14. ASSUME NEW x \in R, x.iface = i PROVE \E k \in 1..Len(g) : g[k] = x
  <2>1. CASE \E j \in T!Iface : x = T!RowOfIface(s, j, known)
    <3>1. PICK j \in T!Iface : x = T!RowOfIface(s, j, known) BY <2>1
    <3>2. x = h BY <1>14, <3>1, IfaceFields DEF h
    <3> QED BY <1>6, <1>8, <3>2
  <2>2. CASE \E k \in DOMAIN s.bindings : x = T!RowOfBinding(s, s.bindings[k])
    <3>1. PICK k \in DOMAIN s.bindings : x = T!RowOfBinding(s, s.bindings[k]) BY <2>2
    <3>2. s.bindings[k].iface = i BY <1>14, <3>1, BindFields
    <3>3. PICK j \in 1..Len(q) : q[j] = x BY <1>1, <3>1, <3>2
    <3>4. j \in 1..Len(c) /\ c[j] = x BY <1>6, <3>3
    <3>5. j + 1 \in 2..(1 + Len(c)) /\ (j + 1) - 1 = j BY <1>6, <3>4
    <3>6. g[j + 1] = x /\ j + 1 \in 1..Len(g) BY <1>8, <3>4, <3>5
    <3> QED BY <3>6
  <2>3. CASE \E k \in DOMAIN s.adoptions : x = T!RowOfAdoption(s, s.adoptions[k])
    <3>1. PICK k \in DOMAIN s.adoptions : x = T!RowOfAdoption(s, s.adoptions[k]) BY <2>3
    <3>2. s.adoptions[k].iface = i BY <1>14, <3>1, AdoptFields
    <3>3. PICK j \in 1..Len(r) : r[j] = x BY <1>2, <3>1, <3>2
    <3>4. Len(q) + j \in 1..Len(c) /\ c[Len(q) + j] = x
      <4>1. Len(q) + j \in 1..(Len(q) + Len(r)) /\ ~(Len(q) + j <= Len(q)) /\ (Len(q) + j) - Len(q) = j BY <1>6
      <4> QED BY <1>6, <3>3, <4>1
    <3>5. Len(q) + j + 1 \in 2..(1 + Len(c)) /\ (Len(q) + j + 1) - 1 = Len(q) + j BY <1>6, <3>4
    <3>6. g[Len(q) + j + 1] = x /\ Len(q) + j + 1 \in 1..Len(g) BY <1>8, <3>4, <3>5
    <3> QED BY <3>6
  <2> QED BY <2>1, <2>2, <2>3, Zenon DEF R, Row
<1> QED BY <1>g, <1>7, <1>8, <1>11, <1>12, <1>13, <1>14 DEF R

\* g[i] is the rows of the first i interfaces.
RowsNext(g, s, known, i) == IF i \in T!Bound(s) THEN g[i - 1] \o T!Group(s, i, known) ELSE g[i - 1]
Collects(g, s, known, n) ==
    /\ g = [i \in 0..n |-> g[i]] /\ g[0] = <<>>
    /\ \A i \in 1..n : g[i] = RowsNext(g, s, known, i)

\* Such a function exists.
LEMMA RowsExist ==
    ASSUME NEW s, NEW known, NEW n \in Nat PROVE \E g : Collects(g, s, known, n)
<1> DEFINE N == {m \in Nat : \E g : Collects(g, s, known, m)}
<1>1. 0 \in N
  <2>1. Collects([i \in 0..0 |-> <<>>], s, known, 0) BY DEF Collects
  <2> QED BY <2>1
<1>2. ASSUME NEW m \in N PROVE m + 1 \in N
  <2>1. PICK g : Collects(g, s, known, m) OBVIOUS
  <2> DEFINE h == [i \in 0..(m + 1) |-> IF i = m + 1 THEN RowsNext(g, s, known, m + 1) ELSE g[i]]
  <2>2. h[0] = <<>> /\ h = [i \in 0..(m + 1) |-> h[i]] BY <2>1 DEF Collects
  <2>3. ASSUME NEW i \in 1..(m + 1) PROVE h[i] = RowsNext(h, s, known, i)
    <3>1. h[i - 1] = g[i - 1] OBVIOUS
    <3>2. RowsNext(h, s, known, i) = RowsNext(g, s, known, i) BY <3>1 DEF RowsNext
    <3>3. CASE i = m + 1 BY <3>2, <3>3
    <3>4. CASE i # m + 1
      <4>1. h[i] = g[i] BY <3>4
      <4> QED BY <3>2, <3>4, <4>1, <2>1 DEF Collects
    <3> QED BY <3>3, <3>4
  <2> HIDE DEF h
  <2>4. Collects(h, s, known, m + 1) BY <2>2, <2>3 DEF Collects
  <2> QED BY <2>4
<1>3. N = Nat
  <2>1. N \in SUBSET Nat OBVIOUS
  <2> HIDE DEF N
  <2> QED BY <1>1, <1>2, <2>1, Induct
<1> QED BY <1>3

\* What ActiveRows gives is the last value of one.
LEMMA RowsAreCollected ==
    ASSUME NEW s, NEW known
    PROVE  \E g : Collects(g, s, known, Ifaces) /\ T!ActiveRows(s, known) = g[Ifaces]
<1> DEFINE Body(g) == [i \in 0..Ifaces |->
                          IF i = 0 THEN <<>>
                          ELSE IF i \in T!Bound(s) THEN g[i - 1] \o T!Group(s, i, known) ELSE g[i - 1]]
           f == CHOOSE g : g = Body(g)
<1>n. Ifaces \in Nat BY IfacesAreNumbered
<1>1. PICK h : Collects(h, s, known, Ifaces) BY <1>n, RowsExist
<1>2. h = Body(h)
  <2>1. h[0] = <<>> /\ \A i \in 1..Ifaces : h[i] = RowsNext(h, s, known, i) BY <1>1 DEF Collects
  <2>2. \A i \in 0..Ifaces : Body(h)[i] = h[i] BY <1>n, <2>1 DEF RowsNext
  <2> QED BY <1>1, <2>2 DEF Collects
<1>3. f = Body(f) BY <1>2
<1>4. T!ActiveRows(s, known) = f[Ifaces] BY DEF T!ActiveRows
<1>5. Collects(f, s, known, Ifaces)
  <2>1. ASSUME NEW g, g = Body(g) PROVE Collects(g, s, known, Ifaces)
    <3>1. DOMAIN g = 0..Ifaces /\ g[0] = <<>> BY <1>n, <2>1
    <3>2. ASSUME NEW i \in 1..Ifaces PROVE g[i] = RowsNext(g, s, known, i)
      <4> DEFINE B == Body(g)
      <4>1. g[i] = B[i] BY <2>1, Zenon
      <4>2. i \in 0..Ifaces /\ i # 0 BY <1>n
      <4>3. B[i] = RowsNext(g, s, known, i) BY <4>2 DEF RowsNext
      <4> QED BY <4>1, <4>3, Zenon
    <3>3. g = [i \in 0..Ifaces |-> g[i]] BY <2>1
    <3> QED BY <3>1, <3>2, <3>3 DEF Collects
  <2> HIDE DEF f
  <2> QED BY <1>3, <2>1
<1> QED BY <1>4, <1>5

\* The rows of a snapshot: each once, and none without the one it stands under.
LEMMA ActiveRowsUpTo ==
    ASSUME NEW s, T!Snapshot(s), NEW known
    PROVE  UpTo(T!ActiveRows(s, known), s, known, Ifaces)
<1>n. Ifaces \in Nat BY IfacesAreNumbered
<1>1. PICK g : Collects(g, s, known, Ifaces) /\ T!ActiveRows(s, known) = g[Ifaces] BY RowsAreCollected
<1> DEFINE N == {i \in Nat : i <= Ifaces => UpTo(g[i], s, known, i)}
<1>2. 0 \in N
  <2>1. UpTo(<<>>, s, known, 0)
    <3>1. ~\E r \in Row(s, known) : r.iface \in 1..0 OBVIOUS
    <3> QED BY <3>1, EmptySeq DEF UpTo, OneEach, Headed
  <2> QED BY <1>1, <2>1 DEF Collects
<1>3. ASSUME NEW i \in N PROVE i + 1 \in N
  <2> SUFFICES ASSUME i + 1 <= Ifaces PROVE UpTo(g[i + 1], s, known, i + 1) OBVIOUS
  <2> DEFINE o == g[i]
             gr == T!Group(s, i + 1, known)
  <2>1. UpTo(o, s, known, i) BY <1>n
  <2>2. i + 1 \in 1..Ifaces /\ (i + 1) - 1 = i BY <1>n
  <2>3. g[i + 1] = IF i + 1 \in T!Bound(s) THEN o \o gr ELSE o BY <1>1, <2>2 DEF Collects, RowsNext
  <2>4. /\ gr \in Seq(Row(s, known)) /\ OneEach(gr) /\ Headed(gr)
        /\ \A k \in 1..Len(gr) : gr[k].iface = i + 1
        /\ \A r \in Row(s, known) : r.iface = i + 1 => \E k \in 1..Len(gr) : gr[k] = r
    BY <2>2, GroupRows DEF T!Iface
  <2> HIDE DEF o, gr
  <2>5. /\ o \in Seq(Row(s, known)) /\ OneEach(o) /\ Headed(o)
        /\ \A k \in 1..Len(o) : o[k].iface \in 1..i /\ o[k].iface \in T!Bound(s)
        /\ \A r \in Row(s, known) : r.iface \in 1..i /\ r.iface \in T!Bound(s) => \E k \in 1..Len(o) : o[k] = r
    BY <2>1 DEF UpTo
  <2>u. \A m \in 1..(i + 1) : m \in 1..i \/ m = i + 1 OBVIOUS
  <2>6. ASSUME i + 1 \notin T!Bound(s) PROVE UpTo(o, s, known, i + 1)
    <3>1. \A r \in Row(s, known) : r.iface \in 1..(i + 1) /\ r.iface \in T!Bound(s) => \E k \in 1..Len(o) : o[k] = r
      BY <2>5, <2>6, <2>u
    <3>2. \A k \in 1..Len(o) : o[k].iface \in 1..(i + 1) BY <2>5
    <3> QED BY <2>5, <3>1, <3>2 DEF UpTo
  <2>7. ASSUME i + 1 \in T!Bound(s) PROVE UpTo(o \o gr, s, known, i + 1)
    <3>1. ASSUME NEW j \in 1..Len(o), NEW k \in 1..Len(gr) PROVE o[j].iid # gr[k].iid
      <4>1. o[j] \in Row(s, known) /\ gr[k] \in Row(s, known) BY <2>4, <2>5, ElementOfSeq
      <4>2. o[j].iface # gr[k].iface BY <2>4, <2>5
      <4>3. o[j] # gr[k] BY <4>2
      <4> QED BY <4>1, <4>3, RowNamed
    <3>2. OneEach(o \o gr) BY <2>4, <2>5, <3>1, OneEachConcat
    <3>3. Headed(o \o gr) BY <2>4, <2>5, HeadedConcat
    <3> DEFINE c == o \o gr
    <3>4. /\ c \in Seq(Row(s, known)) /\ Len(c) = Len(o) + Len(gr) /\ Len(o) \in Nat /\ Len(gr) \in Nat
          /\ \A k \in 1..Len(o) + Len(gr) : c[k] = IF k <= Len(o) THEN o[k] ELSE gr[k - Len(o)]
      BY <2>4, <2>5, ConcatProperties, LenProperties
    <3> HIDE DEF c
    <3>5. ASSUME NEW k \in 1..Len(c) PROVE c[k].iface \in 1..(i + 1) /\ c[k].iface \in T!Bound(s)
      <4>1. CASE k <= Len(o)
        <5>1. k \in 1..Len(o) /\ c[k] = o[k] BY <3>4, <4>1
        <5> QED BY <2>5, <5>1
      <4>2. CASE k > Len(o)
        <5>1. k - Len(o) \in 1..Len(gr) /\ c[k] = gr[k - Len(o)] BY <3>4, <4>2
        <5> QED BY <2>4, <2>7, <5>1
      <4> QED BY <3>4, <4>1, <4>2
    <3>6. ASSUME NEW r \in Row(s, known), r.iface \in 1..(i + 1), r.iface \in T!Bound(s)
          PROVE  \E k \in 1..Len(c) : c[k] = r
      <4>1. CASE r.iface \in 1..i
        <5>1. PICK k \in 1..Len(o) : o[k] = r BY <2>5, <3>6, <4>1
        <5>2. k \in 1..Len(c) /\ c[k] = r BY <3>4, <5>1
        <5> QED BY <5>2
      <4>2. CASE r.iface = i + 1
        <5>1. PICK k \in 1..Len(gr) : gr[k] = r BY <2>4, <4>2
        <5>2. Len(o) + k \in 1..(Len(o) + Len(gr)) /\ ~(Len(o) + k <= Len(o)) /\ (Len(o) + k) - Len(o) = k BY <3>4
        <5>3. Len(o) + k \in 1..Len(c) /\ c[Len(o) + k] = r BY <3>4, <5>1, <5>2
        <5> QED BY <5>3
      <4> QED BY <2>u, <3>6, <4>1, <4>2
    <3> QED BY <3>2, <3>3, <3>4, <3>5, <3>6 DEF c, UpTo
  <2> QED BY <2>3, <2>6, <2>7
<1>4. N = Nat
  <2>1. N \in SUBSET Nat OBVIOUS
  <2> HIDE DEF N
  <2> QED BY <1>2, <1>3, <2>1, Induct
<1> QED BY <1>n, <1>1, <1>4


-----------------------------------------------------------------------------
(* The widget is brought to show rows *)

\* Rows that can be shown: named and placed, each once, none without its head.
Showable(q) ==
    /\ DOMAIN q = 1..Len(q) /\ Len(q) \in Nat /\ OneEach(q) /\ Headed(q)
    /\ \A k \in 1..Len(q) : q[k].iid \in T!Iid /\ q[k].parent \in T!Parents

\* The rows of a snapshot can be shown.
LEMMA ActiveRowsShowable ==
    ASSUME NEW s, T!Snapshot(s), NEW known
    PROVE  Showable(T!ActiveRows(s, known))
<1> DEFINE q == T!ActiveRows(s, known)
<1>1. q \in Seq(Row(s, known)) /\ OneEach(q) /\ Headed(q) BY ActiveRowsUpTo DEF UpTo
<1> HIDE DEF q
<1>2. DOMAIN q = 1..Len(q) /\ Len(q) \in Nat /\ \A k \in 1..Len(q) : q[k] \in Row(s, known)
  BY <1>1, LenProperties, ElementOfSeq
<1>3. ASSUME NEW r \in Row(s, known) PROVE r.iid \in T!Iid /\ r.parent \in T!Parents
  <2>1. CASE \E i \in T!Iface : r = T!RowOfIface(s, i, known) BY <2>1, IfaceFields DEF T!Iid, T!Parents
  <2>2. CASE \E k \in DOMAIN s.bindings : r = T!RowOfBinding(s, s.bindings[k])
    <3>1. PICK k \in DOMAIN s.bindings : r = T!RowOfBinding(s, s.bindings[k]) BY <2>2
    <3>2. s.bindings[k] \in T!Binding BY SnapshotOrders
    <3>3. s.bindings[k].iface \in T!Iface BY <3>2 DEF T!Binding
    <3> QED BY <3>1, <3>2, <3>3, BindFields DEF T!Iid, T!Parents
  <2>3. CASE \E k \in DOMAIN s.adoptions : r = T!RowOfAdoption(s, s.adoptions[k])
    <3>1. PICK k \in DOMAIN s.adoptions : r = T!RowOfAdoption(s, s.adoptions[k]) BY <2>3
    <3>2. s.adoptions[k] \in T!Adoption BY SnapshotOrders
    <3>3. s.adoptions[k].iface \in T!Iface /\ s.adoptions[k].id \in Slot BY <3>2 DEF T!Adoption
    <3> QED BY <3>1, <3>3, AdoptFields DEF T!Iid, T!Parents
  <2> QED BY <2>1, <2>2, <2>3, Zenon DEF Row
<1> QED BY <1>1, <1>2, <1>3 DEF Showable, q

\* The names of the first k rows, in order and as a set.
First(q, k) == [j \in 1..k |-> q[j].iid]
Had(q, k) == {q[j].iid : j \in 1..k}

\* One row more.
LEMMA FirstNext ==
    ASSUME NEW q, Showable(q), NEW k \in 1..Len(q)
    PROVE  /\ First(q, k) = Append(First(q, k - 1), q[k].iid)
           /\ First(q, k - 1) \in Seq(Had(q, k - 1)) /\ First(q, k - 1) \in Seq(T!Iid)
           /\ Had(q, k) = Had(q, k - 1) \cup {q[k].iid} /\ q[k].iid \notin Had(q, k - 1)
           /\ Had(q, k - 1) \subseteq T!Iid
<1>1. k - 1 \in Nat /\ k - 1 + 1 = k /\ Len(q) \in Nat BY DEF Showable
<1> DEFINE f == First(q, k - 1)
           x == q[k].iid
<1>2. Had(q, k - 1) \subseteq T!Iid BY <1>1 DEF Had, Showable
<1>3. f \in Seq(Had(q, k - 1)) /\ Len(f) = k - 1
  <2>1. f \in [1..(k - 1) -> Had(q, k - 1)] BY DEF First, Had
  <2> QED BY <1>1, <2>1
<1>4. f \in Seq(T!Iid)
  <2> HIDE DEF f
  <2> QED BY <1>2, <1>3, SeqMonotonic
<1>5. First(q, k) = Append(f, x)
  <2>1. x \in T!Iid BY DEF Showable
  <2>2. \A j \in 1..(k - 1) : f[j] = q[j].iid BY DEF First
  <2>3. First(q, k) \in [1..k -> T!Iid] BY <1>1 DEF First, Showable
  <2>4. First(q, k) \in Seq(T!Iid) /\ Len(First(q, k)) = k BY <1>1, <2>3
  <2> HIDE DEF f, x
  <2>5. /\ Append(f, x) \in Seq(T!Iid) /\ Len(Append(f, x)) = k /\ Append(f, x)[k] = x
        /\ \A j \in 1..(k - 1) : Append(f, x)[j] = f[j]
    BY <1>1, <1>3, <1>4, <2>1, AppendProperties
  <2>6. ASSUME NEW j \in 1..k PROVE First(q, k)[j] = Append(f, x)[j]
    <3>1. First(q, k)[j] = q[j].iid BY DEF First
    <3>2. CASE j = k BY <2>5, <3>1, <3>2 DEF x
    <3>3. CASE j # k
      <4>1. j \in 1..(k - 1) BY <1>1, <3>3
      <4> QED BY <2>2, <2>5, <3>1, <4>1
    <3> QED BY <3>2, <3>3
  <2> QED BY <2>4, <2>5, <2>6, SeqEqual
<1>6. Had(q, k) = Had(q, k - 1) \cup {x}
  <2>1. 1..k = 1..(k - 1) \cup {k} BY <1>1
  <2> QED BY <2>1 DEF Had
<1>7. x \notin Had(q, k - 1) BY <1>1 DEF Had, Showable, OneEach
<1> QED BY <1>2, <1>3, <1>4, <1>5, <1>6, <1>7

\* None of the rows, and all of them.
LEMMA FirstEnds ==
    ASSUME NEW q, Showable(q)
    PROVE  /\ First(q, 0) = <<>> /\ Had(q, 0) = {}
           /\ First(q, Len(q)) = T!Names(q) /\ Had(q, Len(q)) = T!Wanted(q)
<1>1. 1..0 = {} OBVIOUS
<1>2. First(q, 0) = <<>> BY <1>1 DEF First
<1>3. Had(q, 0) = {} BY <1>1 DEF Had
<1>4. First(q, Len(q)) = T!Names(q) BY DEF First, T!Names, Showable
<1>5. Had(q, Len(q)) = T!Wanted(q) BY DEF Had, T!Wanted, Showable
<1> QED BY <1>2, <1>3, <1>4, <1>5

\* A row is among those under p just if it says so.
LEMMA ChildrenOf ==
    ASSUME NEW q, Showable(q), NEW k \in 1..Len(q), NEW p
    PROVE  q[k].iid \in T!Children(q, p) <=> q[k].parent = p
  BY DEF T!Children, Showable, OneEach

\* The place of a row is behind those of the rows before it under the same one.
LEMMA IndexIsLength ==
    ASSUME NEW q, Showable(q), NEW k \in 1..Len(q)
    PROVE  T!Index(q, k) = Len(T!Only(First(q, k - 1), T!Children(q, q[k].parent)))
<1> DEFINE p == q[k].parent
           C == T!Children(q, p)
           B(m) == {j \in 1..m : q[j].parent = p}
           N == {m \in Nat : m <= Len(q) => IsFiniteSet(B(m)) /\ Cardinality(B(m)) = Len(T!Only(First(q, m), C))}
<1>n. Len(q) \in Nat BY DEF Showable
<1>1. 0 \in N
  <2>1. B(0) = {} OBVIOUS
  <2>2. T!Only(First(q, 0), C) = <<>> BY FirstEnds, OnlyEmpty
  <2> HIDE DEF B, C
  <2> QED BY <2>1, <2>2, FS_EmptySet
<1>2. ASSUME NEW m \in N PROVE m + 1 \in N
  <2> SUFFICES ASSUME m + 1 <= Len(q)
               PROVE  /\ IsFiniteSet(B(m + 1))
                      /\ Cardinality(B(m + 1)) = Len(T!Only(First(q, m + 1), C))
    OBVIOUS
  <2> DEFINE x == q[m + 1].iid
             o == T!Only(First(q, m), C)
  <2>1. m + 1 \in 1..Len(q) /\ (m + 1) - 1 = m BY <1>n
  <2>2. /\ First(q, m + 1) = Append(First(q, m), x) /\ First(q, m) \in Seq(T!Iid) /\ x \in T!Iid
    BY <2>1, FirstNext DEF Showable
  <2>3. T!Only(First(q, m + 1), C) = IF x \in C THEN Append(o, x) ELSE o
    <3> HIDE DEF C, x
    <3>1. T!Only(Append(First(q, m), x), C) = IF x \in C THEN Append(o, x) ELSE o BY <2>2, OnlyAppend
    <3> QED BY <2>2, <3>1
  <2>4. o \in Seq(T!Iid) BY <2>2, OnlyType
  <2>5. x \in C <=> q[m + 1].parent = p BY <2>1, ChildrenOf
  <2>6. IsFiniteSet(B(m)) /\ Cardinality(B(m)) = Len(o) BY <1>n
  <2>7. B(m + 1) = IF q[m + 1].parent = p THEN B(m) \cup {m + 1} ELSE B(m) BY <1>n
  <2>8. m + 1 \notin B(m) OBVIOUS
  <2> HIDE DEF B, C, o, x
  <2>9. IsFiniteSet(B(m) \cup {m + 1}) /\ Cardinality(B(m) \cup {m + 1}) = Cardinality(B(m)) + 1
    BY <2>6, <2>8, FS_AddElement
  <2>10. Len(Append(o, x)) = Len(o) + 1 BY <2>2, <2>4, AppendProperties
  <2> QED BY <2>3, <2>5, <2>6, <2>7, <2>9, <2>10
<1>3. N = Nat
  <2>1. N \in SUBSET Nat OBVIOUS
  <2> HIDE DEF N
  <2> QED BY <1>1, <1>2, <2>1, Induct
<1>4. k - 1 \in Nat /\ k - 1 <= Len(q) BY <1>n
<1>5. k - 1 \in N BY <1>3, <1>4
<1>6. T!Index(q, k) = Cardinality(B(k - 1))
  <2>1. T!Index(q, k) = T!Cardinality(B(k - 1)) BY Zenon DEF T!Index
  <2>2. T!Cardinality(B(k - 1)) = Cardinality(B(k - 1)) BY DEF T!Cardinality, Cardinality
  <2> QED BY <2>1, <2>2
<1>7. Cardinality(B(k - 1)) = Len(T!Only(First(q, k - 1), C)) BY <1>4, <1>5
<1> QED BY <1>6, <1>7

\* What is inserted behind a part of a sequence stands between it and the rest.
LEMMA InsertBetween ==
    ASSUME NEW A, NEW u \in Seq(A), NEW v \in Seq(A), NEW x \in A
    PROVE  T!InsertAt(u \o v, Len(u) + 1, x) = Append(u, x) \o v
<1> DEFINE c == u \o v
           n == Len(u)
           m == Len(v)
<1>1. /\ c \in Seq(A) /\ Len(c) = n + m /\ n \in Nat /\ m \in Nat
      /\ \A k \in 1..(n + m) : c[k] = IF k <= n THEN u[k] ELSE v[k - n]
  BY ConcatProperties, LenProperties
<1> DEFINE h == SubSeq(c, 1, n)
           t == SubSeq(c, n + 1, Len(c))
<1>2. \A k \in 1..Len(c) : c[k] \in A BY <1>1, ElementOfSeq
<1>d. T!InsertAt(c, n + 1, x) = h \o <<x>> \o t
  <2>1. (n + 1) - 1 = n BY <1>1
  <2> QED BY <2>1 DEF T!InsertAt
<1> HIDE DEF c
<1>3. h = u
  <2>1. \A k \in 1..n : c[k] \in A BY <1>1, <1>2
  <2>2. /\ h \in Seq(A) /\ Len(h) = IF 1 <= n THEN n - 1 + 1 ELSE 0
        /\ \A k \in 1..(n - 1 + 1) : h[k] = c[1 + k - 1]
    BY <1>1, <2>1, SubSeqProperties
  <2> HIDE DEF h
  <2>3. Len(h) = n BY <1>1, <2>2
  <2>4. \A k \in 1..n : h[k] = u[k] BY <1>1, <2>2
  <2> QED BY <2>2, <2>3, <2>4, SeqEqual
<1>4. t = v
  <2>1. \A k \in (n + 1)..Len(c) : c[k] \in A BY <1>1, <1>2
  <2>2. /\ t \in Seq(A) /\ Len(t) = IF n + 1 <= Len(c) THEN Len(c) - (n + 1) + 1 ELSE 0
        /\ \A k \in 1..(Len(c) - (n + 1) + 1) : t[k] = c[(n + 1) + k - 1]
    BY <1>1, <2>1, SubSeqProperties
  <2> HIDE DEF t
  <2>3. Len(t) = m BY <1>1, <2>2
  <2>4. ASSUME NEW k \in 1..m PROVE t[k] = v[k]
    <3>1. k \in 1..(Len(c) - (n + 1) + 1) /\ (n + 1) + k - 1 = n + k BY <1>1
    <3>2. t[k] = c[n + k] BY <2>2, <3>1
    <3>3. n + k \in 1..(n + m) /\ ~(n + k <= n) /\ (n + k) - n = k BY <1>1
    <3> QED BY <1>1, <3>2, <3>3
  <2> QED BY <2>2, <2>3, <2>4, SeqEqual
<1>5. Append(u, x) = u \o <<x>> BY AppendIsConcat
<1> QED BY <1>d, <1>3, <1>4, <1>5 DEF c


\* What the widget holds: names of rows in their places, what each that is there
\* shows, which is what it was last told to show.
Widget(ki, it, me) ==
    /\ DOMAIN ki = T!Parents /\ \A p \in T!Parents : ki[p] \in Seq(T!Iid)
    /\ it = [iid \in DOMAIN it |-> it[iid]] /\ DOMAIN it \subseteq T!Iid
    /\ DOMAIN me = T!Iid /\ \A iid \in DOMAIN it : me[iid] = it[iid]

\* What is left when the rows that are not wanted have gone.
LEMMA PruneLeaves ==
    ASSUME NEW q, Widget(kids, item, memo)
    PROVE  /\ Widget(T!Prune(q).kids, T!Prune(q).item, T!Prune(q).memo)
           /\ \A p \in T!Parents : T!Prune(q).kids[p] \in Seq(T!Iid \cap T!Wanted(q))
           /\ DOMAIN T!Prune(q).item \subseteq T!Wanted(q)
<1> DEFINE W == T!Wanted(q)
           left == [p \in T!Parents |-> IF p \in {None} \cup W THEN T!Only(kids[p], W) ELSE <<>>]
           there == {x \in DOMAIN item : \E p \in T!Parents : x \in T!Range(left[p])}
           it == [iid \in there |-> item[iid]]
<1>1. T!Prune(q).kids = left /\ T!Prune(q).item = it /\ T!Prune(q).memo = memo BY DEF T!Prune
<1>2. \A p \in T!Parents : left[p] \in Seq(T!Iid \cap W) /\ left[p] \in Seq(T!Iid)
  <2> SUFFICES ASSUME NEW p \in T!Parents PROVE left[p] \in Seq(T!Iid \cap W) /\ left[p] \in Seq(T!Iid)
    OBVIOUS
  <2>1. kids[p] \in Seq(T!Iid) BY DEF Widget
  <2> HIDE DEF W
  <2>2. T!Only(kids[p], W) \in Seq(T!Iid \cap W) /\ T!Only(kids[p], W) \in Seq(T!Iid) BY <2>1, OnlyType
  <2>3. <<>> \in Seq(T!Iid \cap W) /\ <<>> \in Seq(T!Iid) BY EmptySeq
  <2>4. left[p] = T!Only(kids[p], W) \/ left[p] = <<>> BY Zenon
  <2> QED BY <2>2, <2>3, <2>4
<1>3. DOMAIN left = T!Parents OBVIOUS
<1> HIDE DEF left, W
<1>4. there \subseteq DOMAIN item /\ there \subseteq W
  <2>1. ASSUME NEW p \in T!Parents, NEW x \in T!Range(left[p]) PROVE x \in W
    <3>1. DOMAIN left[p] = 1..Len(left[p]) /\ \A k \in 1..Len(left[p]) : left[p][k] \in T!Iid \cap W
      BY <1>2, LenProperties, ElementOfSeq
    <3> QED BY <3>1 DEF T!Range
  <2> QED BY <2>1
<1> HIDE DEF there
<1>5. it = [iid \in DOMAIN it |-> it[iid]] /\ DOMAIN it = there /\ \A iid \in there : it[iid] = item[iid] OBVIOUS
<1> HIDE DEF it
<1>6. Widget(left, it, memo)
  <2>1. DOMAIN it \subseteq T!Iid BY <1>4, <1>5 DEF Widget
  <2>2. DOMAIN memo = T!Iid BY DEF Widget
  <2>3. \A iid \in DOMAIN it : memo[iid] = it[iid] BY <1>4, <1>5 DEF Widget
  <2> QED BY <1>2, <1>3, <1>5, <2>1, <2>2, <2>3 DEF Widget
<1> QED BY <1>1, <1>2, <1>4, <1>5, <1>6 DEF W

\* What the widget has become with the first k rows, of what was left: they
\* stand first, in their order, and show what they are to show.
Placed(t, left, q, k) ==
    /\ Widget(t.kids, t.item, t.memo)
    /\ \A p \in T!Parents :
          t.kids[p] = T!Only(First(q, k), T!Children(q, p)) \o T!Only(left.kids[p], T!Iid \ Had(q, k))
    /\ DOMAIN t.item = DOMAIN left.item \cup Had(q, k)
    /\ \A j \in 1..k : t.item[q[j].iid] = q[j].shows

\* Before the first row, the widget is what was left.
LEMMA PlacedNone ==
    ASSUME NEW q, Showable(q), NEW left, Widget(left.kids, left.item, left.memo)
    PROVE  Placed(left, left, q, 0)
<1>1. First(q, 0) = <<>> /\ Had(q, 0) = {} BY FirstEnds
<1>2. ASSUME NEW p \in T!Parents
      PROVE  left.kids[p] = T!Only(First(q, 0), T!Children(q, p)) \o T!Only(left.kids[p], T!Iid \ Had(q, 0))
  <2> DEFINE l == left.kids[p]
  <2>1. l \in Seq(T!Iid) BY DEF Widget
  <2>2. T!Only(First(q, 0), T!Children(q, p)) = <<>> BY <1>1, OnlyEmpty
  <2>3. T!Iid \ Had(q, 0) = T!Iid BY <1>1
  <2> HIDE DEF l
  <2>4. T!Only(l, T!Iid) = l BY <2>1, OnlyAll
  <2>5. <<>> \o l = l BY <2>1, ConcatEmptySeq
  <2> QED BY <2>2, <2>3, <2>4, <2>5 DEF l
<1>3. DOMAIN left.item = DOMAIN left.item \cup Had(q, 0) BY <1>1
<1>4. \A j \in 1..0 : left.item[q[j].iid] = q[j].shows OBVIOUS
<1> QED BY <1>2, <1>3, <1>4 DEF Placed

\* The k-th row is moved, or inserted, to its place.
LEMMA PutPlaces ==
    ASSUME NEW q, Showable(q), NEW k \in 1..Len(q), NEW left, Widget(left.kids, left.item, left.memo),
           NEW t, Placed(t, left, q, k - 1), NEW p \in T!Parents
    PROVE  /\ DOMAIN T!Put(t, q[k], T!Index(q, k)) = T!Parents
           /\ T!Put(t, q[k], T!Index(q, k))[p] =
                 T!Only(First(q, k), T!Children(q, p)) \o T!Only(left.kids[p], T!Iid \ Had(q, k))
           /\ T!Put(t, q[k], T!Index(q, k))[p] \in Seq(T!Iid)
<1> DEFINE x == q[k].iid
           C == T!Children(q, p)
           H == Had(q, k - 1)
           f == First(q, k - 1)
           l == left.kids[p]
           u == T!Only(f, C)
           v == T!Only(l, T!Iid \ H)
           w == T!Only(l, T!Iid \ Had(q, k))
           without == [pp \in T!Parents |-> T!Only(t.kids[pp], T!Iid \ {x})]
           put == T!Put(t, q[k], T!Index(q, k))
<1>1. /\ First(q, k) = Append(f, x) /\ f \in Seq(H) /\ f \in Seq(T!Iid)
      /\ Had(q, k) = H \cup {x} /\ x \notin H /\ H \subseteq T!Iid /\ x \in T!Iid
  BY FirstNext DEF Showable
<1>2. l \in Seq(T!Iid) BY DEF Widget
<1>3. t.kids[p] = u \o v BY DEF Placed
<1>4. x \in C <=> q[k].parent = p BY ChildrenOf
<1>5. put = [without EXCEPT ![q[k].parent] = T!InsertAt(without[q[k].parent], T!Index(q, k) + 1, x)]
  BY DEF T!Put
<1>6. DOMAIN put = T!Parents BY <1>5
<1>7. T!Only(First(q, k), C) = IF x \in C THEN Append(u, x) ELSE u
  <2> HIDE DEF x, C, f
  <2>1. T!Only(Append(f, x), C) = IF x \in C THEN Append(u, x) ELSE u BY <1>1, OnlyAppend
  <2> QED BY <1>1, <2>1
<1>8. u \in Seq(T!Iid) /\ u \in Seq(H) /\ v \in Seq(T!Iid) /\ w \in Seq(T!Iid)
  <2> HIDE DEF C, f, H, l
  <2> QED BY <1>1, <1>2, OnlyType
<1>9. without[p] = u \o w
  <2>1. without[p] = T!Only(u \o v, T!Iid \ {x}) BY <1>3
  <2>2. T!Only(u \o v, T!Iid \ {x}) = T!Only(u, T!Iid \ {x}) \o T!Only(v, T!Iid \ {x})
    <3> HIDE DEF u, v, x
    <3> QED BY <1>8, OnlyConcat
  <2>3. T!Only(u, T!Iid \ {x}) = u
    <3> HIDE DEF u, H, x
    <3>1. H \subseteq T!Iid \ {x} BY <1>1
    <3> QED BY <1>8, <3>1, OnlyAll
  <2>4. T!Only(v, T!Iid \ {x}) = w
    <3> HIDE DEF l, H, x
    <3>1. T!Only(v, T!Iid \ {x}) = T!Only(l, (T!Iid \ H) \cap (T!Iid \ {x})) BY <1>2, OnlyOnly
    <3>2. (T!Iid \ H) \cap (T!Iid \ {x}) = T!Iid \ Had(q, k) BY <1>1
    <3> QED BY <3>1, <3>2
  <2> QED BY <2>1, <2>2, <2>3, <2>4
<1>10. q[k].parent = p => T!Index(q, k) = Len(u) BY IndexIsLength
<1> DEFINE n == T!Index(q, k)
<1> HIDE DEF x, C, u, v, w, without, put, n
<1>11. q[k].parent = p => put[p] = Append(u, x) \o w
  <2> SUFFICES ASSUME q[k].parent = p PROVE put[p] = Append(u, x) \o w OBVIOUS
  <2>1. put[p] = T!InsertAt(u \o w, Len(u) + 1, x)
    <3>1. DOMAIN without = T!Parents BY DEF without
    <3>2. put = [without EXCEPT ![p] = T!InsertAt(without[p], n + 1, x)] BY <1>5 DEF n
    <3>3. put[p] = T!InsertAt(without[p], n + 1, x) BY <3>1, <3>2
    <3> QED BY <1>9, <1>10, <3>3 DEF n
  <2> QED BY <1>1, <1>8, <2>1, InsertBetween
<1>12. q[k].parent # p => put[p] = u \o w BY <1>5, <1>9 DEF without
<1>13. put[p] = T!Only(First(q, k), C) \o w BY <1>4, <1>7, <1>11, <1>12
<1>14. put[p] \in Seq(T!Iid)
  <2>1. T!Only(First(q, k), C) \in Seq(T!Iid)
    <3>1. Append(u, x) \in Seq(T!Iid) BY <1>1, <1>8, AppendProperties
    <3> QED BY <1>7, <1>8, <3>1
  <2> QED BY <1>8, <1>13, <2>1, ConcatProperties
<1> QED BY <1>6, <1>13, <1>14 DEF C, w, put

\* The k-th row comes to show what it is to show.
LEMMA PlacedNext ==
    ASSUME NEW q, Showable(q), NEW k \in 1..Len(q), NEW left, Widget(left.kids, left.item, left.memo),
           NEW t, Placed(t, left, q, k - 1)
    PROVE  Placed(T!Place(t, q, k), left, q, k)
<1> DEFINE x == q[k].iid
           r == T!Place(t, q, k)
           shows == q[k].shows
           D == DOMAIN t.item \cup {x}
<1>1. /\ r.kids = T!Put(t, q[k], T!Index(q, k))
      /\ r.item = [iid \in D |-> IF iid = x THEN T!Write(t, q[k]) ELSE t.item[iid]]
      /\ r.memo = [t.memo EXCEPT ![x] = shows]
  BY DEF T!Place
<1>2. Widget(t.kids, t.item, t.memo) /\ DOMAIN t.item = DOMAIN left.item \cup Had(q, k - 1)
      /\ \A j \in 1..(k - 1) : t.item[q[j].iid] = q[j].shows
  BY DEF Placed
<1>3. x \in T!Iid /\ x \notin Had(q, k - 1) /\ Had(q, k) = Had(q, k - 1) \cup {x} BY FirstNext DEF Showable
<1>4. T!Write(t, q[k]) = shows BY <1>2 DEF T!Write, Widget
<1> HIDE DEF r, x, shows, D
<1>5. DOMAIN r.item = D /\ r.item = [iid \in DOMAIN r.item |-> r.item[iid]]
      /\ r.item[x] = shows /\ \A iid \in DOMAIN t.item : iid # x => r.item[iid] = t.item[iid]
  <2> DEFINE it == [iid \in D |-> IF iid = x THEN T!Write(t, q[k]) ELSE t.item[iid]]
  <2>1. it = [iid \in DOMAIN it |-> it[iid]] /\ DOMAIN it = D OBVIOUS
  <2>2. it[x] = shows BY <1>4 DEF D
  <2>3. \A iid \in DOMAIN t.item : iid # x => it[iid] = t.item[iid] BY DEF D
  <2> HIDE DEF it
  <2>4. r.item = it BY <1>1 DEF it
  <2> QED BY <2>1, <2>2, <2>3, <2>4
<1>6. DOMAIN r.memo = T!Iid /\ r.memo[x] = shows /\ \A iid \in T!Iid : iid # x => r.memo[iid] = t.memo[iid]
  BY <1>1, <1>2, <1>3 DEF Widget
<1>7. D \subseteq T!Iid BY <1>2, <1>3 DEF Widget, D
<1>8. \A iid \in D : r.memo[iid] = r.item[iid]
  <2> SUFFICES ASSUME NEW iid \in D PROVE r.memo[iid] = r.item[iid] OBVIOUS
  <2>1. CASE iid = x BY <1>5, <1>6, <2>1
  <2>2. CASE iid # x
    <3>1. iid \in DOMAIN t.item /\ iid \in T!Iid BY <1>7, <2>2 DEF D
    <3>2. t.memo[iid] = t.item[iid] BY <1>2, <3>1 DEF Widget
    <3> QED BY <1>5, <1>6, <2>2, <3>1, <3>2
  <2> QED BY <2>1, <2>2
<1>9. DOMAIN r.kids = T!Parents /\ \A p \in T!Parents :
         /\ r.kids[p] \in Seq(T!Iid)
         /\ r.kids[p] = T!Only(First(q, k), T!Children(q, p)) \o T!Only(left.kids[p], T!Iid \ Had(q, k))
  <2>1. \A p \in T!Parents :
           /\ DOMAIN T!Put(t, q[k], T!Index(q, k)) = T!Parents
           /\ T!Put(t, q[k], T!Index(q, k))[p] =
                 T!Only(First(q, k), T!Children(q, p)) \o T!Only(left.kids[p], T!Iid \ Had(q, k))
           /\ T!Put(t, q[k], T!Index(q, k))[p] \in Seq(T!Iid)
    BY PutPlaces
  <2>2. None \in T!Parents BY DEF T!Parents
  <2>3. DOMAIN T!Put(t, q[k], T!Index(q, k)) = T!Parents BY <2>1, <2>2
  <2> QED BY <1>1, <2>1, <2>3
<1>10. Widget(r.kids, r.item, r.memo) BY <1>5, <1>6, <1>7, <1>8, <1>9 DEF Widget
<1>11. DOMAIN r.item = DOMAIN left.item \cup Had(q, k) BY <1>2, <1>3, <1>5 DEF D
<1>12. ASSUME NEW j \in 1..k PROVE r.item[q[j].iid] = q[j].shows
  <2>1. CASE j = k BY <1>5, <2>1 DEF x, shows
  <2>2. CASE j # k
    <3>1. j \in 1..(k - 1) BY <2>2
    <3>2. q[j].iid \in Had(q, k - 1) BY <3>1 DEF Had
    <3> QED BY <1>2, <1>3, <1>5, <3>1, <3>2
  <2> QED BY <2>1, <2>2
<1> QED BY <1>9, <1>10, <1>11, <1>12 DEF Placed, r


\* g[k] is the widget with the first k rows.
Fills(g, left, q, n) ==
    /\ g = [k \in 0..n |-> g[k]] /\ g[0] = left
    /\ \A k \in 1..n : g[k] = T!Place(g[k - 1], q, k)

\* Such a function exists.
LEMMA TreesExist ==
    ASSUME NEW left, NEW q, NEW n \in Nat PROVE \E g : Fills(g, left, q, n)
<1> DEFINE N == {m \in Nat : \E g : Fills(g, left, q, m)}
<1>1. 0 \in N
  <2>1. Fills([k \in 0..0 |-> left], left, q, 0) BY DEF Fills
  <2> QED BY <2>1
<1>2. ASSUME NEW m \in N PROVE m + 1 \in N
  <2>1. PICK g : Fills(g, left, q, m) OBVIOUS
  <2> DEFINE h == [k \in 0..(m + 1) |-> IF k = m + 1 THEN T!Place(g[m], q, m + 1) ELSE g[k]]
  <2>2. h[0] = left /\ h = [k \in 0..(m + 1) |-> h[k]] BY <2>1 DEF Fills
  <2>3. ASSUME NEW k \in 1..(m + 1) PROVE h[k] = T!Place(h[k - 1], q, k)
    <3>1. h[k - 1] = g[k - 1] OBVIOUS
    <3>2. CASE k = m + 1
      <4>1. k - 1 = m /\ h[k] = T!Place(g[m], q, m + 1) BY <3>2
      <4> QED BY <3>1, <3>2, <4>1
    <3>3. CASE k # m + 1
      <4>1. h[k] = g[k] /\ k \in 1..m BY <3>3
      <4>2. g[k] = T!Place(g[k - 1], q, k) BY <2>1, <4>1 DEF Fills
      <4> QED BY <3>1, <4>1, <4>2
    <3> QED BY <3>2, <3>3
  <2> HIDE DEF h
  <2>4. Fills(h, left, q, m + 1) BY <2>2, <2>3 DEF Fills
  <2> QED BY <2>4
<1>3. N = Nat
  <2>1. N \in SUBSET Nat OBVIOUS
  <2> HIDE DEF N
  <2> QED BY <1>1, <1>2, <2>1, Induct
<1> QED BY <1>3

\* What SyncTree gives is the last value of one.
LEMMA TreeIsFilled ==
    ASSUME NEW q, Len(q) \in Nat
    PROVE  \E g : Fills(g, T!Prune(q), q, Len(q)) /\ T!SyncTree(q) = g[Len(q)]
<1> DEFINE left == T!Prune(q)
           Body(g) == [k \in 0..Len(q) |-> IF k = 0 THEN left ELSE T!Place(g[k - 1], q, k)]
           f == CHOOSE g : g = Body(g)
<1>1. PICK h : Fills(h, left, q, Len(q)) BY TreesExist
<1>2. h = Body(h)
  <2> HIDE DEF left
  <2>1. h[0] = left /\ \A k \in 1..Len(q) : h[k] = T!Place(h[k - 1], q, k) BY <1>1 DEF Fills
  <2>2. \A k \in 0..Len(q) : Body(h)[k] = h[k] BY <2>1
  <2> QED BY <1>1, <2>2 DEF Fills
<1>3. f = Body(f) BY <1>2
<1>4. T!SyncTree(q) = f[Len(q)] BY DEF T!SyncTree
<1>5. Fills(f, left, q, Len(q))
  <2>1. ASSUME NEW g, g = Body(g) PROVE Fills(g, left, q, Len(q))
    <3> HIDE DEF left
    <3>1. DOMAIN g = 0..Len(q) /\ g[0] = left BY <2>1
    <3>2. ASSUME NEW k \in 1..Len(q) PROVE g[k] = T!Place(g[k - 1], q, k)
      <4> DEFINE B == Body(g)
      <4>1. g[k] = B[k] BY <2>1, Zenon
      <4>2. k \in 0..Len(q) /\ k # 0 OBVIOUS
      <4>3. B[k] = T!Place(g[k - 1], q, k) BY <4>2
      <4> QED BY <4>1, <4>3, Zenon
    <3>3. g = [k \in 0..Len(q) |-> g[k]] BY <2>1
    <3> QED BY <3>1, <3>2, <3>3 DEF Fills
  <2> HIDE DEF f, left
  <2> QED BY <1>3, <2>1
<1> QED BY <1>4, <1>5

\* A name finds its row.
LEMMA RowOfNamed ==
    ASSUME NEW q, Showable(q), NEW j \in 1..Len(q)
    PROVE  T!RowOf(q, q[j].iid) = q[j]
<1> DEFINE k == CHOOSE i \in DOMAIN q : q[i].iid = q[j].iid
<1>1. k \in DOMAIN q /\ q[k].iid = q[j].iid
  <2>1. j \in DOMAIN q BY DEF Showable
  <2>2. \E i \in DOMAIN q : q[i].iid = q[j].iid BY <2>1
  <2> QED BY <2>2, Zenon
<1>2. T!RowOf(q, q[j].iid) = q[k] BY DEF T!RowOf
<1> HIDE DEF k
<1>3. k = j BY <1>1 DEF Showable, OneEach
<1> QED BY <1>2, <1>3

\* The widget that has been synchronised with rows shows them.
Shows(ki, it, q) ==
    /\ \A p \in T!Parents : ki[p] = T!Only(T!Names(q), T!Children(q, p))
    /\ it = [iid \in T!Wanted(q) |-> T!RowOf(q, iid).shows]

\* The rows are shown, each in its place, with what it is to say: the next row is
\* inserted behind those before it, and nothing is left behind the last.
LEMMA SyncShows ==
    ASSUME NEW q, Showable(q), Widget(kids, item, memo)
    PROVE  /\ Widget(T!SyncTree(q).kids, T!SyncTree(q).item, T!SyncTree(q).memo)
           /\ Shows(T!SyncTree(q).kids, T!SyncTree(q).item, q)
<1> DEFINE left == T!Prune(q)
           n == Len(q)
           t == T!SyncTree(q)
<1>1. n \in Nat BY DEF Showable
<1>2. PICK g : Fills(g, left, q, n) /\ t = g[n] BY <1>1, TreeIsFilled
<1>3. /\ Widget(left.kids, left.item, left.memo) /\ DOMAIN left.item \subseteq T!Wanted(q)
      /\ \A p \in T!Parents : left.kids[p] \in Seq(T!Iid \cap T!Wanted(q))
  BY PruneLeaves
<1> HIDE DEF left, t, n
<1> DEFINE N == {k \in Nat : k <= n => Placed(g[k], left, q, k)}
<1>4. 0 \in N
  <2>1. Placed(left, left, q, 0) BY <1>3, PlacedNone
  <2> QED BY <1>2, <2>1 DEF Fills
<1>5. ASSUME NEW k \in N PROVE k + 1 \in N
  <2> SUFFICES ASSUME k + 1 <= n PROVE Placed(g[k + 1], left, q, k + 1) OBVIOUS
  <2>1. k + 1 \in 1..n /\ (k + 1) - 1 = k BY <1>1
  <2> DEFINE o == g[k]
  <2>2. g[k + 1] = T!Place(o, q, k + 1) BY <1>2, <2>1 DEF Fills
  <2>3. Placed(o, left, q, (k + 1) - 1) BY <1>1, <2>1
  <2> HIDE DEF o
  <2>4. Placed(T!Place(o, q, k + 1), left, q, k + 1) BY <1>3, <2>1, <2>3, PlacedNext DEF n
  <2> QED BY <2>2, <2>4
<1>6. N = Nat
  <2>1. N \in SUBSET Nat OBVIOUS
  <2> HIDE DEF N
  <2> QED BY <1>4, <1>5, <2>1, Induct
<1>7. Placed(t, left, q, n) BY <1>1, <1>2, <1>6
<1>8. First(q, n) = T!Names(q) /\ Had(q, n) = T!Wanted(q) BY FirstEnds DEF n
<1>9. Widget(t.kids, t.item, t.memo) BY <1>7 DEF Placed
<1>10. ASSUME NEW p \in T!Parents PROVE t.kids[p] = T!Only(T!Names(q), T!Children(q, p))
  <2> DEFINE u == T!Only(T!Names(q), T!Children(q, p))
             l == left.kids[p]
  <2>1. t.kids[p] = u \o T!Only(l, T!Iid \ T!Wanted(q)) BY <1>7, <1>8 DEF Placed
  <2>2. l \in Seq(T!Iid \cap T!Wanted(q)) BY <1>3
  <2> HIDE DEF l
  <2>3. T!Only(l, T!Iid \ T!Wanted(q)) = <<>> BY <2>2, OnlyNone
  <2>4. u \in Seq(T!Iid)
    <3>1. T!Names(q) \in Seq(T!Iid)
      <4>1. T!Names(q) \in [1..n -> T!Iid] BY DEF T!Names, Showable, n
      <4> QED BY <1>1, <4>1
    <3> QED BY <3>1, OnlyType
  <2> HIDE DEF u
  <2>5. u \o <<>> = u BY <2>4, ConcatEmptySeq
  <2> QED BY <2>1, <2>3, <2>5 DEF u
<1>11. t.item = [iid \in T!Wanted(q) |-> T!RowOf(q, iid).shows]
  <2>1. DOMAIN t.item = T!Wanted(q) BY <1>3, <1>7, <1>8 DEF Placed
  <2>2. t.item = [iid \in DOMAIN t.item |-> t.item[iid]] BY <1>9 DEF Widget
  <2>3. ASSUME NEW iid \in T!Wanted(q) PROVE t.item[iid] = T!RowOf(q, iid).shows
    <3>1. PICK j \in 1..n : iid = q[j].iid BY DEF T!Wanted, Showable, n
    <3>2. T!RowOf(q, iid) = q[j] BY <3>1, RowOfNamed DEF n
    <3> QED BY <1>7, <3>1, <3>2 DEF Placed
  <2> DEFINE it == t.item
  <2> HIDE DEF it
  <2>4. it = [iid \in DOMAIN it |-> it[iid]] BY <2>2 DEF it
  <2> QED BY <2>1, <2>3, <2>4 DEF it
<1> QED BY <1>9, <1>10, <1>11 DEF Shows, t


-----------------------------------------------------------------------------
(* The table is true *)

\* The snapshots the table can be of.
Known == World \cup {T!Nothing}

\* Every snapshot, the empty one too, is one that can be taken.
LEMMA KnownIsReal ==
    \A s \in Known : T!Snapshot(s)
<1>1. T!Snapshot(T!Nothing) BY EmptySeq DEF T!Snapshot, T!Nothing
<1>2. \A s \in World : T!Snapshot(s) BY WorldIsReal
<1> QED BY <1>1, <1>2 DEF Known

\* Two rows of the same name, of any snapshots, stand under the same one.
LEMMA RowStays ==
    ASSUME NEW s \in Known, NEW t \in Known, NEW known, NEW later,
           NEW q \in Row(s, known), NEW r \in Row(t, later), q.iid = r.iid
    PROVE  q.parent = r.parent
<1>1. CASE \E i \in T!Iface : q = T!RowOfIface(s, i, known)
  <2>1. PICK i \in T!Iface : q = T!RowOfIface(s, i, known) BY <1>1
  <2>2. r.iid = T!IfaceRow(i) /\ q.parent = None BY <2>1, IfaceFields
  <2>3. \A k : T!RowOfBinding(t, t.bindings[k]).iid # T!IfaceRow(i) BY BindFields, NamesApart
  <2>4. \A k : T!RowOfAdoption(t, t.adoptions[k]).iid # T!IfaceRow(i) BY AdoptFields, NamesApart
  <2>5. PICK j \in T!Iface : r = T!RowOfIface(t, j, later) BY <2>2, <2>3, <2>4, Zenon DEF Row
  <2>6. r.parent = None BY <2>5, IfaceFields
  <2> QED BY <2>2, <2>6
<1>2. CASE \E k \in DOMAIN s.bindings : q = T!RowOfBinding(s, s.bindings[k])
  <2>1. PICK k \in DOMAIN s.bindings : q = T!RowOfBinding(s, s.bindings[k]) BY <1>2
  <2> DEFINE c == s.bindings[k]
  <2>2. r.iid = T!BindRow(c) /\ q.parent = T!IfaceRow(c.iface) BY <2>1, BindFields
  <2>3. \A i : T!RowOfIface(t, i, later).iid # T!BindRow(c) BY IfaceFields, NamesApart
  <2>4. \A j : T!RowOfAdoption(t, t.adoptions[j]).iid # T!BindRow(c) BY AdoptFields, NamesApart
  <2>5. PICK j \in DOMAIN t.bindings : r = T!RowOfBinding(t, t.bindings[j]) BY <2>2, <2>3, <2>4, Zenon DEF Row
  <2> DEFINE d == t.bindings[j]
  <2>6. r.iid = T!BindRow(d) /\ r.parent = T!IfaceRow(d.iface) BY <2>5, BindFields
  <2>7. c.iface = d.iface BY <2>2, <2>6, NamesApart
  <2> QED BY <2>2, <2>6, <2>7
<1>3. CASE \E k \in DOMAIN s.adoptions : q = T!RowOfAdoption(s, s.adoptions[k])
  <2>1. PICK k \in DOMAIN s.adoptions : q = T!RowOfAdoption(s, s.adoptions[k]) BY <1>3
  <2> DEFINE c == s.adoptions[k]
  <2>2. r.iid = T!AdoptRow(c.id) /\ q.parent = T!IfaceRow(c.iface) BY <2>1, AdoptFields
  <2>3. \A i : T!RowOfIface(t, i, later).iid # T!AdoptRow(c.id) BY IfaceFields, NamesApart
  <2>4. \A j : T!RowOfBinding(t, t.bindings[j]).iid # T!AdoptRow(c.id) BY BindFields, NamesApart
  <2>5. PICK j \in DOMAIN t.adoptions : r = T!RowOfAdoption(t, t.adoptions[j]) BY <2>2, <2>3, <2>4, Zenon DEF Row
  <2> DEFINE d == t.adoptions[j]
  <2>6. r.iid = T!AdoptRow(d.id) /\ r.parent = T!IfaceRow(d.iface) BY <2>5, AdoptFields
  <2>7. c.id = d.id BY <2>2, <2>6, NamesApart
  <2>8. s \in World /\ t \in World
    <3>1. DOMAIN T!Nothing.adoptions = {} BY DEF T!Nothing
    <3> QED BY <2>1, <2>5, <3>1 DEF Known
  <2>9. c = d BY <2>1, <2>5, <2>7, <2>8, WorldIsReal
  <2> QED BY <2>2, <2>6, <2>9
<1> QED BY <1>1, <1>2, <1>3, Zenon DEF Row

\* The table is of a snapshot and of the addresses known; what the widget holds
\* is what it shows; the selection and the buttons are of a row that is there.
TableInv ==
    /\ snap \in Known /\ rows = T!ActiveRows(snap, ips) /\ ips \subseteq T!Bound(snap)
    /\ Widget(kids, item, memo) /\ Shows(kids, item, rows)
    /\ row \in T!Wanted(rows) \cup {None}
    /\ actions = T!Shown(rows, row) /\ enabled = T!Pressable(rows, row, locked, snap)
    /\ locked \in BOOLEAN /\ field \in T!Iface \cup {None}

\* After a rendering the table is of the snapshot it was made of.
LEMMA RenderShows ==
    ASSUME Widget(kids, item, memo), NEW s \in Known, NEW known, NEW working, T!Render(s, known, working)
    PROVE  /\ rows' = T!ActiveRows(s, ips') /\ ips' = known \cap T!Bound(s)
           /\ Widget(kids', item', memo') /\ Shows(kids', item', rows')
           /\ row' \in T!Wanted(rows') \cup {None}
           /\ actions' = T!Shown(rows', row') /\ enabled' = T!Pressable(rows', row', working, s)
           /\ row' = IF row \in DOMAIN T!Prune(rows').item THEN row ELSE None
<1> DEFINE kept == T!Kept(s, known)
           new == T!ActiveRows(s, kept)
           tree == T!SyncTree(new)
<1>1. /\ rows' = new /\ ips' = kept
      /\ kids' = tree.kids /\ item' = tree.item /\ memo' = tree.memo
      /\ row' = IF row \in DOMAIN T!Prune(new).item THEN row ELSE None
      /\ T!UpdateButtons(new, row', working, s)
  BY Zenon DEF T!Render
<1>2. Showable(new) BY KnownIsReal, ActiveRowsShowable
<1> HIDE DEF new
<1>3. Widget(tree.kids, tree.item, tree.memo) /\ Shows(tree.kids, tree.item, new) BY <1>2, SyncShows
<1>4. DOMAIN T!Prune(new).item \subseteq T!Wanted(new) BY PruneLeaves
<1> HIDE DEF tree
<1>5. ips' = known \cap T!Bound(s) BY <1>1 DEF T!Kept
<1>6. rows' = T!ActiveRows(s, ips') BY <1>1 DEF new
<1>7. actions' = T!Shown(rows', row') /\ enabled' = T!Pressable(rows', row', working, s)
  BY <1>1 DEF T!UpdateButtons
<1> QED BY <1>1, <1>3, <1>4, <1>5, <1>6, <1>7


\* The empty table.
LEMMA TableInit ==
    ASSUME T!Init PROVE TableInv
<1> DEFINE n == T!Nothing
<1>1. /\ snap = n /\ rows = <<>> /\ kids = [p \in T!Parents |-> <<>>] /\ item = [iid \in {} |-> None]
      /\ memo = [iid \in T!Iid |-> None] /\ row = None /\ actions = {} /\ enabled = {}
      /\ locked = FALSE /\ field = None /\ ips = {}
  BY DEF T!Init
<1>2. T!Bound(n) = {} BY DEF T!Bound, T!Nothing
<1>3. T!ActiveRows(n, {}) = <<>>
  <2>1. PICK g : Collects(g, n, {}, Ifaces) /\ T!ActiveRows(n, {}) = g[Ifaces] BY RowsAreCollected
  <2> HIDE DEF n
  <2> DEFINE N == {i \in Nat : i <= Ifaces => g[i] = <<>>}
  <2>n. Ifaces \in Nat BY IfacesAreNumbered
  <2>2. 0 \in N BY <2>1 DEF Collects
  <2>3. ASSUME NEW i \in N PROVE i + 1 \in N
    <3> SUFFICES ASSUME i + 1 <= Ifaces PROVE g[i + 1] = <<>> OBVIOUS
    <3>1. i + 1 \in 1..Ifaces /\ (i + 1) - 1 = i /\ g[i] = <<>> BY <2>n
    <3> QED BY <1>2, <2>1, <3>1 DEF Collects, RowsNext
  <2>4. N = Nat
    <3>1. N \in SUBSET Nat OBVIOUS
    <3> HIDE DEF N
    <3> QED BY <2>2, <2>3, <3>1, Induct
  <2> QED BY <2>1, <2>4, <2>n
<1>4. T!Wanted(<<>>) = {} /\ T!Names(<<>>) = <<>> BY DEF T!Wanted, T!Names
<1>5. Widget(kids, item, memo)
  <2>1. \A p \in T!Parents : kids[p] \in Seq(T!Iid) BY <1>1, EmptySeq
  <2> QED BY <1>1, <2>1 DEF Widget
<1>6. Shows(kids, item, <<>>)
  <2>1. \A p \in T!Parents : T!Only(<<>>, T!Children(<<>>, p)) = <<>> BY OnlyEmpty
  <2>2. \A p \in T!Parents : kids[p] = T!Only(T!Names(<<>>), T!Children(<<>>, p)) BY <1>1, <1>4, <2>1
  <2>3. item = [iid \in T!Wanted(<<>>) |-> T!RowOf(<<>>, iid).shows] BY <1>1, <1>4
  <2> QED BY <2>2, <2>3 DEF Shows
<1>7. T!Shown(<<>>, None) = {} /\ T!Pressable(<<>>, None, FALSE, n) = {} BY <1>4 DEF T!Shown, T!Pressable
<1>8. ips \subseteq T!Bound(snap) BY <1>1, <1>2
<1>9. rows = T!ActiveRows(snap, ips) BY <1>1, <1>3
<1>10. snap \in Known BY <1>1 DEF Known
<1>11. row \in T!Wanted(rows) \cup {None} /\ locked \in BOOLEAN /\ field \in T!Iface \cup {None} BY <1>1
<1>12. actions = T!Shown(rows, row) BY <1>1, <1>7
<1>13. enabled = T!Pressable(rows, row, locked, snap) BY <1>1, <1>7
<1>14. Shows(kids, item, rows) BY <1>1, <1>6
<1> QED BY <1>5, <1>8, <1>9, <1>10, <1>11, <1>12, <1>13, <1>14 DEF TableInv

\* A new snapshot arrives.
LEMMA RefreshKeeps ==
    ASSUME TableInv, NEW s \in World, T!Refresh(s) PROVE TableInv'
<1>1. snap' = s /\ field' = T!Chosen(s) /\ locked' = locked /\ T!Render(s, ips, locked) BY DEF T!Refresh
<1>2. s \in Known BY DEF Known
<1>3. PICK known, working : known = ips /\ working = locked BY Zenon
<1>4. T!Render(s, known, working) BY <1>1, <1>3
<1>5. Widget(kids, item, memo) BY DEF TableInv
<1>6. /\ rows' = T!ActiveRows(s, ips') /\ ips' = known \cap T!Bound(s)
      /\ Widget(kids', item', memo') /\ Shows(kids', item', rows')
      /\ row' \in T!Wanted(rows') \cup {None}
      /\ actions' = T!Shown(rows', row') /\ enabled' = T!Pressable(rows', row', working, s)
  BY <1>2, <1>4, <1>5, RenderShows
<1>7. field' \in T!Iface \cup {None}
  <2>1. T!Snapshot(s) BY <1>2, KnownIsReal
  <2>2. s.usable \subseteq T!Iface BY <2>1 DEF T!Snapshot
  <2>3. T!Chosen(s) \in s.usable \cup {None} BY DEF T!Chosen
  <2> QED BY <1>1, <2>2, <2>3
<1>8. locked' \in BOOLEAN /\ locked' = working BY <1>1, <1>3 DEF TableInv
<1>9. /\ (snap \in Known)' /\ (rows = T!ActiveRows(snap, ips))' /\ (ips \subseteq T!Bound(snap))'
      /\ (enabled = T!Pressable(rows, row, locked, snap))'
  BY <1>1, <1>2, <1>6, <1>8
<1> QED BY <1>6, <1>7, <1>8, <1>9 DEF TableInv

\* The table is rendered again from the same snapshot: Sample and Return.
LEMMA AgainKeeps ==
    ASSUME TableInv, NEW known, NEW working \in BOOLEAN, NEW s, snap = s, T!Render(s, known, working),
           snap' = s, field' = field, locked' = working
    PROVE  TableInv'
<1>1. s \in Known BY DEF TableInv
<1>2. Widget(kids, item, memo) BY DEF TableInv
<1>3. /\ rows' = T!ActiveRows(s, ips') /\ ips' = known \cap T!Bound(s)
      /\ Widget(kids', item', memo') /\ Shows(kids', item', rows')
      /\ row' \in T!Wanted(rows') \cup {None}
      /\ actions' = T!Shown(rows', row') /\ enabled' = T!Pressable(rows', row', working, s)
  BY <1>1, <1>2, RenderShows
<1>4. field' \in T!Iface \cup {None} BY DEF TableInv
<1>5. /\ (snap \in Known)' /\ (rows = T!ActiveRows(snap, ips))' /\ (ips \subseteq T!Bound(snap))'
      /\ (enabled = T!Pressable(rows, row, locked, snap))'
  BY <1>1, <1>3
<1> QED BY <1>3, <1>4, <1>5 DEF TableInv

\* The rates are read.
LEMMA SampleKeeps ==
    ASSUME TableInv, T!Sample PROVE TableInv'
<1>1. PICK fresh \in SUBSET ips : T!Render(snap, fresh, locked) BY DEF T!Sample
<1>2. snap' = snap /\ locked' = locked /\ field' = field BY DEF T!Sample
<1>3. PICK s, working : s = snap /\ working = locked BY Zenon
<1>4. working \in BOOLEAN BY <1>3 DEF TableInv
<1>5. T!Render(s, fresh, working) BY <1>1, <1>3
<1>6. snap = s /\ snap' = s /\ locked' = working BY <1>2, <1>3
<1> QED BY <1>2, <1>4, <1>5, <1>6, AgainKeeps

\* A request returns.
LEMMA ReturnKeeps ==
    ASSUME TableInv, NEW i \in T!Iface, NEW found \in BOOLEAN, T!Return(i, found) PROVE TableInv'
<1>1. T!Render(snap, IF found THEN ips \cup {i} ELSE ips \ {i}, FALSE) /\ snap' = snap /\ field' = field
      /\ locked' = FALSE
  BY DEF T!Return
<1>2. PICK s, known : s = snap /\ known = IF found THEN ips \cup {i} ELSE ips \ {i} BY Zenon
<1>3. T!Render(s, known, FALSE) BY <1>1, <1>2
<1>4. snap = s /\ snap' = s BY <1>1, <1>2
<1> QED BY <1>1, <1>3, <1>4, AgainKeeps

\* The user selects a row, or an interface for the form.
LEMMA SelectKeeps ==
    ASSUME TableInv, NEW iid \in T!Iid, T!Select(iid) PROVE TableInv'
<1>1. /\ iid \in DOMAIN item /\ row' = iid
      /\ actions' = T!Shown(rows, iid) /\ enabled' = T!Pressable(rows, iid, locked, snap)
      /\ UNCHANGED <<snap, rows, kids, item, memo, locked, field, ips>>
  BY DEF T!Select, T!UpdateButtons, T!widget
<1>2. row' \in T!Wanted(rows) BY <1>1 DEF TableInv, Shows
<1> QED BY <1>1, <1>2 DEF TableInv

LEMMA ChooseKeeps ==
    ASSUME TableInv, NEW i \in T!Iface, T!ChooseIface(i) PROVE TableInv'
  BY DEF T!ChooseIface, T!widget, T!buttons, TableInv

\* A button locks the others.
LEMMA PressKeeps ==
    ASSUME TableInv, T!Press PROVE TableInv'
<1>1. /\ locked' = TRUE /\ actions' = T!Shown(rows, row) /\ enabled' = T!Pressable(rows, row, TRUE, snap)
      /\ UNCHANGED <<snap, rows, kids, item, memo, row, field, ips>>
  BY DEF T!Press, T!UpdateButtons, T!widget
<1> QED BY <1>1 DEF TableInv

\* The answer to another request frees them.
LEMMA ReturnOtherKeeps ==
    ASSUME TableInv, T!ReturnOther PROVE TableInv'
<1>1. /\ locked' = FALSE /\ actions' = T!Shown(rows, row) /\ enabled' = T!Pressable(rows, row, FALSE, snap)
      /\ UNCHANGED <<snap, rows, kids, item, memo, row, field, ips>>
  BY DEF T!ReturnOther, T!UpdateButtons, T!widget
<1> QED BY <1>1 DEF TableInv

\* No step of the table or of the window breaks the invariant.
LEMMA TableStep ==
    ASSUME TableInv, [DesktopNext]_<<part, vars, table>> PROVE TableInv'
<1>1. CASE T!Next
  <2>1. CASE \E s \in World : T!Refresh(s) BY <2>1, RefreshKeeps
  <2>2. CASE T!Sample BY <2>2, SampleKeeps
  <2>3. CASE \E iid \in T!Iid : T!Select(iid) BY <2>3, SelectKeeps
  <2>4. CASE \E i \in T!Iface : T!ChooseIface(i) BY <2>4, ChooseKeeps
  <2>5. CASE T!Press BY <2>5, PressKeeps
  <2>6. CASE \E i \in T!Iface, found \in BOOLEAN : T!Return(i, found) BY <2>6, ReturnKeeps
  <2>7. CASE T!ReturnOther BY <2>7, ReturnOtherKeeps
  <2> QED BY <1>1, <2>1, <2>2, <2>3, <2>4, <2>5, <2>6, <2>7 DEF T!Next
<1>2. CASE UNCHANGED table BY <1>2 DEF table, TableInv
<1> QED BY <1>1, <1>2 DEF DesktopNext

-----------------------------------------------------------------------------
(* What it says of the properties *)

\* The buttons that can be pressed are among those shown, or in the menu.
LEMMA ButtonsOfRow ==
    ASSUME NEW r, r.kind \in {"iface", "bind", "adopt"}, NEW idle, NEW others,
           NEW e, e = T!SelectionActions(r, idle, others), NEW v, v = T!VisibleActions(r)
    PROVE  /\ e \subseteq T!AppActions \cup T!IfaceActions /\ v \subseteq T!AppActions \cup T!IfaceActions
           /\ e \ v \subseteq T!IfaceActions
           /\ e # {} => idle
           /\ {"stop", "force"} \cap e # {} => r.kind = "bind" /\ r.running
           /\ "move" \in e => others # {}
<1>1. ~idle => e = {} BY DEF T!SelectionActions
<1>2. CASE r.kind = "bind"
  <2>1. e \subseteq T!RowButtons(r.running) \cup (IF others # {} THEN {"move"} ELSE {}) \cup T!IfaceActions
    BY <1>2 DEF T!SelectionActions
  <2>2. v = T!AppActions \ {"release"} BY <1>2 DEF T!VisibleActions
  <2>3. /\ "stop" \notin T!IfaceActions /\ "force" \notin T!IfaceActions /\ "move" \notin T!IfaceActions
        /\ "release" \notin T!IfaceActions
    BY DEF T!IfaceActions
  <2>4. /\ T!RowButtons(r.running) \subseteq T!AppActions \ {"release"} /\ "move" \notin T!RowButtons(r.running)
        /\ ~r.running => "stop" \notin T!RowButtons(r.running) /\ "force" \notin T!RowButtons(r.running)
        /\ "move" \in T!AppActions \ {"release"}
    BY DEF T!RowButtons, T!AppActions
  <2>5. e \subseteq (T!AppActions \ {"release"}) \cup T!IfaceActions BY <2>1, <2>4
  <2>6. "move" \in e => others # {} BY <2>1, <2>3, <2>4
  <2>7. {"stop", "force"} \cap e # {} => r.running BY <2>1, <2>3, <2>4
  <2> QED BY <1>1, <1>2, <2>2, <2>5, <2>6, <2>7
<1>3. CASE r.kind = "adopt"
  <2>1. e \subseteq {"release"} \cup T!IfaceActions BY <1>3 DEF T!SelectionActions
  <2>2. v = {"release"} BY <1>3 DEF T!VisibleActions
  <2>3. /\ "stop" \notin T!IfaceActions /\ "force" \notin T!IfaceActions /\ "move" \notin T!IfaceActions
        /\ "release" \in T!AppActions
    BY DEF T!AppActions, T!IfaceActions
  <2>4. "move" \notin e /\ {"stop", "force"} \cap e = {} BY <2>1, <2>3
  <2> QED BY <1>1, <2>1, <2>2, <2>3, <2>4
<1>4. CASE r.kind = "iface"
  <2>1. e \subseteq {"verify"} \cup T!IfaceActions BY <1>4 DEF T!SelectionActions
  <2>2. v \subseteq {"verify"} \cup T!IfaceActions /\ "verify" \in v BY <1>4 DEF T!VisibleActions
  <2>3. /\ "stop" \notin T!IfaceActions /\ "force" \notin T!IfaceActions /\ "move" \notin T!IfaceActions
        /\ "verify" \in T!AppActions
    BY DEF T!AppActions, T!IfaceActions
  <2>4. "move" \notin e /\ {"stop", "force"} \cap e = {} BY <2>1, <2>3
  <2> QED BY <1>1, <2>1, <2>2, <2>3, <2>4
<1> QED BY <1>2, <1>3, <1>4

\* The rows of a snapshot are those that are due: none is missing, none is made up.
LEMMA WantedIsDue ==
    ASSUME NEW s, T!Snapshot(s), NEW known
    PROVE  T!Wanted(T!ActiveRows(s, known)) = T!Due(s)
<1> DEFINE q == T!ActiveRows(s, known)
<1>1. /\ q \in Seq(Row(s, known))
      /\ \A k \in 1..Len(q) : q[k].iface \in T!Bound(s)
      /\ \A r \in Row(s, known) : r.iface \in 1..Ifaces /\ r.iface \in T!Bound(s) => \E k \in 1..Len(q) : q[k] = r
  BY ActiveRowsUpTo DEF UpTo
<1> HIDE DEF q
<1>2. DOMAIN q = 1..Len(q) /\ \A k \in 1..Len(q) : q[k] \in Row(s, known) BY <1>1, LenProperties, ElementOfSeq
<1>3. ASSUME NEW r \in Row(s, known), r.iface \in T!Bound(s) PROVE r.iid \in T!Due(s)
  <2>1. CASE \E i \in T!Iface : r = T!RowOfIface(s, i, known) BY <1>3, <2>1, IfaceFields DEF T!Due
  <2>2. CASE \E j \in DOMAIN s.bindings : r = T!RowOfBinding(s, s.bindings[j]) BY <2>2, BindFields DEF T!Due
  <2>3. CASE \E j \in DOMAIN s.adoptions : r = T!RowOfAdoption(s, s.adoptions[j]) BY <2>3, AdoptFields DEF T!Due
  <2> QED BY <2>1, <2>2, <2>3, Zenon DEF Row
<1>4. T!Bound(s) \subseteq 1..Ifaces BY SnapshotOrders DEF T!Bound, T!Binding, T!Adoption, T!Iface
<1>5. ASSUME NEW r \in Row(s, known), r.iface \in T!Bound(s) PROVE r.iid \in T!Wanted(q)
  <2>1. PICK k \in 1..Len(q) : q[k] = r BY <1>1, <1>4, <1>5
  <2> QED BY <1>2, <2>1 DEF T!Wanted
<1>6. ASSUME NEW i \in T!Bound(s) PROVE T!IfaceRow(i) \in T!Wanted(q)
  <2> DEFINE r == T!RowOfIface(s, i, known)
  <2>1. r \in Row(s, known) BY <1>4, Zenon DEF Row, T!Iface
  <2>2. r.iid = T!IfaceRow(i) /\ r.iface = i BY IfaceFields
  <2> HIDE DEF r
  <2> QED BY <1>5, <2>1, <2>2
<1>7. ASSUME NEW k \in DOMAIN s.bindings PROVE T!BindRow(s.bindings[k]) \in T!Wanted(q)
  <2> DEFINE r == T!RowOfBinding(s, s.bindings[k])
  <2>1. r \in Row(s, known) BY Zenon DEF Row
  <2>2. r.iid = T!BindRow(s.bindings[k]) /\ r.iface = s.bindings[k].iface BY BindFields
  <2>3. s.bindings[k].iface \in T!Bound(s) BY DEF T!Bound
  <2> HIDE DEF r
  <2> QED BY <1>5, <2>1, <2>2, <2>3
<1>8. ASSUME NEW k \in DOMAIN s.adoptions PROVE T!AdoptRow(s.adoptions[k].id) \in T!Wanted(q)
  <2> DEFINE r == T!RowOfAdoption(s, s.adoptions[k])
  <2>1. r \in Row(s, known) BY Zenon DEF Row
  <2>2. r.iid = T!AdoptRow(s.adoptions[k].id) /\ r.iface = s.adoptions[k].iface BY AdoptFields
  <2>3. s.adoptions[k].iface \in T!Bound(s) BY DEF T!Bound
  <2> HIDE DEF r
  <2> QED BY <1>5, <2>1, <2>2, <2>3
<1>9. T!Due(s) \subseteq T!Wanted(q) BY <1>6, <1>7, <1>8 DEF T!Due
<1>10. T!Wanted(q) \subseteq T!Due(s) BY <1>1, <1>2, <1>3 DEF T!Wanted
<1> QED BY <1>9, <1>10 DEF q

\* What the invariant says of the table.
LEMMA InvShowsRows ==
    ASSUME TableInv PROVE T!TypeOK /\ T!ShowsRows /\ T!ButtonsFit /\ T!AddressOfBound
<1>1. PICK s, known, q : s = snap /\ known = ips /\ q = rows BY Zenon
<1>2. s \in Known /\ q = T!ActiveRows(s, known) BY <1>1 DEF TableInv
<1>3. T!Snapshot(s) BY <1>2, KnownIsReal
<1>4. Showable(q) BY <1>2, <1>3, ActiveRowsShowable
<1>5. q \in Seq(Row(s, known)) BY <1>2, <1>3, ActiveRowsUpTo DEF UpTo
<1>6. \A k \in 1..Len(q) : q[k] \in Row(s, known) BY <1>5, ElementOfSeq
<1>7. Widget(kids, item, memo) /\ Shows(kids, item, q) BY <1>1 DEF TableInv
<1>8. T!ShowsRows
  <2>1. \A j, k \in DOMAIN q : q[j].iid = q[k].iid => j = k BY <1>4 DEF Showable, OneEach
  <2>2. \A k \in DOMAIN q : q[k].parent \in {None} \cup T!Wanted(q)
    BY <1>4 DEF Showable, Headed, T!Wanted
  <2>3. /\ \A p \in T!Parents : kids[p] = T!Only(T!Names(q), T!Children(q, p))
        /\ item = [iid \in T!Wanted(q) |-> T!RowOf(q, iid).shows]
    BY <1>7 DEF Shows
  <2>4. T!Wanted(q) = T!Due(s) BY <1>2, <1>3, WantedIsDue
  <2> QED BY <1>1, <1>2, <2>1, <2>2, <2>3, <2>4 DEF T!ShowsRows
<1>9. T!AddressOfBound BY DEF TableInv, T!AddressOfBound
<1>10. \A r \in Row(s, known) : r.kind \in {"iface", "bind", "adopt"}
  BY IfaceFields, BindFields, AdoptFields DEF Row
<1> DEFINE r == T!RowOf(q, row)
           others == s.usable \ {r.iface}
<1>11. row \in T!Wanted(q) => r \in Row(s, known) /\ r.iid = row
  <2> SUFFICES ASSUME row \in T!Wanted(q) PROVE r \in Row(s, known) /\ r.iid = row OBVIOUS
  <2>1. PICK k \in 1..Len(q) : row = q[k].iid BY <1>4 DEF T!Wanted, Showable
  <2>2. r = q[k] BY <1>4, <2>1, RowOfNamed
  <2> QED BY <1>6, <2>1, <2>2
<1>12. /\ actions = IF row \in T!Wanted(q) THEN T!VisibleActions(r) ELSE {}
       /\ enabled = IF row \in T!Wanted(q) THEN T!SelectionActions(r, ~locked, others) ELSE {}
  BY <1>1 DEF TableInv, T!Shown, T!Pressable
<1>13. locked \in BOOLEAN BY DEF TableInv
<1> HIDE DEF r, others
<1>14. row \in T!Wanted(q) =>
          /\ enabled \subseteq T!AppActions \cup T!IfaceActions
          /\ actions \subseteq T!AppActions \cup T!IfaceActions
          /\ enabled \ actions \subseteq T!IfaceActions
          /\ enabled # {} => ~locked
          /\ {"stop", "force"} \cap enabled # {} => r.kind = "bind" /\ r.running
          /\ "move" \in enabled => others # {}
  <2> SUFFICES ASSUME row \in T!Wanted(q)
               PROVE  /\ enabled \subseteq T!AppActions \cup T!IfaceActions
                      /\ actions \subseteq T!AppActions \cup T!IfaceActions
                      /\ enabled \ actions \subseteq T!IfaceActions
                      /\ enabled # {} => ~locked
                      /\ {"stop", "force"} \cap enabled # {} => r.kind = "bind" /\ r.running
                      /\ "move" \in enabled => others # {}
    OBVIOUS
  <2>1. r.kind \in {"iface", "bind", "adopt"} BY <1>10, <1>11
  <2>2. actions = T!VisibleActions(r) /\ enabled = T!SelectionActions(r, ~locked, others) BY <1>12
  <2>3. PICK idle, e, v : e = enabled /\ v = actions /\ idle = ~locked BY Zenon
  <2>4. v = T!VisibleActions(r) /\ e = T!SelectionActions(r, idle, others) BY <2>2, <2>3, Zenon
  <2>5. /\ e \subseteq T!AppActions \cup T!IfaceActions /\ v \subseteq T!AppActions \cup T!IfaceActions
        /\ e \ v \subseteq T!IfaceActions
        /\ e # {} => idle
        /\ {"stop", "force"} \cap e # {} => r.kind = "bind" /\ r.running
        /\ "move" \in e => others # {}
    BY <2>1, <2>4, ButtonsOfRow
  <2> QED BY <2>3, <2>5, Zenon
<1>15. row \notin T!Wanted(q) => actions = {} /\ enabled = {} BY <1>12
<1>16. DOMAIN item = T!Wanted(q) BY <1>7 DEF Shows
<1>17. T!ButtonsFit
  <2>1. enabled # {} => ~locked /\ row \in DOMAIN item BY <1>14, <1>15, <1>16
  <2>2. enabled \ actions \subseteq T!IfaceActions BY <1>14, <1>15
  <2>3. ASSUME {"stop", "force"} \cap enabled # {}
        PROVE  \E k \in DOMAIN s.bindings : T!BindRow(s.bindings[k]) = row /\ T!Runs(s, s.bindings[k])
    <3>1. row \in T!Wanted(q) /\ r.kind = "bind" /\ r.running BY <1>14, <1>15, <2>3
    <3>2. \A i : T!RowOfIface(s, i, known).kind # "bind" BY IfaceFields
    <3>3. \A k : T!RowOfAdoption(s, s.adoptions[k]).kind # "bind" BY AdoptFields
    <3>4. r \in Row(s, known) /\ r.iid = row BY <1>11, <3>1
    <3>5. PICK k \in DOMAIN s.bindings : r = T!RowOfBinding(s, s.bindings[k])
      BY <3>1, <3>2, <3>3, <3>4, Zenon DEF Row
    <3>6. r.iid = T!BindRow(s.bindings[k]) /\ r.running = T!Runs(s, s.bindings[k]) BY <3>5, BindFields
    <3> QED BY <3>1, <3>4, <3>6
  <2>4. "move" \in enabled => \E i \in s.usable : i # T!RowOf(q, row).iface BY <1>14, <1>15 DEF others, r
  <2> QED BY <1>1, <2>1, <2>2, <2>3, <2>4 DEF T!ButtonsFit
<1>18. T!TypeOK
  <2>1. snap \in World \cup {T!Nothing} BY <1>1, <1>2 DEF Known
  <2>2. T!Wanted(q) \subseteq T!Iid BY <1>4 DEF T!Wanted, Showable
  <2>3. /\ DOMAIN kids = T!Parents /\ \A p \in T!Parents : kids[p] \in Seq(T!Iid)
        /\ DOMAIN item \subseteq T!Iid /\ DOMAIN memo = T!Iid
    BY <1>7 DEF Widget
  <2>4. row \in T!Iid \cup {None} BY <1>1, <2>2 DEF TableInv
  <2>5. actions \subseteq T!AppActions \cup T!IfaceActions /\ enabled \subseteq T!AppActions \cup T!IfaceActions
    BY <1>14, <1>15
  <2>6. ips \subseteq T!Iface
    <3>1. T!Bound(s) \subseteq T!Iface BY <1>3, SnapshotOrders DEF T!Bound, T!Binding, T!Adoption
    <3> QED BY <1>1, <3>1 DEF TableInv
  <2>7. locked \in BOOLEAN /\ field \in T!Iface \cup {None} BY DEF TableInv
  <2> QED BY <1>1, <2>1, <2>2, <2>3, <2>4, <2>5, <2>6, <2>7 DEF T!TypeOK
<1> QED BY <1>8, <1>9, <1>17, <1>18


\* A rendering takes the selection away only with its row.
LEMMA RenderKeepsSelection ==
    ASSUME TableInv, NEW s \in Known, NEW known, NEW working, T!Render(s, known, working), row' # row
    PROVE  row \notin T!Wanted(rows')
<1> SUFFICES ASSUME row \in T!Wanted(rows') PROVE FALSE
  OBVIOUS
<1>1. Widget(kids, item, memo) /\ rows = T!ActiveRows(snap, ips) /\ Shows(kids, item, rows)
      /\ row \in T!Wanted(rows) \cup {None}
  BY DEF TableInv
<1>2. /\ rows' = T!ActiveRows(s, ips')
      /\ row' = IF row \in DOMAIN T!Prune(rows').item THEN row ELSE None
  BY <1>1, RenderShows
<1>3. PICK sel, q, new, old, now, then :
         sel = row /\ q = rows /\ new = rows' /\ old = snap /\ now = ips /\ then = ips'
  BY Zenon
<1>4. row' = (IF sel \in DOMAIN T!Prune(new).item THEN sel ELSE None) BY <1>2, <1>3
<1>5. sel \notin DOMAIN T!Prune(new).item /\ sel # None BY <1>3, <1>4
<1>6. sel \in T!Wanted(q) /\ sel \in T!Wanted(new) BY <1>1, <1>3, <1>5
<1>7. old \in Known BY <1>3 DEF TableInv
<1>8. q = T!ActiveRows(old, now) /\ new = T!ActiveRows(s, then) BY <1>1, <1>2, <1>3
<1>9. /\ Showable(q) /\ q \in Seq(Row(old, now))
      /\ Showable(new) /\ new \in Seq(Row(s, then))
  BY <1>7, <1>8, KnownIsReal, ActiveRowsShowable, ActiveRowsUpTo DEF UpTo
<1>10. PICK j \in 1..Len(q) : q[j].iid = sel BY <1>6, <1>9 DEF T!Wanted, Showable
<1>11. PICK k \in 1..Len(new) : new[k].iid = sel BY <1>6, <1>9 DEF T!Wanted, Showable
<1> DEFINE p == q[j].parent
           W == T!Wanted(new)
           C == T!Children(q, p)
           n == T!Names(q)
           o == T!Only(n, C)
<1>12. new[k].parent = p
  <2>1. q[j] \in Row(old, now) /\ new[k] \in Row(s, then) BY <1>9, ElementOfSeq
  <2> QED BY <1>7, <1>10, <1>11, <2>1, RowStays
<1>13. p \in {None} \cup W
  <2>1. new[k].parent = None \/ \E i \in 1..Len(new) : new[i].iid = new[k].parent BY <1>9 DEF Showable, Headed
  <2> QED BY <1>9, <1>12, <2>1 DEF T!Wanted, Showable
<1>14. p \in T!Parents BY <1>9 DEF Showable
<1>15. kids[p] = o BY <1>1, <1>3, <1>14 DEF Shows
<1>16. n \in Seq(T!Iid) /\ Len(n) = Len(q) /\ n[j] = sel
  <2>1. n \in [1..Len(q) -> T!Iid] BY <1>9 DEF T!Names, Showable
  <2>2. Len(q) \in Nat BY <1>9 DEF Showable
  <2>3. n[j] = q[j].iid BY <1>9 DEF T!Names, Showable
  <2> QED BY <1>10, <2>1, <2>2, <2>3
<1>17. sel \in C BY <1>9, <1>10, ChildrenOf
<1> HIDE DEF C, n, p, W
<1>18. o \in Seq(T!Iid) /\ \E i \in 1..Len(o) : o[i] = sel
  <2>1. j \in 1..Len(n) /\ n[j] \in C BY <1>16, <1>17
  <2>2. \E i \in 1..Len(T!Only(n, C)) : T!Only(n, C)[i] = n[j] BY <1>16, <2>1, OnlyHas
  <2> QED BY <1>16, <2>2, OnlyType
<1> HIDE DEF o
<1> DEFINE l == T!Only(o, W)
<1>19. l \in Seq(T!Iid) /\ \E i \in 1..Len(l) : l[i] = sel
  <2>1. PICK i \in 1..Len(o) : o[i] = sel BY <1>18
  <2>2. o[i] \in W BY <1>6, <2>1 DEF W
  <2>3. \E m \in 1..Len(T!Only(o, W)) : T!Only(o, W)[m] = o[i] BY <1>18, <2>2, OnlyHas
  <2> QED BY <1>18, <2>1, <2>3, OnlyType
<1> HIDE DEF l
<1>20. sel \in T!Range(l) BY <1>19, LenProperties DEF T!Range
<1>21. sel \in DOMAIN item BY <1>1, <1>3, <1>6 DEF Shows
<1> DEFINE left == [pp \in T!Parents |->
                       IF pp \in {None} \cup T!Wanted(new) THEN T!Only(kids[pp], T!Wanted(new)) ELSE <<>>]
<1>22. left[p] = l BY <1>13, <1>14, <1>15 DEF l, W
<1>23. DOMAIN T!Prune(new).item = {x \in DOMAIN item : \E pp \in T!Parents : x \in T!Range(left[pp])}
  BY DEF T!Prune
<1> HIDE DEF left
<1>24. sel \in DOMAIN T!Prune(new).item BY <1>14, <1>20, <1>21, <1>22, <1>23
<1> QED BY <1>5, <1>24

\* Only the user and the loss of its row change the selection.
LEMMA SelectionStep ==
    ASSUME TableInv, [DesktopNext]_<<part, vars, table>>
    PROVE  [row' # row => row \notin T!Wanted(rows') \/ (rows' = rows /\ snap' = snap)]_T!vars
<1> SUFFICES ASSUME row' # row PROVE row \notin T!Wanted(rows') \/ (rows' = rows /\ snap' = snap)
  OBVIOUS
<1>1. T!Next BY DEF DesktopNext, table
<1>2. PICK s, now, working : s = snap /\ now = ips /\ working = locked BY Zenon
<1>3. s \in Known BY <1>2 DEF TableInv
<1>4. CASE \E t \in World : T!Refresh(t)
  <2>1. PICK t \in World : T!Render(t, ips, locked) BY <1>4 DEF T!Refresh
  <2>2. T!Render(t, now, working) /\ t \in Known BY <1>2, <2>1 DEF Known
  <2> QED BY <2>2, RenderKeepsSelection
<1>5. CASE T!Sample
  <2>1. PICK fresh \in SUBSET ips : T!Render(snap, fresh, locked) BY <1>5 DEF T!Sample
  <2>2. T!Render(s, fresh, working) BY <1>2, <2>1
  <2> QED BY <1>3, <2>2, RenderKeepsSelection
<1>6. CASE \E i \in T!Iface, found \in BOOLEAN : T!Return(i, found)
  <2>1. PICK i \in T!Iface, found \in BOOLEAN : T!Render(snap, IF found THEN ips \cup {i} ELSE ips \ {i}, FALSE)
    BY <1>6 DEF T!Return
  <2>2. PICK known : known = IF found THEN ips \cup {i} ELSE ips \ {i} BY Zenon
  <2>3. T!Render(s, known, FALSE) BY <1>2, <2>1, <2>2
  <2> QED BY <1>3, <2>3, RenderKeepsSelection
<1>7. CASE \E iid \in T!Iid : T!Select(iid) BY <1>7 DEF T!Select
<1>8. CASE \E i \in T!Iface : T!ChooseIface(i) BY <1>8 DEF T!ChooseIface
<1>9. CASE T!Press \/ T!ReturnOther BY <1>9 DEF T!Press, T!ReturnOther
<1> QED BY <1>1, <1>4, <1>5, <1>6, <1>7, <1>8, <1>9 DEF T!Next

\* Only the user and the loss of its interface change the form.
LEMMA FieldStep ==
    ASSUME [DesktopNext]_<<part, vars, table>>
    PROVE  [field' # field =>
               field' \in snap'.usable \cup {None} /\ (field \notin snap'.usable \/ snap' = snap)]_T!vars
<1> SUFFICES ASSUME field' # field
             PROVE  field' \in snap'.usable \cup {None} /\ (field \notin snap'.usable \/ snap' = snap)
  OBVIOUS
<1>1. T!Next BY DEF DesktopNext, table
<1>2. CASE \E s \in World : T!Refresh(s)
  <2>1. PICK s \in World : snap' = s /\ field' = T!Chosen(s) BY <1>2 DEF T!Refresh
  <2>2. field \notin s.usable BY <2>1 DEF T!Chosen
  <2>3. T!Chosen(s) \in s.usable \cup {None} BY DEF T!Chosen
  <2> QED BY <2>1, <2>2, <2>3
<1>3. CASE \E i \in T!Iface : T!ChooseIface(i) BY <1>3 DEF T!ChooseIface
<1>4. ~T!Sample BY DEF T!Sample
<1>5. ~\E iid \in T!Iid : T!Select(iid) BY DEF T!Select
<1>6. ~T!Press /\ ~T!ReturnOther BY DEF T!Press, T!ReturnOther
<1>7. ~\E i \in T!Iface, found \in BOOLEAN : T!Return(i, found) BY DEF T!Return
<1> QED BY <1>1, <1>2, <1>3, <1>4, <1>5, <1>6, <1>7 DEF T!Next

\* The invariant of the table holds of every behaviour of the main window.
LEMMA TableInvAlways == DesktopSpec => []TableInv
<1>1. DesktopInit => TableInv BY TableInit DEF DesktopInit
<1>2. TableInv /\ [DesktopNext]_<<part, vars, table>> => TableInv' BY TableStep
<1> QED BY <1>1, <1>2, PTL DEF DesktopSpec

\* The table is true: it shows the rows that are due, each once and in its place,
\* with what the last snapshot says of it, and offers only what can be done.
THEOREM TableAlwaysTrue == DesktopSpec => []TableIsTrue
<1>1. TableInv => TableIsTrue BY InvShowsRows DEF TableIsTrue
<1> QED BY <1>1, TableInvAlways, PTL

\* No refresh takes the user's choice away.
THEOREM ChoiceAlwaysKept == DesktopSpec => ChoiceKept
<1> DEFINE Selection == row' # row => row \notin T!Wanted(rows') \/ (rows' = rows /\ snap' = snap)
           Field == field' # field =>
                       field' \in snap'.usable \cup {None} /\ (field \notin snap'.usable \/ snap' = snap)
<1>1. TableInv /\ [DesktopNext]_<<part, vars, table>> => [Selection]_T!vars BY SelectionStep
<1>2. [DesktopNext]_<<part, vars, table>> => [Field]_T!vars BY FieldStep
<1>3. T!SelectionKept <=> [][Selection]_T!vars BY DEF T!SelectionKept
<1>4. T!FieldKept <=> [][Field]_T!vars BY DEF T!FieldKept
<1> HIDE DEF Selection, Field
<1>5. DesktopSpec => T!SelectionKept BY <1>1, <1>3, TableInvAlways, PTL DEF DesktopSpec
<1>6. DesktopSpec => T!FieldKept BY <1>2, <1>4, PTL DEF DesktopSpec
<1> QED BY <1>5, <1>6, PTL DEF ChoiceKept
=============================================================================
