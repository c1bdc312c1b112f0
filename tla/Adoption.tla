------------------------------ MODULE Adoption ------------------------------
(***************************************************************************)
(* The adoption of running applications (engine.adopt, system/adopt.py).   *)
(* The processes of an application move into a cgroup of their own; an nft *)
(* table marks what the cgroup sends; an ip rule sends what bears the mark *)
(* to a routing table with the default of the interface and, behind it, an *)
(* unreachable default: the kill switch for when the link is down.         *)
(* Mark, rule, table and priority follow from one number, the slot.        *)
(*                                                                         *)
(* Operations hold the state lock ("pc", "job"); the applications fork and *)
(* exit, links flap, and the watcher checks, in between their steps.       *)
(***************************************************************************)
EXTENDS Naturals

CONSTANTS
    Iface,          \* interfaces
    Pid,            \* process numbers, reused when free
    Group,          \* cgroups, named by the random id of an adoption
    Slot,           \* SLOT_MIN..SLOT_MAX
    Root,           \* "the root cgroup, or any that is not InterMux's"
    None,           \* the null value
    MayFail,        \* what may fail: "command", "listing"
    MaxFaults       \* bound on crashes, reboots and losses of the state

ASSUME SlotsAreNumbers == Slot \subseteq Nat
ASSUME NullIsNew == /\ None \notin Iface \cup Pid \cup Group \cup Slot \cup {Root}
                    /\ Root \notin Group
ASSUME BoundsAreRight == MayFail \subseteq {"command", "listing"} /\ MaxFaults \in Nat

VARIABLES
    records,        \* state.json: the recorded adoptions
    \* the kernel
    member,         \* the cgroup of each process, or None
    groups,         \* InterMux's cgroups that exist
    nft,            \* the nft table of each slot, or None
    rule,           \* slots with an fwmark rule
    route,          \* the interface of the default in a slot's table, or None
    fallback,       \* slots with the unreachable default in their table
    up,             \* the interfaces that are up with an address and a default
    \* the operation that holds the lock
    pc, job,        \* what it does next, and for which adoption
    todo,           \* processes it has listed and not moved yet
    listed,         \* those of them that are still the process it listed
    moved,          \* whether it has moved any
    queue,          \* adoptions it has not come to yet
    dropped,        \* adoptions it has released and not recorded yet
    seen,           \* the interfaces it found up
    \* the rest
    watch,          \* what the watcher wants to do
    faults,         \* crashes, reboots and losses so far
    letGo           \* history: groups InterMux has begun to release

policy == <<rule, route, fallback>>
memory == <<todo, listed, moved, queue, dropped, seen>>
vars == <<records, member, groups, nft, policy, up, pc, job, memory, watch, faults, letGo>>

Record == [group : Group, iface : Iface, slot : Slot]
NoRecord == [group |-> None, iface |-> None, slot |-> None]
Operations == {"none", "adopt", "undo", "release", "teardown", "pass", "reset"}
Job == [op : Operations, for : Record \cup {NoRecord}]
NoJob == [op |-> "none", for |-> NoRecord]
Marks == [group : Group, iface : Iface]

\* Every variable holds a value of its kind (state.Adoption).
TypeOK ==
    /\ records \subseteq Record
    /\ member \in [Pid -> Group \cup {Root, None}]
    /\ groups \subseteq Group
    /\ nft \in [Slot -> Marks \cup {None}]
    /\ rule \subseteq Slot /\ fallback \subseteq Slot
    /\ route \in [Slot -> Iface \cup {None}]
    /\ up \subseteq Iface
    /\ pc \in {"free", "join", "policy", "mark", "save", "list", "eject", "strip",
               "unmark", "settle", "sweep", "idle", "refresh"}
    /\ job \in Job
    /\ todo \subseteq Pid /\ listed \subseteq Pid /\ moved \in BOOLEAN
    /\ queue \subseteq Record /\ dropped \subseteq Record /\ seen \subseteq Iface
    /\ watch \subseteq {"idle", "refresh"}
    /\ faults \in 0..MaxFaults
    /\ letGo \subseteq Group

-----------------------------------------------------------------------------
Alive(p) == member[p] # None
Members(g) == {p \in Pid : member[p] = g}

\* Mutants: only the kernel, or only the state, is asked which slots are taken.
UsedSlots_KernelOnly == {s \in Slot : nft[s] # None}
UsedSlots_RecordsOnly == {a.slot : a \in records}
\* Slots of recorded adoptions, and those whose nft table is loaded.
UsedSlots == {a.slot : a \in records} \cup {s \in Slot : nft[s] # None}

\* kernel_slots: no table is seen when nft cannot list them.
TakenSlots == IF "listing" \in MayFail THEN {UsedSlots, {a.slot : a \in records}} ELSE {UsedSlots}

FreeSlots(taken) == Slot \ taken

\* An id nobody has used: ids are random.
Unused(g) == /\ g \notin groups
             /\ \A a \in records : a.group # g
             /\ \A s \in Slot : nft[s] # None => nft[s].group # g

\* A mutant: the fallback is only wanted while the link is away.
ApplyPolicy_WhenDown(s, i, n) ==
    /\ rule' = IF n >= 1 THEN rule \cup {s} ELSE rule
    /\ n >= 2 => i \in up
    /\ route' = IF n >= 2 THEN [route EXCEPT ![s] = i] ELSE route
    /\ fallback' = IF n >= 3 /\ i \notin up THEN fallback \cup {s} ELSE fallback

\* apply_policy: the rule, the default of the interface (refused while the link
\* is down) and the fallback, in this order; a failure leaves the first n.
ApplyPolicy(s, i, n) ==
    /\ rule' = IF n >= 1 THEN rule \cup {s} ELSE rule
    /\ n >= 2 => i \in up
    /\ route' = IF n >= 2 THEN [route EXCEPT ![s] = i] ELSE route
    /\ fallback' = IF n >= 3 THEN fallback \cup {s} ELSE fallback

\* remove_policy: the rule, then the table.
RemovePolicy(s, n) ==
    /\ rule' = IF n >= 1 THEN rule \ {s} ELSE rule
    /\ route' = IF n >= 2 THEN [route EXCEPT ![s] = None] ELSE route
    /\ fallback' = IF n >= 2 THEN fallback \ {s} ELSE fallback

\* How many of n commands are done.
Done(n) == IF "command" \in MayFail THEN 0..n ELSE {n}
\* The slots whose command fails.
Failures == IF "command" \in MayFail THEN SUBSET Slot ELSE {{}}

\* refresh_policy: nothing is done to a table that is as it should be.
Healthy(a) == a.slot \in rule /\ a.slot \in fallback /\ route[a.slot] = a.iface

-----------------------------------------------------------------------------
Init ==
    /\ records = {} /\ groups = {}
    /\ member = [p \in Pid |-> None]
    /\ nft = [s \in Slot |-> None]
    /\ rule = {} /\ fallback = {}
    /\ route = [s \in Slot |-> None]
    /\ up = Iface
    /\ pc = "free" /\ job = NoJob
    /\ todo = {} /\ listed = {} /\ moved = FALSE
    /\ queue = {} /\ dropped = {} /\ seen = {}
    /\ watch = {} /\ faults = 0 /\ letGo = {}

\* The operation ends and its memory is gone; the lock is free.
Release == /\ pc' = "free" /\ job' = NoJob
           /\ todo' = {} /\ listed' = {} /\ moved' = FALSE
           /\ queue' = {} /\ dropped' = {} /\ seen' = {}

Goto(step) == pc' = step

\* A mutant: processes of other adoptions are not left out.
Adoptable_Any(procs) == {p \in procs : Alive(p)}
\* Processes that InterMux already routes stay where they are.
Adoptable(procs) == {p \in procs : member[p] = Root}

\* adopt: the processes of the application are listed, the lowest free slot is
\* picked and the cgroup is made, or cannot be made.
AdoptRequest(i, procs, g) ==
    /\ pc = "free" /\ i \in up
    /\ Unused(g)
    /\ Adoptable(procs) # {}
    /\ todo' = Adoptable(procs) /\ listed' = Adoptable(procs)
    /\ \E taken \in TakenSlots, op \in {"adopt", "undo"} : \E s \in FreeSlots(taken) :
          /\ \A t \in FreeSlots(taken) : s <= t
          /\ job' = [op |-> op, for |-> [group |-> g, iface |-> i, slot |-> s]]
          /\ \/ op = "adopt" /\ groups' = groups \cup {g} /\ Goto("join")
             \/ op = "undo" /\ "command" \in MayFail /\ UNCHANGED groups /\ Goto("list")
    /\ letGo' = letGo \ {g}
    /\ UNCHANGED <<records, member, nft, policy, up, moved, queue, dropped, seen, watch, faults>>

\* A mutant: a number that was reused is taken for the process listed.
StillListed_ByNumber(p) == Alive(p)
\* "this is still the same process of the same user": its start time is compared.
StillListed(p) == p \in listed

\* The move of one process fails when it has exited or cannot be moved.
Join(p) ==
    /\ pc = "join" /\ p \in todo
    /\ todo' = todo \ {p} /\ listed' = listed \ {p}
    /\ \/ /\ StillListed(p)
          /\ member' = [member EXCEPT ![p] = job.for.group]
          /\ moved' = TRUE
       \/ UNCHANGED <<member, moved>>
    /\ UNCHANGED <<records, groups, nft, policy, up, pc, job, queue, dropped, seen, watch, faults, letGo>>

Undo == /\ Goto("list") /\ job' = [job EXCEPT !.op = "undo"]

Joined ==
    /\ pc = "join" /\ todo = {}
    /\ IF moved THEN Goto("policy") /\ UNCHANGED job ELSE Undo
    /\ UNCHANGED <<records, member, groups, nft, policy, up, memory, watch, faults, letGo>>

\* "Routes and the fwmark rule first, marking last."
SetPolicy ==
    /\ pc = "policy"
    /\ \/ ApplyPolicy(job.for.slot, job.for.iface, 3) /\ Goto("mark") /\ UNCHANGED job
       \/ \E n \in 0..2 : /\ "command" \in MayFail \/ (n = 1 /\ job.for.iface \notin up)
                          /\ ApplyPolicy(job.for.slot, job.for.iface, n) /\ Undo
    /\ UNCHANGED <<records, member, groups, nft, up, memory, watch, faults, letGo>>

Mark ==
    /\ pc = "mark"
    /\ \/ /\ nft' = [nft EXCEPT ![job.for.slot] = [group |-> job.for.group, iface |-> job.for.iface]]
          /\ Goto("save") /\ UNCHANGED job
       \/ "command" \in MayFail /\ Undo /\ UNCHANGED nft
    /\ UNCHANGED <<records, member, groups, policy, up, memory, watch, faults, letGo>>

Save ==
    /\ pc = "save"
    /\ \/ records' = records \cup {job.for} /\ Release
       \/ "command" \in MayFail /\ Undo /\ UNCHANGED <<records, memory>>
    /\ UNCHANGED <<member, groups, nft, policy, up, watch, faults, letGo>>

-----------------------------------------------------------------------------
(* Release: _release_plumbing, for a release, a reset or a rollback. *)

ReleaseRequest(a) ==
    /\ pc = "free" /\ a \in records
    /\ Goto("list") /\ job' = [op |-> "release", for |-> a]
    /\ UNCHANGED <<records, member, groups, nft, policy, up, memory, watch, faults, letGo>>

ResetRequest ==
    /\ pc = "free"
    /\ Goto("settle") /\ job' = [op |-> "reset", for |-> NoRecord]
    /\ queue' = records
    /\ UNCHANGED <<records, member, groups, nft, policy, up, todo, listed, moved, dropped, seen, watch, faults, letGo>>

\* read_group_pids: nobody, when the group cannot be read.
ReadMembers(g) == {Members(g)} \cup IF "command" \in MayFail THEN {{}} ELSE {}

\* release_group reads the members once; who is forked later is not moved.
List ==
    /\ pc = "list" /\ Goto("eject")
    /\ \E found \in ReadMembers(job.for.group) : todo' = found /\ listed' = found
    /\ letGo' = letGo \cup {job.for.group}
    /\ UNCHANGED <<records, member, groups, nft, policy, up, job, moved, queue, dropped, seen, watch, faults>>

\* The move of one process fails when it has exited or cannot be moved; a number
\* is not reused between the read and the write.
Eject(p) ==
    /\ pc = "eject" /\ p \in todo
    /\ todo' = todo \ {p} /\ listed' = listed \ {p}
    /\ \/ p \in listed /\ member' = [member EXCEPT ![p] = Root]
       \/ (p \notin listed \/ "command" \in MayFail) /\ UNCHANGED member
    /\ UNCHANGED <<records, groups, nft, policy, up, pc, job, moved, queue, dropped, seen, watch, faults, letGo>>

\* rmdir refuses a group with members.
Ejected ==
    /\ pc = "eject" /\ todo = {}
    /\ groups' = IF Members(job.for.group) = {} THEN groups \ {job.for.group} ELSE groups
    /\ Goto(IF job.op = "undo" THEN "unmark" ELSE "strip")
    /\ UNCHANGED <<records, member, nft, policy, up, job, memory, watch, faults, letGo>>

\* A rollback takes the marks away first, a release the policy.
Strip ==
    /\ pc = "strip"
    /\ \E n \in Done(2) : RemovePolicy(job.for.slot, n)
    /\ Goto(IF job.op = "undo" THEN "settle" ELSE "unmark")
    /\ UNCHANGED <<records, member, groups, nft, up, job, memory, watch, faults, letGo>>

Unmark ==
    /\ pc = "unmark"
    /\ \E n \in Done(1) : nft' = IF n = 1 THEN [nft EXCEPT ![job.for.slot] = None] ELSE nft
    /\ Goto(IF job.op = "undo" THEN "strip" ELSE "settle")
    /\ UNCHANGED <<records, member, groups, policy, up, job, memory, watch, faults, letGo>>

Undone ==
    /\ pc = "settle" /\ job.op = "undo"
    /\ Release
    /\ UNCHANGED <<records, member, groups, nft, policy, up, watch, faults, letGo>>

\* The record stays as long as members are read from the group.
Released ==
    /\ pc = "settle" /\ job.op = "release"
    /\ \E found \in ReadMembers(job.for.group) :
          records' = IF found = {} THEN records \ {job.for} ELSE records
    /\ Release
    /\ UNCHANGED <<member, groups, nft, policy, up, watch, faults, letGo>>

ResetNext(a) ==
    /\ pc = "settle" /\ job.op = "reset" /\ a \in queue
    /\ queue' = queue \ {a}
    /\ job' = [job EXCEPT !.for = a]
    /\ Goto("list")
    /\ UNCHANGED <<records, member, groups, nft, policy, up, todo, listed, moved, dropped, seen, watch, faults, letGo>>

\* Every nft table is removed, recorded or not, but for those that fail: none at all
\* when they cannot be listed.
ResetMarks ==
    /\ pc = "settle" /\ job.op = "reset" /\ queue = {}
    /\ \E F \in Failures \cup IF "listing" \in MayFail THEN {Slot} ELSE {} :
          nft' = [s \in Slot |-> IF s \in F THEN nft[s] ELSE None]
    /\ Goto("sweep")
    /\ UNCHANGED <<records, member, groups, policy, up, job, memory, watch, faults, letGo>>

\* sweep_leftovers: every rule with InterMux's marks, the table of every rule
\* that went and every empty cgroup; then the state without adoptions is saved.
ResetSweep ==
    /\ pc = "sweep"
    /\ \E F, T \in Failures :
          LET flushed == (rule \ F) \ T
          IN /\ rule' = rule \cap F
             /\ route' = [s \in Slot |-> IF s \in flushed THEN None ELSE route[s]]
             /\ fallback' = fallback \ flushed
    /\ groups' = {g \in groups : Members(g) # {}}
    /\ records' = {}
    /\ Release
    /\ UNCHANGED <<member, nft, up, watch, faults, letGo>>

-----------------------------------------------------------------------------
(* The watcher, and teardown-idle *)

\* The interfaces a refresh finds; nothing when they cannot be listed, or when
\* the refresh of the namespaces, which comes first, has failed.
Found == IF "command" \in MayFail THEN {up, {}} ELSE {up}

BeginPass(op, step, found) ==
    /\ pc = "free"
    /\ Goto(step)
    /\ job' = [op |-> op, for |-> NoRecord]
    /\ queue' = records
    /\ seen' \in found
    /\ UNCHANGED <<records, member, groups, nft, policy, up, todo, listed, moved, dropped, faults, letGo>>

\* A mutant: nobody looks whether an adoption still has processes.
NeedsTeardown_NoAdoptions == FALSE
\* watch.needs_teardown, as far as adoptions go.
NeedsTeardown == \E a \in records : Members(a.group) = {}

\* run_once, without the lock: what is there to do?
WatchCheck ==
    /\ watch = {} /\ job.op # "pass" /\ records # {}
    /\ watch' = IF NeedsTeardown THEN {"idle", "refresh"} ELSE {"refresh"}
    /\ UNCHANGED <<records, member, groups, nft, policy, up, pc, job, memory, faults, letGo>>

WatchPass ==
    /\ \/ "idle" \in watch /\ BeginPass("pass", "idle", {{}})
       \/ watch = {"refresh"} /\ BeginPass("pass", "refresh", Found)
    /\ watch' = {}

TeardownRequest == BeginPass("teardown", "idle", {{}}) /\ UNCHANGED watch

\* teardown_idle: an adoption with members, or whose group cannot be read, is
\* kept, the others are released.
Idle(a) ==
    /\ pc = "idle" /\ a \in queue
    /\ queue' = queue \ {a}
    /\ \/ (Members(a.group) # {} \/ "command" \in MayFail) /\ UNCHANGED <<pc, job>>
       \/ Members(a.group) = {} /\ Goto("list") /\ job' = [job EXCEPT !.for = a]
    /\ UNCHANGED <<records, member, groups, nft, policy, up, todo, listed, moved, dropped, seen, watch, faults, letGo>>

IdleReleased ==
    /\ pc = "settle" /\ job.op \in {"teardown", "pass"}
    /\ dropped' = dropped \cup {job.for}
    /\ job' = [job EXCEPT !.for = NoRecord]
    /\ Goto("idle")
    /\ UNCHANGED <<records, member, groups, nft, policy, up, todo, listed, moved, queue, seen, watch, faults, letGo>>

\* The state is saved at the end, unless the removal of an interface failed.
IdleDone ==
    /\ pc = "idle" /\ queue = {}
    /\ \/ /\ records' = records \ dropped
          /\ IF job.op = "teardown"
             THEN Release
             ELSE /\ Goto("refresh") /\ queue' = records' /\ seen' \in Found
                  /\ dropped' = {}
                  /\ UNCHANGED <<job, todo, listed, moved>>
       \/ "command" \in MayFail /\ Release /\ UNCHANGED records
    /\ UNCHANGED <<member, groups, nft, policy, up, watch, faults, letGo>>

\* A mutant: only the rule is looked at.
NeedsRefresh_RuleOnly(a) == a.slot \notin rule
NeedsRefresh(a) == ~Healthy(a)

\* refresh_adoptions: one that fails does not stop the rest.
Refresh(a) ==
    /\ pc = "refresh" /\ a \in queue
    /\ queue' = queue \ {a}
    /\ IF a.iface \in seen /\ NeedsRefresh(a)
       THEN \E n \in 0..3 : /\ "command" \in MayFail \/ n = IF a.iface \in up THEN 3 ELSE 1
                            /\ ApplyPolicy(a.slot, a.iface, n)
       ELSE UNCHANGED policy
    /\ UNCHANGED <<records, member, groups, nft, up, pc, job, todo, listed, moved, dropped, seen, watch, faults, letGo>>

RefreshDone ==
    /\ pc = "refresh" /\ queue = {}
    /\ Release
    /\ UNCHANGED <<records, member, groups, nft, policy, up, watch, faults, letGo>>

-----------------------------------------------------------------------------
(* The world around the operations *)

Start(p) ==
    /\ ~Alive(p)
    /\ member' = [member EXCEPT ![p] = Root]
    /\ UNCHANGED <<records, groups, nft, policy, up, pc, job, memory, watch, faults, letGo>>

\* A child starts in the cgroup of its parent.
Fork(p, q) ==
    /\ Alive(p) /\ ~Alive(q)
    /\ member' = [member EXCEPT ![q] = member[p]]
    /\ UNCHANGED <<records, groups, nft, policy, up, pc, job, memory, watch, faults, letGo>>

Exit(p) ==
    /\ Alive(p)
    /\ member' = [member EXCEPT ![p] = None]
    /\ listed' = listed \ {p}
    /\ UNCHANGED <<records, groups, nft, policy, up, pc, job, todo, moved, queue, dropped, seen, watch, faults, letGo>>

\* The kernel drops the routes of a link that goes down.
LinkDown(i) ==
    /\ i \in up
    /\ up' = up \ {i}
    /\ route' = [s \in Slot |-> IF route[s] = i THEN None ELSE route[s]]
    /\ UNCHANGED <<records, member, groups, nft, rule, fallback, pc, job, memory, watch, faults, letGo>>

LinkUp(i) ==
    /\ i \notin up
    /\ up' = up \cup {i}
    /\ UNCHANGED <<records, member, groups, nft, policy, pc, job, memory, watch, faults, letGo>>

Fault == faults < MaxFaults /\ faults' = faults + 1

\* The helper or the watcher dies; the kernel drops its lock.
Crash ==
    /\ Fault /\ pc # "free"
    /\ Release
    /\ UNCHANGED <<records, member, groups, nft, policy, up, watch, letGo>>

Reboot ==
    /\ Fault
    /\ member' = [p \in Pid |-> None]
    /\ groups' = {} /\ nft' = [s \in Slot |-> None]
    /\ rule' = {} /\ fallback' = {}
    /\ route' = [s \in Slot |-> None]
    /\ watch' = {}
    /\ Release
    /\ UNCHANGED <<records, up, letGo>>

LoseState ==
    /\ Fault /\ pc = "free"
    /\ records' = {}
    /\ UNCHANGED <<member, groups, nft, policy, up, pc, job, memory, watch, letGo>>

-----------------------------------------------------------------------------
NewRequest ==
    \/ \E i \in Iface, procs \in SUBSET Pid, g \in Group : AdoptRequest(i, procs, g)
    \/ \E a \in records : ReleaseRequest(a)
    \/ ResetRequest
    \/ TeardownRequest

Work ==
    \/ (\E p \in Pid : Join(p)) \/ Joined \/ SetPolicy \/ Mark \/ Save
    \/ List \/ (\E p \in Pid : Eject(p)) \/ Ejected \/ Strip \/ Unmark
    \/ Undone \/ Released \/ (\E a \in queue : ResetNext(a)) \/ ResetMarks \/ ResetSweep
    \/ (\E a \in queue : Idle(a)) \/ IdleReleased \/ IdleDone
    \/ (\E a \in queue : Refresh(a)) \/ RefreshDone

Processes ==
    \/ \E p \in Pid : Start(p) \/ Exit(p)
    \/ \E p, q \in Pid : Fork(p, q)

Links == \E i \in Iface : LinkDown(i) \/ LinkUp(i)

Faults == Crash \/ Reboot \/ LoseState

Next == NewRequest \/ Work \/ WatchCheck \/ WatchPass \/ Processes \/ Links \/ Faults

Spec == Init /\ [][Next]_vars

\* Operations go on, the watcher checks every few seconds and is not passed
\* over for ever when it waits for the lock.
Fairness == WF_vars(Work) /\ WF_vars(WatchCheck) /\ SF_vars(WatchPass)

FairSpec == Spec /\ Fairness
=============================================================================
