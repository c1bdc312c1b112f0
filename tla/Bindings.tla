------------------------------ MODULE Bindings ------------------------------
(***************************************************************************)
(* The life of a binding: an application launched in the network namespace *)
(* of an interface (engine.py).  The root helper and the root watcher work *)
(* on one state file under one file lock, so one operation at a time goes  *)
(* on ("pc", "job"); the applications, the watcher's lock-free check and   *)
(* crashes and reboots of the machine interleave with its steps.           *)
(*                                                                         *)
(* State kept on disk survives everything; what the kernel holds           *)
(* (namespaces, links, rules, processes) is lost at a reboot; what an      *)
(* operation keeps in memory is lost when its process dies.                *)
(***************************************************************************)
EXTENDS Naturals, FiniteSets

CONSTANTS
    Iface,          \* interfaces an application can be bound to
    App,            \* applications (paths)
    Recognised,     \* the applications whose processes bear their name
    Pid,            \* process numbers; a number is reused once it is free
    Subnet,         \* the free /24 subnets of the pool, by index
    Host,           \* "the network namespace of the host"
    None,           \* the null value
    TeardownFails,  \* interfaces whose removal commands may fail
    FailingPieces,  \* the pieces whose removal may fail there
    Tuned,          \* interfaces whose DNS servers and limits the user chooses
    MayLoseState,   \* whether the state file may be lost
    MaxFaults       \* bound on crashes, reboots and losses

ASSUME SubnetsAreNumbers == Subnet \subseteq Nat
ASSUME RecognisedAreApps == Recognised \subseteq App
ASSUME FailingAreIfaces == TeardownFails \subseteq Iface /\ Tuned \subseteq Iface
ASSUME BoundsAreRight == MayLoseState \in BOOLEAN /\ MaxFaults \in Nat

VARIABLES
    \* state.json
    subnets,        \* the subnet recorded for each interface, or None
    bindings,       \* the recorded bindings
    settings,       \* interfaces with DNS servers or limits chosen by hand
    \* the kernel
    ns,             \* interfaces whose namespace exists
    veth,           \* <<i, s>>: the host veth of i exists with the address of s
    nat,            \* <<i, s>>: s is masqueraded out of i
    rule,           \* the subnets with a policy rule to their table
    table,          \* the interface the table of a subnet leads to, or None
    proc,           \* the processes, or None
    \* the operation that holds the state lock
    pc,             \* what it does next; "free" when nobody holds the lock
    job,            \* what was asked of it
    targets,        \* the processes it waits for to exit
    child,          \* the process it launched and has not polled yet
    left,           \* the bindings of its copy of the state
    unseen,         \* the bindings it has not examined yet
    sweep,          \* the interfaces it has not examined yet
    torn,           \* the interfaces it tore down and has not recorded yet
    kept,           \* the interfaces whose namespace it found busy
    \* the rest
    watch,          \* the watcher: "asleep", or it "wants" a teardown
    faults,         \* crashes, reboots and losses so far
    orphans         \* history: pieces whose removal failed while the record went

disk == <<subnets, bindings, settings>>
kernel == <<ns, veth, nat, rule, table>>
memory == <<targets, child, left, unseen, sweep, torn, kept>>
vars == <<disk, kernel, proc, pc, job, memory, watch, faults, orphans>>

Binding == [iface : Iface, app : App, pid : Pid, subnet : Subnet]
Process == [at : Iface \cup {Host}, app : App, parent : Pid \cup {None}]
ASSUME NullIsNew == /\ None \notin Iface \cup App \cup Pid \cup Subnet \cup Process
                    /\ Host \notin Iface
Policies == {"ask", "close", "separate"}
Operations == {"none", "bind", "restart", "move", "remove", "teardown", "watch", "reset"}
Job == [op : Operations, iface : Iface \cup {None}, app : App \cup {None},
        from : Iface \cup {None}, policy : Policies]
NoJob == [op |-> "none", iface |-> None, app |-> None, from |-> None,
          policy |-> "ask"]
Pieces == {"nat", "rule", "table", "veth", "ns"}
ASSUME FailingArePieces == FailingPieces \subseteq Pieces
PieceSets == [ns : SUBSET Iface, veth : SUBSET (Iface \X Subnet),
              nat : SUBSET (Iface \X Subnet), rule : SUBSET Subnet, table : SUBSET Subnet]
NoPieces == [ns |-> {}, veth |-> {}, nat |-> {}, rule |-> {}, table |-> {}]
Steps == {"free", "closing", "plumb", "launch", "wait",
          "rollback", "drop", "remove", "examine", "sweep", "survey", "wipe"}

\* Every variable holds a value of its kind: the state file (state.State) only
\* names known interfaces, applications and subnets.
TypeOK ==
    /\ subnets \in [Iface -> Subnet \cup {None}]
    /\ bindings \subseteq Binding
    /\ settings \subseteq Iface
    /\ ns \subseteq Iface
    /\ veth \subseteq Iface \X Subnet
    /\ nat \subseteq Iface \X Subnet
    /\ rule \subseteq Subnet
    /\ table \in [Subnet -> Iface \cup {None}]
    /\ proc \in [Pid -> Process \cup {None}]
    /\ pc \in Steps
    /\ job \in Job
    /\ targets \subseteq Pid
    /\ child \in Pid \cup {None}
    /\ left \subseteq Binding
    /\ unseen \subseteq Binding
    /\ sweep \subseteq Iface
    /\ torn \subseteq Iface
    /\ kept \subseteq Iface
    /\ watch \in {"asleep", "wants"}
    /\ faults \in 0..MaxFaults
    /\ orphans \in PieceSets

-----------------------------------------------------------------------------
(* Processes *)

Alive(p) == proc[p] # None
InNetns(i) == {p \in Pid : proc[p] # None /\ proc[p].at = i}

\* procs.pids_in_netns: the kernel has no processes in a namespace that is gone.
Busy(i) == i \in ns /\ InNetns(i) # {}

\* procs.descendants: the pids and everything they started, through parents
\* that still live (a child of a dead process belongs to init).
Descendants(pids) ==
    LET Family(S) == /\ pids \cap Pid \subseteq S
                     /\ \A p \in Pid : Alive(p) /\ proc[p].parent \in S => p \in S
    IN {p \in Pid : \A S \in SUBSET Pid : Family(S) => p \in S}

FoundByName(a) == {p \in Pid : Alive(p) /\ a \in Recognised /\ proc[p].app = a}

Shared(b, all) == \E o \in all : o # b /\ o.iface = b.iface

\* engine._binding_pids
BindingPids(b, all) ==
    LET inNs  == IF b.iface \in ns THEN InNetns(b.iface) ELSE {}
        found == (FoundByName(b.app) \cup Descendants({b.pid})) \cap inNs
    IN IF found = {} /\ ~Shared(b, all) THEN inNs ELSE found

\* The pids bind() counts as running copies of the application.
Running(a) == FoundByName(a) \cup
              UNION {BindingPids(b, bindings) : b \in {o \in bindings : o.app = a}}

Launched(b) == Descendants({b.pid}) \cap InNetns(b.iface) # {}

\* A mutant: a binding whose process tree is gone never counts as live.
BindingLive_TreeOnly(b, all) == Busy(b.iface) /\ Launched(b)

\* engine._binding_live: the launched process or a descendant runs in the
\* namespace; or something does, and no other binding can have started it.
BindingLive(b, all) == Busy(b.iface) /\ (Launched(b) \/ ~Shared(b, all))

Bound(i, all) == \E b \in all : b.iface = i
Recorded(i) == subnets[i] # None

\* A mutant: plumbing without a binding is overlooked.
NeedsTeardown_BindingsOnly == \E b \in bindings : ~Busy(b.iface)

\* watch.needs_teardown, on the state file and the processes as they are now.
NeedsTeardown ==
    \/ \E b \in bindings : ~Busy(b.iface)
    \/ \E i \in Iface : Recorded(i) /\ ~Bound(i, bindings)

-----------------------------------------------------------------------------
(* Plumbing *)

\* remove_nat and remove_policy do not look at the result of "iptables -D" and
\* "ip rule del"; the other commands raise when they fail.
Reported == {"table", "veth", "ns"}

\* engine._teardown_plumbing with the steps in R succeeding.  The kernel takes
\* the veth away with an empty namespace.
RemovePlumbing(i, s, R) ==
    /\ nat' = IF "nat" \in R THEN nat \ {<<i, s>>} ELSE nat
    /\ rule' = IF "rule" \in R THEN rule \ {s} ELSE rule
    /\ table' = IF "table" \in R THEN [table EXCEPT ![s] = None] ELSE table
    /\ veth' = IF {"veth", "ns"} \cap R # {} THEN veth \ ({i} \X Subnet) ELSE veth
    /\ ns' = IF "ns" \in R THEN ns \ {i} ELSE ns

\* The outcomes of a teardown: every step is attempted, any may fail.
Outcomes(F) == IF F \cap TeardownFails = {} THEN {Pieces}
               ELSE {Pieces \ Q : Q \in SUBSET FailingPieces}

\* The order of _teardown_plumbing, and that of reset where no binding is left.
TeardownOrder == <<"nat", "rule", "table", "veth", "ns">>
ResetOrder == <<"veth", "ns", "rule", "table", "nat">>

\* The outcomes when the process is killed in between.
Interrupted(F, order) == {R \ {order[k] : k \in j..5} : R \in Outcomes(F), j \in 1..5}

\* A mutant: a failed step is logged and passed over.
Complete_Anyway(R) == TRUE
\* "The first failure is raised at the end": no step that tells has failed.
Complete(R) == Reported \subseteq R

\* The pieces of the interfaces F on the subnets S that are not in R.
Failed(F, S, R) ==
    LET Stay(piece, all) == IF piece \in R THEN {} ELSE all
    IN [ns |-> Stay("ns", F), veth |-> Stay("veth", F \X S), nat |-> Stay("nat", F \X S),
        rule |-> Stay("rule", S), table |-> Stay("table", S)]

Tabled == {s \in Subnet : table[s] # None}

\* The history of a removal: the records of the pieces go, or have gone; those
\* that are still there are orphans.
Forsake(pieces) ==
    orphans' = [ns    |-> (orphans.ns \cup pieces.ns) \cap ns',
                veth  |-> (orphans.veth \cup pieces.veth) \cap veth',
                nat   |-> (orphans.nat \cup pieces.nat) \cap nat',
                rule  |-> (orphans.rule \cup pieces.rule) \cap rule',
                table |-> (orphans.table \cup pieces.table) \cap Tabled']

\* The order in which _bind_plumbed builds the pieces; ensure_policy fills the
\* table before it adds the rule.
BuildPieces(i, s, k) ==
    /\ ns' = IF k >= 1 THEN ns \cup {i} ELSE ns
    /\ veth' = IF k >= 2 THEN veth \cup {<<i, s>>} ELSE veth
    /\ nat' = IF k >= 3 THEN nat \cup {<<i, s>>} ELSE nat
    /\ table' = IF k >= 4 THEN [table EXCEPT ![s] = i] ELSE table
    /\ rule' = IF k >= 5 THEN rule \cup {s} ELSE rule

\* A mutant: only the addresses of the links are avoided.
UsedSubnets_LinksOnly == {s \in Subnet : \E i \in Iface : <<i, s>> \in veth}

\* engine._used_networks: what the state records and what the links carry.
UsedSubnets == {s \in Subnet : \E i \in Iface : subnets[i] = s \/ <<i, s>> \in veth}

-----------------------------------------------------------------------------
(* The operations.  Each begins by taking the free lock. *)

Init ==
    /\ subnets = [i \in Iface |-> None]
    /\ bindings = {} /\ settings = {}
    /\ ns = {} /\ veth = {} /\ nat = {} /\ rule = {}
    /\ table = [s \in Subnet |-> None]
    /\ proc = [p \in Pid |-> None]
    /\ pc = "free" /\ job = NoJob
    /\ targets = {} /\ child = None
    /\ left = {} /\ unseen = {} /\ sweep = {} /\ torn = {} /\ kept = {}
    /\ watch = "asleep" /\ faults = 0 /\ orphans = NoPieces

\* The operation ends, well or with an error; the lock is free again.
Release == /\ pc' = "free"
           /\ job' = NoJob
           /\ targets' = {} /\ child' = None /\ left' = {} /\ unseen' = {}
           /\ sweep' = {} /\ torn' = {} /\ kept' = {}

\* The settings a bind may leave: kept, chosen by hand or cleared.
SettingsAfterBind(i) ==
    IF i \in Tuned THEN {settings, settings \cup {i}, settings \ {i}} ELSE {settings}

\* The subnet of i, if need be the lowest free one of the pool, is saved with
\* the settings before anything is built.
SaveSubnet(i, newSettings) ==
    /\ \/ Recorded(i) /\ UNCHANGED subnets
       \/ /\ ~Recorded(i)
          /\ \E s \in Subnet \ UsedSubnets :
                /\ \A t \in Subnet \ UsedSubnets : s <= t
                /\ subnets' = [subnets EXCEPT ![i] = s]
    /\ settings' \in newSettings
    /\ UNCHANGED bindings

Request(op, i, a, from, how) ==
    [op |-> op, iface |-> i, app |-> a, from |-> from, policy |-> how]

Take(request, step) == pc = "free" /\ job' = request /\ pc' = step

\* bind.  A request it refuses (a copy runs and the policy is "ask", the
\* interface is not bindable, the pool is exhausted) changes nothing.
BindRequest(i, a, how) ==
    /\ \/ /\ Running(a) = {} \/ how = "separate"
          /\ Take(Request("bind", i, a, None, "ask"), "plumb")
          /\ SaveSubnet(i, SettingsAfterBind(i))
          /\ UNCHANGED targets
       \/ /\ Running(a) # {} /\ how = "close"
          /\ Take(Request("bind", i, a, None, "ask"), "closing")
          /\ targets' = Descendants(Running(a))
          /\ UNCHANGED disk
    /\ UNCHANGED <<kernel, proc, child, left, unseen, sweep, torn, kept, watch, faults, orphans>>

\* restart_app and move_app stop the application first.  A separate profile
\* allows another copy to run afterwards, otherwise one is refused ("ask").
StopFirst(b, request) ==
    /\ b \in bindings
    /\ Take(request, "closing")
    /\ targets' = Descendants(BindingPids(b, bindings))
    /\ UNCHANGED <<disk, kernel, proc, child, left, unseen, sweep, torn, kept, watch, faults, orphans>>

RestartRequest(b, how) == StopFirst(b, Request("restart", b.iface, b.app, None, how))

MoveRequest(b, to, how) ==
    /\ to # b.iface
    /\ StopFirst(b, Request("move", to, b.app, b.iface, how))

\* remove_namespace and reset (with or without kill_apps) first ask processes
\* to exit; what follows is the same whether they did or not.
RemoveRequest(i) ==
    /\ Recorded(i)
    /\ Take(Request("remove", i, None, None, "ask"), "remove")
    /\ UNCHANGED <<disk, kernel, proc, memory, watch, faults, orphans>>

ResetRequest ==
    /\ Take(Request("reset", None, None, None, "ask"), "survey")
    /\ UNCHANGED <<disk, kernel, proc, memory, watch, faults, orphans>>

\* set_dns and set_limit need the record and the namespace.
SetSettings(i, byHand) ==
    /\ pc = "free" /\ Recorded(i) /\ i \in ns /\ i \in Tuned
    /\ settings' = IF byHand THEN settings \cup {i} ELSE settings \ {i}
    /\ UNCHANGED <<subnets, bindings, kernel, proc, pc, job, memory, watch, faults, orphans>>

-----------------------------------------------------------------------------
(* The steps of an operation that holds the lock. *)

Goto(step) == pc' = step /\ UNCHANGED job

\* procs.terminate returns once every process it signalled is gone.  A copy
\* of the application elsewhere still stops a restart or a move.
Closed ==
    /\ pc = "closing" /\ \A p \in targets : ~Alive(p)
    /\ IF job.op = "bind" \/ Running(job.app) = {} \/ job.policy = "separate"
       THEN /\ SaveSubnet(job.iface, IF job.op = "bind" THEN SettingsAfterBind(job.iface)
                                                        ELSE {settings})
            /\ pc' = "plumb" /\ job' = [job EXCEPT !.policy = "ask"]
            /\ targets' = {}
            /\ UNCHANGED <<child, left, unseen, sweep, torn, kept>>
       ELSE Release /\ UNCHANGED disk
    /\ UNCHANGED <<kernel, proc, watch, faults, orphans>>

\* ... or after the grace time with survivors; or there is no free subnet.
NotClosed ==
    /\ pc = "closing"
    /\ \/ \E p \in targets : Alive(p)
       \/ ~Recorded(job.iface) /\ Subnet \subseteq UsedSubnets
    /\ Release
    /\ UNCHANGED <<disk, kernel, proc, watch, faults, orphans>>

\* _bind_plumbed up to the launch; a command that fails leaves the rest unbuilt.
Plumb ==
    /\ pc = "plumb"
    /\ \E k \in 0..5 : /\ BuildPieces(job.iface, subnets[job.iface], k)
                       /\ Goto(IF k = 5 THEN "launch" ELSE "rollback")
    /\ UNCHANGED <<disk, proc, memory, watch, faults, orphans>>

\* The profile, the TMPDIR or the log cannot be prepared, or the exec fails.
LaunchFails ==
    /\ pc = "launch" /\ Goto("rollback")
    /\ UNCHANGED <<disk, kernel, proc, memory, watch, faults, orphans>>

Launch(p) ==
    /\ pc = "launch" /\ ~Alive(p)
    /\ proc' = [proc EXCEPT ![p] = [at |-> job.iface, app |-> job.app, parent |-> None]]
    /\ child' = p
    /\ Goto("wait")
    /\ UNCHANGED <<disk, kernel, targets, left, unseen, sweep, torn, kept, watch, faults, orphans>>

\* A mutant: the new record is added beside the old one.
BindingsWith_NoReplace(b) == bindings \cup {b}
BindingsWith(b) == {o \in bindings : ~(o.iface = b.iface /\ o.app = b.app)} \cup {b}

\* A mutant: the pid of a launcher that handed off is not recorded.
NewBinding_LivePid == [iface |-> job.iface, app |-> job.app,
                       pid |-> IF Alive(child) THEN child ELSE None,
                       subnet |-> subnets[job.iface]]

NewBinding == [iface |-> job.iface, app |-> job.app, pid |-> child,
               subnet |-> subnets[job.iface]]

\* After LAUNCH_WAIT: the launched process runs, or it exited with status 0
\* and left others in the namespace; the binding is recorded.
RecordBinding ==
    /\ pc = "wait" /\ (Alive(child) \/ Busy(job.iface))
    /\ bindings' = BindingsWith(NewBinding)
    /\ IF job.op = "move" THEN Goto("drop") /\ child' = None
                               /\ UNCHANGED <<targets, left, unseen, sweep, torn, kept>>
                          ELSE Release
    /\ UNCHANGED <<subnets, settings, kernel, proc, watch, faults, orphans>>

\* It exited with an error, or with nothing left in the namespace.
LaunchExited ==
    /\ pc = "wait" /\ ~Alive(child)
    /\ Goto("rollback") /\ child' = None
    /\ UNCHANGED <<disk, kernel, proc, targets, left, unseen, sweep, torn, kept, watch, faults, orphans>>

\* A mutant: nobody looks whether processes run in the namespace.
TeardownDue_NoPids(i) ==
    \/ pc = "rollback" /\ i = job.iface /\ ~Bound(i, bindings)
    \/ /\ pc = "drop" /\ i = job.from /\ Recorded(i)
       /\ \A b \in bindings : b.iface = i => b.app = job.app
    \/ pc = "remove" /\ i = job.iface /\ Recorded(i)
    \/ pc = "sweep" /\ i \in sweep /\ ~Bound(i, left)

\* A mutant: nobody looks whether a binding uses the interface.
TeardownDue_NoBindings(i) ==
    /\ ~Busy(i)
    /\ \/ pc = "rollback" /\ i = job.iface
       \/ pc = "drop" /\ i = job.from /\ Recorded(i)
       \/ pc = "remove" /\ i = job.iface /\ Recorded(i)
       \/ pc = "sweep" /\ i \in sweep /\ ~Bound(i, left)

\* The operation is about to tear down interface i: no binding needs it and
\* no process runs in its namespace.
TeardownDue(i) ==
    /\ ~Busy(i)
    /\ \/ pc = "rollback" /\ i = job.iface /\ ~Bound(i, bindings)
       \/ /\ pc = "drop" /\ i = job.from /\ Recorded(i)
          /\ \A b \in bindings : b.iface = i => b.app = job.app
       \/ pc = "remove" /\ i = job.iface /\ Recorded(i)
       \/ pc = "sweep" /\ i \in sweep /\ ~Bound(i, left)

\* A mutant: the settings of a forgotten interface stay.
ForgetIfaces_KeepSettings(gone) ==
    /\ subnets' = [i \in Iface |-> IF i \in gone THEN None ELSE subnets[i]]
    /\ UNCHANGED settings

\* State.forget_iface, and the save that follows.
ForgetIfaces(gone) ==
    /\ subnets' = [i \in Iface |-> IF i \in gone THEN None ELSE subnets[i]]
    /\ settings' = settings \ gone

\* _teardown_iface through _safe, then forget_iface whatever came of it.
TearDownAndForget(i) ==
    /\ \E R \in Outcomes({i}) :
          /\ RemovePlumbing(i, subnets[i], R)
          /\ Forsake(Failed({i}, {subnets[i]}, R))
    /\ ForgetIfaces({i})

\* _rollback_bind
Rollback ==
    /\ pc = "rollback"
    /\ IF TeardownDue(job.iface)
       THEN TearDownAndForget(job.iface)
       ELSE UNCHANGED <<subnets, settings, kernel, orphans>>
    /\ Release
    /\ UNCHANGED <<bindings, proc, watch, faults>>

\* move_app, once the application runs on the other interface.
DropMoved ==
    /\ pc = "drop"
    /\ bindings' = {b \in bindings : ~(b.iface = job.from /\ b.app = job.app)}
    /\ IF TeardownDue(job.from)
       THEN TearDownAndForget(job.from)
       ELSE UNCHANGED <<subnets, settings, kernel, orphans>>
    /\ Release
    /\ UNCHANGED <<proc, watch, faults>>

\* A teardown that raises unless every step that tells succeeded; only what
\* fails in silence can be left without a record.
TearDown(i, R) ==
    /\ RemovePlumbing(i, subnets[i], R)
    /\ Forsake(IF Complete(R) THEN Failed({i}, {subnets[i]}, R \cup Reported) ELSE NoPieces)

\* remove_namespace: a failed step raises before the state is saved.
Remove ==
    /\ pc = "remove"
    /\ LET i == job.iface IN
       \/ Busy(i) /\ UNCHANGED <<disk, kernel, orphans>>
       \/ /\ TeardownDue(i)
          /\ \E R \in Outcomes({i}) :
                /\ TearDown(i, R)
                /\ IF Complete(R)
                   THEN /\ bindings' = {b \in bindings : b.iface # i}
                        /\ ForgetIfaces({i})
                   ELSE UNCHANGED disk
    /\ Release
    /\ UNCHANGED <<proc, watch, faults>>

\* teardown_idle, asked for by the user or by the watcher.
BeginTeardown(by) ==
    /\ Take(Request(by, None, None, None, "ask"), "examine")
    /\ left' = bindings /\ unseen' = bindings
    /\ UNCHANGED <<disk, kernel, proc, targets, child, sweep, torn, kept, faults, orphans>>

TeardownRequest == BeginTeardown("teardown") /\ UNCHANGED watch

WatchTeardown == /\ watch = "wants" /\ BeginTeardown("watch")
                 /\ watch' = "asleep"

\* One binding after the other is dropped from the copy when it is not live.
Examine(b) ==
    /\ pc = "examine" /\ b \in unseen
    /\ unseen' = unseen \ {b}
    /\ left' = IF BindingLive(b, left) THEN left ELSE left \ {b}
    /\ UNCHANGED <<disk, kernel, proc, pc, job, targets, child, sweep, torn, kept, watch, faults, orphans>>

Examined ==
    /\ pc = "examine" /\ unseen = {}
    /\ Goto("sweep")
    /\ sweep' = {i \in Iface : Recorded(i)}
    /\ UNCHANGED <<disk, kernel, proc, targets, child, left, unseen, torn, kept, watch, faults, orphans>>

\* The interfaces, in the order of their names (any order here).  A failed
\* step ends the whole pass before anything is saved.
SweepIface(i) ==
    /\ pc = "sweep" /\ i \in sweep
    /\ IF ~TeardownDue(i)
       THEN /\ sweep' = sweep \ {i}
            /\ UNCHANGED <<kernel, orphans, pc, job, targets, child, left, unseen, torn, kept>>
       ELSE \E R \in Outcomes({i}) :
               /\ TearDown(i, R)
               /\ IF Complete(R)
                  THEN /\ sweep' = sweep \ {i} /\ torn' = torn \cup {i}
                       /\ UNCHANGED <<pc, job, targets, child, left, unseen, kept>>
                  ELSE Release
    /\ UNCHANGED <<disk, proc, watch, faults>>

Swept ==
    /\ pc = "sweep" /\ sweep = {}
    /\ bindings' = left
    /\ ForgetIfaces(torn)
    /\ Release
    /\ UNCHANGED <<kernel, proc, watch, faults, orphans>>

\* reset looks for busy namespaces once, then removes all the rest.
Survey ==
    /\ pc = "survey" /\ Goto("wipe")
    /\ kept' = {i \in Iface : Busy(i)}
    /\ UNCHANGED <<disk, kernel, proc, targets, child, left, unseen, sweep, torn, watch, faults, orphans>>

\* A mutant: the subnet of a busy namespace is known from its bindings only.
KeptSubnets_BindingsOnly == {b.subnet : b \in {o \in bindings : o.iface \in kept}}

KeptSubnets == {b.subnet : b \in {o \in bindings : o.iface \in kept}} \cup
               {subnets[i] : i \in {j \in kept : Recorded(j)}}

\* The subnets whose rule or table belongs to an interface in F.
SubnetsOf(F) == {s \in Subnet : table[s] \in F \/ \E i \in F : subnets[i] = s}

\* reset flushes the tables of the rules it finds and of the bindings it
\* drops; a table that neither names is overlooked.
Overlooked == {s \in Subnet \ (KeptSubnets \cup rule) :
                  \A b \in bindings : b.iface \notin kept => b.subnet # s}

\* Everything else not kept is found by its name and removed; of the
\* interfaces in F only the pieces in R come off.
Wipe(F, R) ==
    /\ ns' = {i \in ns : i \in kept \/ (i \in F /\ "ns" \notin R)}
    /\ veth' = {v \in veth : v[1] \in kept \/ (v[1] \in F /\ {"ns", "veth"} \cap R = {})}
    /\ nat' = {n \in nat : n[2] \in KeptSubnets \/ (n[1] \in F /\ "nat" \notin R)}
    /\ rule' = {s \in rule : s \in KeptSubnets \/ (s \in SubnetsOf(F) /\ "rule" \notin R)}
    /\ table' = [s \in Subnet |->
                   IF \/ s \in KeptSubnets \cup Overlooked
                      \/ s \in SubnetsOf(F) /\ "table" \notin R
                   THEN table[s] ELSE None]

\* reset passes over every failure.
Reset ==
    /\ pc = "wipe"
    /\ \E F \in SUBSET (TeardownFails \ kept) : \E R \in Outcomes(F) :
          LET failed == Failed(F, SubnetsOf(F), R) IN
          /\ Wipe(F, R)
          /\ Forsake([failed EXCEPT !.table = @ \cup Overlooked])
    /\ bindings' = {b \in bindings : b.iface \in kept}
    /\ ForgetIfaces(Iface \ kept)
    /\ Release
    /\ UNCHANGED <<proc, watch, faults>>

-----------------------------------------------------------------------------
(* The world around the operations *)

\* A number is free for a new process once the one it belonged to is reaped.
FreePid(p) == ~Alive(p) /\ p # child

\* The user starts the application outside InterMux.
StartOnHost(p, a) ==
    /\ FreePid(p)
    /\ proc' = [proc EXCEPT ![p] = [at |-> Host, app |-> a, parent |-> None]]
    /\ UNCHANGED <<disk, kernel, pc, job, memory, watch, faults, orphans>>

Fork(p, q) ==
    /\ Alive(p) /\ FreePid(q)
    /\ proc' = [proc EXCEPT ![q] = [proc[p] EXCEPT !.parent = p]]
    /\ UNCHANGED <<disk, kernel, pc, job, memory, watch, faults, orphans>>

\* A process exits, asked to or not; init adopts its children.
Exit(p) ==
    /\ Alive(p)
    /\ proc' = [q \in Pid |-> IF q = p THEN None
                              ELSE IF Alive(q) /\ proc[q].parent = p
                              THEN [proc[q] EXCEPT !.parent = None]
                              ELSE proc[q]]
    /\ UNCHANGED <<disk, kernel, pc, job, memory, watch, faults, orphans>>

\* The watcher's check, without the lock.
WatchCheck ==
    /\ watch = "asleep" /\ job.op # "watch"
    /\ NeedsTeardown
    /\ watch' = "wants"
    /\ UNCHANGED <<disk, kernel, proc, pc, job, memory, faults, orphans>>

Fault == faults < MaxFaults /\ faults' = faults + 1

\* The process of the operation is killed, or the save it was about to make
\* fails; the kernel drops its lock.
Crash ==
    /\ Fault /\ pc # "free"
    /\ Release
    /\ UNCHANGED <<disk, kernel, proc, watch, orphans>>

\* The same, between two steps of a removal.
CrashInTeardown ==
    /\ Fault
    /\ \/ \E i \in Iface : \E R \in Interrupted({i}, TeardownOrder) :
             TeardownDue(i) /\ RemovePlumbing(i, subnets[i], R)
       \/ \E F \in SUBSET Iface, order \in {TeardownOrder, ResetOrder} :
             \E R \in Interrupted(F, order) : pc = "wipe" /\ Wipe(F, R)
    /\ Forsake(NoPieces)
    /\ Release
    /\ UNCHANGED <<disk, proc, watch>>

\* The machine restarts: only the state file is left.
Reboot ==
    /\ Fault
    /\ ns' = {} /\ veth' = {} /\ nat' = {} /\ rule' = {}
    /\ table' = [s \in Subnet |-> None]
    /\ orphans' = NoPieces
    /\ proc' = [p \in Pid |-> None]
    /\ watch' = "asleep"
    /\ Release
    /\ UNCHANGED disk

\* load_state moves a file it cannot read aside and goes on with an empty
\* state; the records of everything that is up are lost.
LoseState ==
    /\ MayLoseState /\ Fault /\ pc = "free"
    /\ subnets' = [i \in Iface |-> None]
    /\ bindings' = {} /\ settings' = {}
    /\ orphans' = [ns |-> ns, veth |-> veth, nat |-> nat, rule |-> rule, table |-> Tabled]
    /\ UNCHANGED <<kernel, proc, pc, job, memory, watch>>

-----------------------------------------------------------------------------
NewRequest ==
    \/ \E i \in Iface, a \in App, how \in Policies : BindRequest(i, a, how)
    \/ \E b \in bindings, how \in {"ask", "separate"} : RestartRequest(b, how)
    \/ \E b \in bindings, to \in Iface, how \in {"ask", "separate"} : MoveRequest(b, to, how)
    \/ \E i \in Iface : RemoveRequest(i)
    \/ \E i \in Iface, byHand \in BOOLEAN : SetSettings(i, byHand)
    \/ ResetRequest
    \/ TeardownRequest

\* What an operation that holds the lock does next.
Work ==
    \/ Closed \/ NotClosed \/ Plumb
    \/ LaunchFails \/ (\E p \in Pid : Launch(p)) \/ RecordBinding \/ LaunchExited
    \/ Rollback \/ DropMoved \/ Remove
    \/ (\E b \in unseen : Examine(b)) \/ Examined
    \/ (\E i \in sweep : SweepIface(i)) \/ Swept
    \/ Survey \/ Reset

Processes ==
    \/ \E p \in Pid, a \in App : StartOnHost(p, a)
    \/ \E p, q \in Pid : Fork(p, q)
    \/ \E p \in Pid : Exit(p)

Faults == Crash \/ CrashInTeardown \/ Reboot \/ LoseState

Next == NewRequest \/ WatchTeardown \/ Work \/ Processes \/ WatchCheck \/ Faults

Spec == Init /\ [][Next]_vars

\* Operations go on until they release the lock; the watcher checks again and
\* again, and a process that waits for the lock is not passed over for ever.
Fairness == WF_vars(Work) /\ WF_vars(WatchCheck) /\ SF_vars(WatchTeardown)

FairSpec == Spec /\ Fairness

=============================================================================
