--------------------------- MODULE BindingsProps ---------------------------
(* What is claimed of Bindings. *)
EXTENDS Bindings

\* No two interfaces are given the same subnet: pick_subnet avoids what the
\* state records and what the links carry, under the lock (engine.bind).
DistinctSubnets ==
    \A i, j \in Iface : i # j /\ Recorded(i) => subnets[i] # subnets[j]

\* An application has one binding on an interface however often it is bound,
\* restarted or moved there.
OneBindingPerApp ==
    \A b, c \in bindings : b.iface = c.iface /\ b.app = c.app => b = c

\* status and reset read the subnet of a binding from the binding, the watcher
\* and refresh_routes read it from the record of the interface: the two agree.
BindingAgreesWithRecord == \A b \in bindings : subnets[b.iface] = b.subnet

\* "Drop everything kept per interface once its namespace is gone"
\* (State.forget_iface): settings never outlive the record of the interface,
\* so a later namespace does not start with the settings of an earlier one.
SettingsNeedRecord == \A i \in settings : Recorded(i)

\* The records of the state file agree with each other in every state that the
\* lock lets an operation, the watcher or the window read: one binding for an
\* application and interface, on the subnet of its interface, and no setting
\* without the record it belongs to (State, written by eight operations).
RecordsConsistent ==
    /\ TypeOK
    /\ OneBindingPerApp
    /\ BindingAgreesWithRecord
    /\ SettingsNeedRecord

\* The records name every piece that exists, but for those in o.
Accounted(o) ==
    /\ \A i \in ns \ o.ns : Recorded(i)
    /\ \A v \in veth \ o.veth : subnets[v[1]] = v[2]
    /\ \A n \in nat \ o.nat : subnets[n[1]] = n[2]
    /\ \A s \in rule \ o.rule : \E i \in Iface : subnets[i] = s
    /\ \A s \in Tabled \ o.table : subnets[table[s]] = s

\* "Record the subnet before building anything so a failure can always be
\* found and torn down" (engine.bind): whatever crashes or fails, the state
\* file names every namespace, link, NAT rule, policy rule and table that
\* exists, except the very pieces whose removal failed in a place that drops
\* the record all the same, and the tables reset overlooks.  A teardown that
\* raises (remove, watcher) may only leave a NAT or a policy rule that way.
Recoverable == Accounted(orphans)

\* The same without the exceptions.
AlwaysRecoverable == Accounted(NoPieces)

Routed(i) == /\ i \in ns /\ Recorded(i)
             /\ <<i, subnets[i]>> \in veth /\ <<i, subnets[i]>> \in nat
             /\ subnets[i] \in rule /\ table[subnets[i]] = i

\* An application that runs in a namespace always has the whole of its
\* plumbing under it: no operation, watcher pass, failed launch, crash or
\* reset of another application's takes the link, the NAT rule or the policy
\* away from a process that still runs.
RunningIsRouted == \A i \in Iface : InNetns(i) # {} => Routed(i)

\* teardown_idle drops the bindings of a namespace one by one; as long as
\* something runs in it, one of them is left to account for it.
BusyKeepsBinding ==
    [][job.op \in {"teardown", "watch"} =>
         \A b \in bindings \ bindings' : Busy(b.iface) => Bound(b.iface, bindings')]_vars

Connected(i) == i \in ns /\ \E s \in Subnet : /\ <<i, s>> \in veth /\ <<i, s>> \in nat
                                              /\ s \in rule /\ table[s] = i

\* reset: "A busy namespace keeps its plumbing even when no binding records it
\* (state lost, launch interrupted)".  Were its policy rule to go, the
\* namespace's packets would leave by the main table.
ResetKeepsBusyPlumbing ==
    [][pc = "wipe" /\ pc' = "free" /\ UNCHANGED <<proc, faults>> =>
         \A i \in Iface : Busy(i) /\ Connected(i) => Connected(i)']_vars

\* Routing "is reset automatically": an interface nothing runs on is forgotten
\* by the watcher, unless something starts to run on it again.
IdleIsReclaimed ==
    \A i \in Iface : (Recorded(i) /\ ~Busy(i)) ~> (~Recorded(i) \/ Busy(i))

\* "When the last process of a bound application exits, a background watcher
\* removes the plumbing for that binding" (README.md): once the user leaves
\* everything alone, also while the removal of another interface fails.
OthersReclaimed ==
    <>[][~NewRequest /\ ~Processes]_vars =>
        \A i \in Iface \ TeardownFails : (i \in ns /\ ~Busy(i)) ~> (i \notin ns \/ Busy(i))

\* What a pass of teardown_idle would drop if it ran now.
WouldDrop(b) == /\ ~BindingLive(b, bindings)

\* needs_teardown: "True when a pass of teardown_idle would change something".
CheckMissesNothing ==
    pc = "free" /\ (\E b \in bindings : WouldDrop(b)) => NeedsTeardown

\* The watcher "only removes bindings whose namespace has no processes left".
OnlyEmptyBindingsDropped ==
    [][job.op = "watch" => \A b \in bindings \ bindings' : ~Busy(b.iface)]_vars

\* The promise of the binding manager (Leases).
Promise == INSTANCE Leases WITH lease <- subnets,
                                tenants <- [i \in Iface |-> InNetns(i)]
KeepsPromise == Promise!LeaseSpec
=============================================================================
