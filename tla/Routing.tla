------------------------------- MODULE Routing -------------------------------
(***************************************************************************)
(* How the packets of a namespace leave the host: the ip rule and routing  *)
(* table of its subnet (system/routing.py), the NAT and forwarding rules   *)
(* and firewalld's zones (system/firewall.py), built by a bind and kept up *)
(* by the watcher (engine.refresh_routes) while links go and come, gateways*)
(* change and firewalls are reloaded.                                      *)
(*                                                                         *)
(* Each interface has the subnet, and so the rule and the table, that the  *)
(* module Bindings gives it; here both bear the interface's name.          *)
(***************************************************************************)
EXTENDS Naturals

CONSTANTS
    Iface, Gateway,
    None,
    Blocked,        \* where packets go that the unreachable route stops
    Failing,        \* the steps whose commands may fail
    MaxFaults       \* bound on failures, crashes and disturbances

ASSUME NullIsNew == None \notin Iface \cup Gateway /\ Blocked \notin Iface \cup {None}
ASSUME BoundIsRight == MaxFaults \in Nat

VARIABLES
    recorded,       \* interfaces with a subnet in the state file
    app,            \* interfaces in whose namespace an application runs
    \* the kernel
    link,           \* the gateway of each interface, None while it is not bindable
    veth,           \* interfaces whose veth pair exists
    rule,           \* interfaces with their from-subnet rule
    table,          \* the routing table of each interface
    filter,         \* the iptables rules of each interface
    trusted,        \* interfaces whose veth is in firewalld's trusted zone
    forwarding,     \* net.ipv4.ip_forward
    \* the operation that holds the state lock
    op,             \* "none", "bind" or "refresh"
    step,           \* what it does next
    at,             \* the interface it works on
    seen,           \* the links as it has read them
    full,           \* whether it looks at the firewall too
    todo,           \* the interfaces it has not come to
    \* the watcher and the environment
    due,            \* a minute has passed since the last full refresh
    faults

kernel == <<link, veth, rule, table, filter, trusted, forwarding>>
memory == <<op, step, at, seen, full, todo>>
vars == <<recorded, app, kernel, memory, due, faults>>

NatRules == {"masquerade", "out", "back"}
\* The subnet on the veth, the default by the interface (metric 100), the
\* unreachable default (metric 1000), and a default an older version left
\* there without a metric: the interface it leads to.
Table == [local : BOOLEAN, uplink : Gateway \cup {None}, fallback : BOOLEAN,
          old : Iface \cup {None}]
NoTable == [local |-> FALSE, uplink |-> None, fallback |-> FALSE, old |-> None]
Links == [Iface -> Gateway \cup {None}]
Steps == {"idle", "veth", "forward", "nat", "trust", "look", "local", "default",
          "fallback", "stray", "rule", "launch", "rollback"}

\* Every variable holds a value of its kind.
TypeOK ==
    /\ recorded \subseteq Iface /\ app \subseteq Iface
    /\ link \in Links /\ veth \subseteq Iface /\ rule \subseteq Iface
    /\ table \in [Iface -> Table]
    /\ filter \in [Iface -> SUBSET NatRules]
    /\ trusted \subseteq Iface /\ forwarding \in BOOLEAN
    /\ op \in {"none", "bind", "refresh"} /\ step \in Steps
    /\ at \in Iface \cup {None} /\ seen \in Links /\ full \in BOOLEAN
    /\ todo \subseteq Iface
    /\ due \in BOOLEAN /\ faults \in 0..MaxFaults

Init ==
    /\ recorded = {} /\ app = {}
    /\ link \in Links /\ veth = {} /\ rule = {}
    /\ \E old \in [Iface -> Iface \cup {None}] :
          table = [i \in Iface |-> [NoTable EXCEPT !.old = old[i]]]
    /\ filter = [i \in Iface |-> {}] /\ trusted = {} /\ forwarding = FALSE
    /\ op = "none" /\ step = "idle" /\ at = None /\ seen = link
    /\ full = FALSE /\ todo = {}
    /\ due = TRUE /\ faults = 0

-----------------------------------------------------------------------------
(* What the kernel does with a packet of the namespace of i. *)

\* The default with the lowest metric; without a rule or a default the main
\* table of the host decides (None).
Egress(i) ==
    CASE i \notin rule             -> None
      [] table[i].old # None       -> table[i].old
      [] table[i].uplink # None    -> i
      [] table[i].fallback         -> Blocked
      [] OTHER                     -> None

\* policy_table_ok: the table holds the routes ensure_policy adds and no other.
TableOk(i) == table[i] = [local |-> TRUE, uplink |-> seen[i], fallback |-> TRUE, old |-> None]

\* Packets leave by the link as it is now, and answers come back.
Connected(i) ==
    /\ Egress(i) = i /\ table[i].uplink = link[i]
    /\ filter[i] = NatRules /\ i \in trusted /\ forwarding

-----------------------------------------------------------------------------
(* The steps of an operation. *)

Goto(next) == step' = next /\ UNCHANGED <<op, at, seen, full, todo>>
Put(routes) == table' = [table EXCEPT ![at] = routes]
Fault == faults < MaxFaults /\ faults' = faults + 1
May(name) == name \in Failing /\ Fault

\* The operation ends and gives the lock back.
Release ==
    /\ op' = "none" /\ step' = "idle" /\ at' = None /\ full' = FALSE /\ todo' = {}
    /\ UNCHANGED seen

\* refresh_routes goes to the next interface that is up.
NextIface(left) ==
    LET live == {i \in left : seen[i] # None}
    IN IF live = {}
         THEN Release
         ELSE \E i \in live : /\ at' = i /\ todo' = left \ {i}
                              /\ step' = IF full /\ i \in veth THEN "forward" ELSE "look"
                              /\ UNCHANGED <<op, seen, full>>

\* A command that raises: a bind rolls back, a refresh leaves the interface.
Raise == IF op = "bind" THEN Goto("rollback") ELSE NextIface(todo)

\* bind, up to the plumbing: the subnet is recorded first.
BindRequest(i) ==
    /\ op = "none" /\ link[i] # None
    /\ recorded' = recorded \cup {i}
    /\ op' = "bind" /\ at' = i /\ step' = "veth" /\ seen' = link
    /\ UNCHANGED <<app, kernel, full, todo, due, faults>>

\* ensure_veth
MakeVeth ==
    /\ step = "veth"
    /\ \/ veth' = veth \cup {at} /\ Goto("forward") /\ UNCHANGED faults
       \/ May("veth") /\ Raise /\ UNCHANGED veth
    /\ UNCHANGED <<recorded, app, link, rule, table, filter, trusted, forwarding, due>>

\* enable_forwarding; a refresh passes over a failure.
Forward ==
    /\ step = "forward"
    /\ \/ forwarding' = TRUE /\ Goto("nat") /\ UNCHANGED faults
       \/ /\ May("forward")
          /\ IF op = "bind" THEN Raise ELSE Goto("nat")
          /\ UNCHANGED forwarding
    /\ UNCHANGED <<recorded, app, link, veth, rule, table, filter, trusted, due>>

\* ensure_nat adds what is missing, in order, up to a command that fails.
EnsureNat ==
    /\ step = "nat"
    /\ \/ filter' = [filter EXCEPT ![at] = NatRules] /\ Goto("trust") /\ UNCHANGED faults
       \/ /\ May("nat")
          /\ \E done \in {{}, {"masquerade"}, {"masquerade", "out"}} :
                filter' = [filter EXCEPT ![at] = @ \cup done]
          /\ IF op = "bind" THEN Raise ELSE Goto("trust")
    /\ UNCHANGED <<recorded, app, link, veth, rule, table, trusted, forwarding, due>>

\* trust_veth; a refusal is a warning.
TrustVeth ==
    /\ step = "trust"
    /\ \/ trusted' = trusted \cup {at} /\ UNCHANGED faults
       \/ May("trust") /\ UNCHANGED trusted
    /\ Goto(IF op = "bind" THEN "local" ELSE "look")
    /\ UNCHANGED <<recorded, app, link, veth, rule, table, filter, forwarding, due>>

\* Mutant: the default by the interface is all that is looked for.
NeedsPolicy_UplinkOnly == table[at].uplink = None

\* policy_route_present decides whether a refresh touches the table.
NeedsPolicy == ~TableOk(at)

Look ==
    /\ step = "look"
    /\ IF NeedsPolicy THEN Goto("local") ELSE NextIface(todo)
    /\ UNCHANGED <<recorded, app, kernel, due, faults>>

-----------------------------------------------------------------------------
(* ensure_policy *)

LocalRoute ==
    /\ step = "local"
    /\ \/ at \in veth /\ Put([table[at] EXCEPT !.local = TRUE]) /\ Goto("default") /\ UNCHANGED faults
       \/ at \notin veth /\ Raise /\ UNCHANGED <<table, faults>>
       \/ May("local") /\ Raise /\ UNCHANGED table
    /\ UNCHANGED <<recorded, app, link, veth, rule, filter, trusted, forwarding, due>>

\* The gateway is the one that was read; the kernel refuses a link that is
\* down and may refuse a gateway that is no longer on the link.
DefaultRoute ==
    /\ step = "default"
    /\ \/ link[at] # None /\ Put([table[at] EXCEPT !.uplink = seen[at]]) /\ Goto("fallback") /\ UNCHANGED faults
       \/ link[at] # seen[at] /\ Raise /\ UNCHANGED <<table, faults>>
       \/ May("default") /\ Raise /\ UNCHANGED table
    /\ UNCHANGED <<recorded, app, link, veth, rule, filter, trusted, forwarding, due>>

FallbackRoute ==
    /\ step = "fallback"
    /\ \/ Put([table[at] EXCEPT !.fallback = TRUE]) /\ Goto("stray") /\ UNCHANGED faults
       \/ May("fallback") /\ Raise /\ UNCHANGED table
    /\ UNCHANGED <<recorded, app, link, veth, rule, filter, trusted, forwarding, due>>

\* Mutant: what an older version left in the table stays.
StrayRoutes_Stay ==
    /\ step = "stray" /\ Goto("rule")
    /\ UNCHANGED <<recorded, app, kernel, due, faults>>

\* A stray route that cannot be listed or deleted is passed over.
StrayRoutes ==
    /\ step = "stray"
    /\ \/ Put([table[at] EXCEPT !.old = None]) /\ UNCHANGED faults
       \/ May("stray") /\ UNCHANGED table
    /\ Goto("rule")
    /\ UNCHANGED <<recorded, app, link, veth, rule, filter, trusted, forwarding, due>>

AddRule ==
    /\ step = "rule"
    /\ \/ /\ rule' = rule \cup {at} /\ UNCHANGED faults
          /\ IF op = "bind" THEN Goto("launch") ELSE NextIface(todo)
       \/ May("rule") /\ Raise /\ UNCHANGED rule
    /\ UNCHANGED <<recorded, app, link, veth, table, filter, trusted, forwarding, due>>

Launch ==
    /\ step = "launch"
    /\ \/ app' = app \cup {at} /\ Release /\ UNCHANGED faults
       \/ May("launch") /\ Raise /\ UNCHANGED app
    /\ UNCHANGED <<recorded, kernel, due>>

-----------------------------------------------------------------------------
(* Removal *)

\* The steps of _teardown_plumbing, those of which that report a failure, and
\* the sets of steps that may succeed.
Removals == {"unnat", "unrule", "flush", "untrust", "unveth"}
Reported == {"flush", "unveth"}
Outcomes == {R \in SUBSET Removals : Removals \ R \subseteq Failing}

\* Mutant: the NAT rules are left.
Remove_KeepsNat(i, R) ==
    /\ rule' = IF "unrule" \in R THEN rule \ {i} ELSE rule
    /\ table' = IF "flush" \in R THEN [table EXCEPT ![i] = NoTable] ELSE table
    /\ trusted' = IF "untrust" \in R THEN trusted \ {i} ELSE trusted
    /\ veth' = IF "unveth" \in R THEN veth \ {i} ELSE veth
    /\ UNCHANGED <<filter, link, forwarding>>

\* remove_nat, remove_policy, untrust_veth, delete_veth
Remove(i, R) ==
    /\ filter' = IF "unnat" \in R THEN [filter EXCEPT ![i] = {}] ELSE filter
    /\ rule' = IF "unrule" \in R THEN rule \ {i} ELSE rule
    /\ table' = IF "flush" \in R THEN [table EXCEPT ![i] = NoTable] ELSE table
    /\ trusted' = IF "untrust" \in R THEN trusted \ {i} ELSE trusted
    /\ veth' = IF "unveth" \in R THEN veth \ {i} ELSE veth
    /\ UNCHANGED <<link, forwarding>>

\* teardown_idle and remove_namespace, once nothing runs in the namespace: the
\* record goes when no step has reported a failure.
Teardown(i) ==
    /\ op = "none" /\ i \in recorded /\ i \notin app
    /\ \E R \in Outcomes :
          /\ Remove(i, R)
          /\ recorded' = IF Reported \subseteq R THEN recorded \ {i} ELSE recorded
          /\ IF R = Removals THEN UNCHANGED faults ELSE Fault
    /\ UNCHANGED <<app, memory, due>>

\* _rollback_bind: nothing when an application uses the namespace, or when a
\* binding of one that has ended is still recorded (the bindings are kept in
\* the module Bindings: here there may be one or not); what fails is passed over.
Rollback ==
    /\ step = "rollback"
    /\ \/ UNCHANGED <<recorded, kernel, faults>>
       \/ /\ at \notin app
          /\ \E R \in Outcomes : /\ Remove(at, R)
                                 /\ IF R = Removals THEN UNCHANGED faults ELSE Fault
          /\ recorded' = recorded \ {at}
    /\ Release
    /\ UNCHANGED <<app, due>>

-----------------------------------------------------------------------------
(* The watcher: _refresh_routes and refresh_routes *)

\* The time of the full refresh is noted before anything is done.
RefreshRequest ==
    /\ op = "none" /\ recorded # {}
    /\ due' = FALSE
    /\ \/ /\ seen' = link /\ full' = due /\ op' = "refresh"
          /\ LET live == {i \in recorded : link[i] # None}
             IN /\ live # {}
                /\ \E i \in live :
                      /\ at' = i /\ todo' = recorded \ {i}
                      /\ step' = IF due /\ i \in veth THEN "forward" ELSE "look"
          /\ UNCHANGED faults
       \/ May("list") /\ UNCHANGED memory
       \/ (\A i \in recorded : link[i] = None) /\ UNCHANGED <<memory, faults>>
    /\ UNCHANGED <<recorded, app, kernel>>

Minute ==
    /\ ~due /\ due' = TRUE
    /\ UNCHANGED <<recorded, app, kernel, memory, faults>>

-----------------------------------------------------------------------------
(* The environment *)

\* The kernel drops the routes of a link that goes down.
LinkDown(i) ==
    /\ link[i] # None /\ Fault
    /\ link' = [link EXCEPT ![i] = None]
    /\ table' = [j \in Iface |->
          [table[j] EXCEPT !.uplink = IF j = i THEN None ELSE @, !.old = IF @ = i THEN None ELSE @]]
    /\ UNCHANGED <<recorded, app, veth, rule, filter, trusted, forwarding, memory, due>>

LinkUp(i, g) ==
    /\ link[i] = None
    /\ link' = [link EXCEPT ![i] = g]
    /\ UNCHANGED <<recorded, app, veth, rule, table, filter, trusted, forwarding, memory, due, faults>>

\* A new lease: another gateway on the same link.
Roam(i, g) ==
    /\ link[i] \notin {None, g} /\ Fault
    /\ link' = [link EXCEPT ![i] = g]
    /\ UNCHANGED <<recorded, app, veth, rule, table, filter, trusted, forwarding, memory, due>>

FirewallReload ==
    /\ Fault
    /\ \/ filter' = [i \in Iface |-> {}] /\ UNCHANGED <<trusted, forwarding>>
       \/ trusted' = {} /\ UNCHANGED <<filter, forwarding>>
       \/ forwarding' = FALSE /\ UNCHANGED <<filter, trusted>>
    /\ UNCHANGED <<recorded, app, link, veth, rule, table, memory, due>>

AppExit(i) ==
    /\ i \in app /\ app' = app \ {i}
    /\ UNCHANGED <<recorded, kernel, memory, due, faults>>

\* The process that holds the lock dies.
Crash ==
    /\ op # "none" /\ Fault /\ Release
    /\ UNCHANGED <<recorded, app, kernel, due>>

Reboot ==
    /\ Fault /\ Release
    /\ app' = {} /\ veth' = {} /\ rule' = {} /\ trusted' = {} /\ forwarding' = FALSE
    /\ table' = [i \in Iface |-> NoTable] /\ filter' = [i \in Iface |-> {}]
    /\ due' = TRUE
    /\ UNCHANGED <<recorded, link>>

Operation ==
    \/ MakeVeth \/ Forward \/ EnsureNat \/ TrustVeth \/ Look
    \/ LocalRoute \/ DefaultRoute \/ FallbackRoute \/ StrayRoutes \/ AddRule
    \/ Launch \/ Rollback

Environment ==
    \/ \E i \in Iface, g \in Gateway : LinkUp(i, g) \/ Roam(i, g)
    \/ \E i \in Iface : LinkDown(i) \/ AppExit(i)
    \/ FirewallReload \/ Crash \/ Reboot

Next ==
    \/ \E i \in Iface : BindRequest(i) \/ Teardown(i)
    \/ RefreshRequest \/ Operation \/ Minute \/ Environment

Spec == Init /\ [][Next]_vars

\* An operation goes on, the watcher wakes every few seconds and takes its turn
\* at the lock, and minutes pass.
Fairness ==
    /\ WF_vars(Operation) /\ SF_vars(RefreshRequest) /\ SF_vars(Minute)

FairSpec == Spec /\ Fairness
=============================================================================
