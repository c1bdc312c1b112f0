---------------------------- MODULE Routing_proofs ----------------------------
(***************************************************************************)
(* Theorems about the routing of a namespace, for any interfaces, gateways *)
(* and number of faults: its packets leave by its interface or not at all, *)
(* and what is forgotten is gone.                                          *)
(***************************************************************************)
EXTENDS RoutingProps, TLAPS

Memory ==
    /\ op \in {"none", "bind", "refresh"} /\ step \in Steps
    /\ at \in Iface \cup {None} /\ seen \in Links /\ full \in BOOLEAN
    /\ todo \subseteq Iface

Types ==
    /\ recorded \subseteq Iface /\ app \subseteq Iface
    /\ link \in Links /\ veth \subseteq Iface /\ rule \subseteq Iface
    /\ table \in [Iface -> Table]
    /\ filter \in [Iface -> SUBSET NatRules]
    /\ trusted \subseteq Iface /\ forwarding \in BOOLEAN
    /\ due \in BOOLEAN
    /\ Memory

Count == faults \in 0..MaxFaults

\* An operation is about an interface that is recorded, and so are those that a
\* refresh has not come to.
OfRecord ==
    /\ op = "none" <=> step = "idle"
    /\ op # "none" => at \in recorded
    /\ todo \subseteq recorded /\ (op = "none" => todo = {})

Building == {"veth", "forward", "nat", "trust", "local", "default", "fallback", "stray",
             "rule", "launch", "look"}

LEMMA NoTableIsTable == NoTable \in Table
  BY DEF NoTable, Table

LEMMA TypesInit == Init => Types /\ OfRecord
<1> SUFFICES ASSUME Init PROVE Types /\ OfRecord OBVIOUS
<1>1. table \in [Iface -> Table]
  <2>1. PICK old \in [Iface -> Iface \cup {None}] :
           table = [i \in Iface |-> [NoTable EXCEPT !.old = old[i]]]
    BY DEF Init
  <2>2. ASSUME NEW i \in Iface PROVE [NoTable EXCEPT !.old = old[i]] \in Table
    BY DEF NoTable, Table
  <2> QED BY <2>1, <2>2
<1> QED BY <1>1 DEF Init, Types, Memory, OfRecord, Steps, Links

-----------------------------------------------------------------------------
(* How an operation goes on *)

LEMMA ReleaseMemory == Types /\ Release => Memory' /\ OfRecord'
  BY DEF Types, Memory, OfRecord, Release, Steps

LEMMA NextIfaceMemory ==
    ASSUME Types, OfRecord, op # "none", NextIface(todo), UNCHANGED recorded
    PROVE  Memory' /\ OfRecord' /\ step' \in {"idle", "forward", "look"}
<1> DEFINE live == {i \in todo : seen[i] # None}
<1>1. CASE live = {}
  <2>1. Release BY <1>1 DEF NextIface
  <2> QED BY <2>1, ReleaseMemory DEF Release
<1>2. CASE live # {}
  <2>1. PICK i \in live : /\ at' = i /\ todo' = todo \ {i}
                          /\ step' = IF full /\ i \in veth THEN "forward" ELSE "look"
                          /\ UNCHANGED <<op, seen, full>>
    BY <1>2 DEF NextIface
  <2> QED BY <2>1 DEF Types, Memory, OfRecord, Steps
<1> QED BY <1>1, <1>2

LEMMA GotoMemory ==
    ASSUME Types, OfRecord, op # "none", NEW s \in Building \cup {"rollback"}, Goto(s),
           UNCHANGED recorded
    PROVE  Memory' /\ OfRecord' /\ step' = s
  BY DEF Types, Memory, OfRecord, Goto, Building, Steps

LEMMA RaiseMemory ==
    ASSUME Types, OfRecord, op # "none", Raise, UNCHANGED recorded
    PROVE  Memory' /\ OfRecord' /\ step' \in {"idle", "forward", "look", "rollback"}
<1>1. CASE op = "bind"
  <2>1. Goto("rollback") BY <1>1 DEF Raise
  <2> QED BY <2>1, GotoMemory
<1>2. CASE op # "bind"
  <2>1. NextIface(todo) BY <1>2 DEF Raise
  <2> QED BY <2>1, NextIfaceMemory
<1> QED BY <1>1, <1>2

LEMMA BusyAt ==
    ASSUME Types, OfRecord, step # "idle"
    PROVE  at \in Iface /\ at \in recorded /\ op # "none"
  BY DEF Types, OfRecord

LEMMA PutTypes ==
    ASSUME Types, at \in Iface, NEW routes \in Table, Put(routes)
    PROVE  table' \in [Iface -> Table]
  BY DEF Types, Put

\* What each step of an operation leaves in the memory of its process, and that
\* it takes nothing out of the record but by a rollback.
LEMMA OperationMemory ==
    ASSUME Types, OfRecord, Operation
    PROVE  Memory' /\ OfRecord'
<1>1. CASE MakeVeth
  <2>1. op # "none" BY <1>1, BusyAt DEF MakeVeth
  <2> QED BY <1>1, <2>1, GotoMemory, RaiseMemory DEF MakeVeth, Building
<1>2. CASE Forward
  <2>1. op # "none" BY <1>2, BusyAt DEF Forward
  <2>2. Goto("nat") \/ Raise BY <1>2 DEF Forward
  <2> QED BY <1>2, <2>1, <2>2, GotoMemory, RaiseMemory DEF Forward, Building
<1>3. CASE EnsureNat
  <2>1. op # "none" BY <1>3, BusyAt DEF EnsureNat
  <2>2. Goto("trust") \/ Raise BY <1>3 DEF EnsureNat
  <2> QED BY <1>3, <2>1, <2>2, GotoMemory, RaiseMemory DEF EnsureNat, Building
<1>4. CASE TrustVeth
  <2>1. op # "none" BY <1>4, BusyAt DEF TrustVeth
  <2>2. Goto("local") \/ Goto("look") BY <1>4 DEF TrustVeth
  <2> QED BY <1>4, <2>1, <2>2, GotoMemory DEF TrustVeth, Building
<1>5. CASE Look
  <2>1. op # "none" BY <1>5, BusyAt DEF Look
  <2>2. Goto("local") \/ NextIface(todo) BY <1>5 DEF Look
  <2> QED BY <1>5, <2>1, <2>2, GotoMemory, NextIfaceMemory DEF Look, Building
<1>6. CASE LocalRoute
  <2>1. op # "none" BY <1>6, BusyAt DEF LocalRoute
  <2> QED BY <1>6, <2>1, GotoMemory, RaiseMemory DEF LocalRoute, Building
<1>7. CASE DefaultRoute
  <2>1. op # "none" BY <1>7, BusyAt DEF DefaultRoute
  <2> QED BY <1>7, <2>1, GotoMemory, RaiseMemory DEF DefaultRoute, Building
<1>8. CASE FallbackRoute
  <2>1. op # "none" BY <1>8, BusyAt DEF FallbackRoute
  <2> QED BY <1>8, <2>1, GotoMemory, RaiseMemory DEF FallbackRoute, Building
<1>9. CASE StrayRoutes
  <2>1. op # "none" BY <1>9, BusyAt DEF StrayRoutes
  <2> QED BY <1>9, <2>1, GotoMemory DEF StrayRoutes, Building
<1>10. CASE AddRule
  <2>1. op # "none" BY <1>10, BusyAt DEF AddRule
  <2>2. Goto("launch") \/ NextIface(todo) \/ Raise BY <1>10 DEF AddRule
  <2> QED BY <1>10, <2>1, <2>2, GotoMemory, NextIfaceMemory, RaiseMemory DEF AddRule, Building
<1>11. CASE Launch
  <2>1. op # "none" BY <1>11, BusyAt DEF Launch
  <2> QED BY <1>11, <2>1, ReleaseMemory, RaiseMemory DEF Launch
<1>12. CASE Rollback BY <1>12, ReleaseMemory DEF Rollback
<1> QED
  BY <1>1, <1>2, <1>3, <1>4, <1>5, <1>6, <1>7, <1>8, <1>9, <1>10, <1>11, <1>12 DEF Operation

-----------------------------------------------------------------------------
(* Types *)

LEMMA RemoveTypes ==
    ASSUME Types, NEW i \in Iface, NEW R, Remove(i, R)
    PROVE  /\ filter' \in [Iface -> SUBSET NatRules] /\ rule' \subseteq Iface
           /\ table' \in [Iface -> Table] /\ trusted' \subseteq Iface /\ veth' \subseteq Iface
           /\ UNCHANGED <<link, forwarding>>
  BY NoTableIsTable DEF Types, Remove

LEMMA OperationTypes ==
    ASSUME Types, OfRecord, Operation
    PROVE  Types'
<1> USE OperationMemory
<1>0. at \in Iface
  BY BusyAt DEF Operation, MakeVeth, Forward, EnsureNat, TrustVeth, Look, LocalRoute,
     DefaultRoute, FallbackRoute, StrayRoutes, AddRule, Launch, Rollback
<1>t. table[at] \in Table BY <1>0 DEF Types
<1>1. CASE MakeVeth BY <1>0, <1>1 DEF MakeVeth, Types
<1>2. CASE Forward BY <1>2 DEF Forward, Types
<1>3. CASE EnsureNat
  <2>1. filter' \in [Iface -> SUBSET NatRules] BY <1>0, <1>3 DEF EnsureNat, Types, NatRules
  <2> QED BY <1>3, <2>1 DEF EnsureNat, Types
<1>4. CASE TrustVeth BY <1>0, <1>4 DEF TrustVeth, Types
<1>5. CASE Look BY <1>5 DEF Look, Types, kernel
<1>6. CASE LocalRoute
  <2>1. [table[at] EXCEPT !.local = TRUE] \in Table BY <1>t DEF Table
  <2>2. table' \in [Iface -> Table]
    BY <1>0, <1>6, <2>1, PutTypes DEF LocalRoute, Types
  <2> QED BY <1>6, <2>2 DEF LocalRoute, Types
<1>7. CASE DefaultRoute
  <2>1. seen[at] \in Gateway \cup {None} BY <1>0 DEF Types, Memory, Links
  <2>2. [table[at] EXCEPT !.uplink = seen[at]] \in Table BY <1>t, <2>1 DEF Table
  <2>3. table' \in [Iface -> Table]
    BY <1>0, <1>7, <2>2, PutTypes DEF DefaultRoute, Types
  <2> QED BY <1>7, <2>3 DEF DefaultRoute, Types
<1>8. CASE FallbackRoute
  <2>1. [table[at] EXCEPT !.fallback = TRUE] \in Table BY <1>t DEF Table
  <2>2. table' \in [Iface -> Table]
    BY <1>0, <1>8, <2>1, PutTypes DEF FallbackRoute, Types
  <2> QED BY <1>8, <2>2 DEF FallbackRoute, Types
<1>9. CASE StrayRoutes
  <2>1. [table[at] EXCEPT !.old = None] \in Table BY <1>t DEF Table
  <2>2. table' \in [Iface -> Table]
    BY <1>0, <1>9, <2>1, PutTypes DEF StrayRoutes, Types
  <2> QED BY <1>9, <2>2 DEF StrayRoutes, Types
<1>10. CASE AddRule BY <1>0, <1>10 DEF AddRule, Types
<1>11. CASE Launch BY <1>0, <1>11 DEF Launch, Types, kernel
<1>12. CASE Rollback
  <2>0. UNCHANGED <<app, due>> BY <1>12 DEF Rollback
  <2>1. CASE UNCHANGED <<recorded, kernel>> BY <2>0, <2>1 DEF Types, kernel
  <2>2. CASE recorded' = recorded \ {at} /\ \E R \in Outcomes : Remove(at, R)
    BY <1>0, <2>0, <2>2, RemoveTypes DEF Types
  <2> QED BY <1>12, <2>1, <2>2 DEF Rollback
<1> QED
  BY <1>1, <1>2, <1>3, <1>4, <1>5, <1>6, <1>7, <1>8, <1>9, <1>10, <1>11, <1>12 DEF Operation

LEMMA RequestTypes ==
    ASSUME Types, OfRecord, RefreshRequest \/ Minute \/ \E i \in Iface : BindRequest(i) \/ Teardown(i)
    PROVE  Types' /\ OfRecord'
<1>1. ASSUME NEW i \in Iface, BindRequest(i) PROVE Types' /\ OfRecord'
  <2>1. Memory' /\ OfRecord' BY <1>1 DEF BindRequest, Types, Memory, OfRecord, Steps
  <2> QED BY <1>1, <2>1 DEF BindRequest, Types, kernel
<1>2. ASSUME NEW i \in Iface, Teardown(i) PROVE Types' /\ OfRecord'
  <2>1. PICK R \in Outcomes : Remove(i, R) BY <1>2 DEF Teardown
  <2>2. recorded' \subseteq recorded /\ UNCHANGED <<app, memory, due>> /\ op = "none" BY <1>2 DEF Teardown
  <2>3. Memory' BY <2>2 DEF Types, Memory, memory
  <2>4. OfRecord' BY <2>2 DEF OfRecord, memory
  <2> QED BY <2>1, <2>2, <2>3, <2>4, RemoveTypes DEF Types
<1>3. CASE RefreshRequest
  <2>1. UNCHANGED memory \/ \E i \in recorded :
           /\ seen' = link /\ full' = due /\ op' = "refresh" /\ at' = i /\ todo' = recorded \ {i}
           /\ step' = IF due /\ i \in veth THEN "forward" ELSE "look"
    BY <1>3 DEF RefreshRequest
  <2>2. UNCHANGED recorded BY <1>3 DEF RefreshRequest
  <2>3. Memory' /\ OfRecord'
    BY <2>1, <2>2 DEF Types, Memory, memory, OfRecord, Steps
  <2> QED BY <1>3, <2>3 DEF RefreshRequest, Types, kernel
<1>4. CASE Minute BY <1>4 DEF Minute, Types, kernel, memory, Memory, OfRecord
<1> QED BY <1>1, <1>2, <1>3, <1>4

LEMMA EnvironmentTypes ==
    ASSUME Types, OfRecord, Environment
    PROVE  Types' /\ OfRecord'
<1>m. ASSUME UNCHANGED <<memory, recorded>> PROVE Memory' /\ OfRecord'
  BY <1>m DEF Types, Memory, OfRecord, memory
<1>1. ASSUME NEW i \in Iface, NEW g \in Gateway, LinkUp(i, g) \/ Roam(i, g) PROVE Types' /\ OfRecord'
  <2>1. link' \in Links BY <1>1 DEF LinkUp, Roam, Types, Links
  <2> QED BY <1>1, <1>m, <2>1 DEF LinkUp, Roam, Types
<1>2. ASSUME NEW i \in Iface, LinkDown(i) PROVE Types' /\ OfRecord'
  <2>1. link' \in Links BY <1>2 DEF LinkDown, Types, Links
  <2>2. ASSUME NEW j \in Iface
        PROVE  [table[j] EXCEPT !.uplink = IF j = i THEN None ELSE @, !.old = IF @ = i THEN None ELSE @] \in Table
    BY DEF Types, Table
  <2>3. table' \in [Iface -> Table] BY <1>2, <2>2 DEF LinkDown
  <2> QED BY <1>2, <1>m, <2>1, <2>3 DEF LinkDown, Types
<1>3. ASSUME NEW i \in Iface, AppExit(i) PROVE Types' /\ OfRecord'
  BY <1>3, <1>m DEF AppExit, Types, kernel
<1>4. CASE FirewallReload BY <1>4, <1>m DEF FirewallReload, Types
<1>5. CASE Crash BY <1>5, ReleaseMemory DEF Crash, Types, kernel
<1>6. CASE Reboot BY <1>6, ReleaseMemory, NoTableIsTable DEF Reboot, Types
<1> QED BY <1>1, <1>2, <1>3, <1>4, <1>5, <1>6 DEF Environment

LEMMA TypesStep == Types /\ OfRecord /\ [Next]_vars => Types' /\ OfRecord'
<1>1. Types /\ OfRecord /\ UNCHANGED vars => Types' /\ OfRecord'
  BY DEF vars, kernel, memory, Types, Memory, OfRecord
<1> QED BY <1>1, OperationMemory, OperationTypes, RequestTypes, EnvironmentTypes DEF Next

LEMMA CountStep == Count /\ [Next]_vars => Count'
<1>1. Count /\ UNCHANGED faults => Count' BY DEF Count
<1>2. Count /\ Fault => Count' BY BoundIsRight DEF Count, Fault
<1>3. ASSUME Operation PROVE UNCHANGED faults \/ Fault
  BY <1>3, Zenon DEF Operation, MakeVeth, Forward, EnsureNat, TrustVeth, Look, LocalRoute,
     DefaultRoute, FallbackRoute, StrayRoutes, AddRule, Launch, Rollback, May
<1>4. ASSUME Environment PROVE UNCHANGED faults \/ Fault
  BY <1>4, Zenon DEF Environment, LinkUp, Roam, LinkDown, AppExit, FirewallReload, Crash, Reboot
<1>5. ASSUME RefreshRequest \/ Minute \/ \E i \in Iface : BindRequest(i) \/ Teardown(i)
      PROVE UNCHANGED faults \/ Fault
  BY <1>5, Zenon DEF RefreshRequest, Minute, BindRequest, Teardown, May
<1>6. UNCHANGED vars => UNCHANGED faults BY Zenon DEF vars
<1> QED BY <1>1, <1>2, <1>3, <1>4, <1>5, <1>6 DEF Next

\* Every variable holds a value of its kind, in every reachable state.
THEOREM TypeCorrect == Spec => []TypeOK
<1>1. Init => Count BY BoundIsRight DEF Init, Count
<1>2. Types /\ Count => TypeOK BY DEF Types, Memory, Count, TypeOK
<1> QED BY <1>1, <1>2, TypesInit, TypesStep, CountStep, PTL DEF Spec

-----------------------------------------------------------------------------
(* The kill switch *)

\* What an application has been started with stays; before it is started the
\* operation puts it there, in the order that follows.
Guarded ==
    /\ \A i \in app : i \in rule /\ table[i].fallback /\ table[i].old = None
    /\ step \in {"stray", "rule", "launch"} => table[at].fallback
    /\ step \in {"rule", "launch"} => table[at].old = None
    /\ step = "launch" => at \in rule

LEMMA GuardedIsRouted == Guarded => RoutedOrBlocked
  BY DEF Guarded, RoutedOrBlocked, Egress

LEMMA GuardedInit == Init => Guarded
  BY DEF Init, Guarded

\* A step that takes nothing from any table, and leads to none of the last steps.
LEMMA KeepsGuard ==
    ASSUME Guarded, app' \subseteq app, rule \subseteq rule',
           \A i \in app : table'[i].fallback = table[i].fallback /\ table'[i].old \in {None, table[i].old},
           step' \notin {"stray", "rule", "launch"}
    PROVE  Guarded'
  BY DEF Guarded

LEMMA RaiseStep ==
    ASSUME Types, OfRecord, op # "none", Raise \/ NextIface(todo), UNCHANGED recorded
    PROVE  step' \notin {"stray", "rule", "launch"}
  BY RaiseMemory, NextIfaceMemory

LEMMA OperationGuarded ==
    ASSUME "stray" \notin Failing, Types, OfRecord, Guarded, Operation
    PROVE  Guarded'
<1>0. at \in Iface /\ op # "none"
  BY BusyAt DEF Operation, MakeVeth, Forward, EnsureNat, TrustVeth, Look, LocalRoute,
     DefaultRoute, FallbackRoute, StrayRoutes, AddRule, Launch, Rollback
<1>t. table \in [Iface -> Table] /\ table[at] \in Table /\ app \subseteq Iface BY <1>0 DEF Types
<1>1. CASE MakeVeth
  <2>1. step' \notin {"stray", "rule", "launch"} BY <1>0, <1>1, RaiseStep DEF MakeVeth, Goto
  <2> QED BY <1>1, <2>1, KeepsGuard DEF MakeVeth
<1>2. CASE Forward
  <2>1. Goto("nat") \/ Raise BY <1>2 DEF Forward
  <2>2. step' \notin {"stray", "rule", "launch"} BY <1>0, <1>2, <2>1, RaiseStep DEF Forward, Goto
  <2> QED BY <1>2, <2>2, KeepsGuard DEF Forward
<1>3. CASE EnsureNat
  <2>1. Goto("trust") \/ Raise BY <1>3 DEF EnsureNat
  <2>2. step' \notin {"stray", "rule", "launch"} BY <1>0, <1>3, <2>1, RaiseStep DEF EnsureNat, Goto
  <2> QED BY <1>3, <2>2, KeepsGuard DEF EnsureNat
<1>4. CASE TrustVeth BY <1>4, KeepsGuard DEF TrustVeth, Goto
<1>5. CASE Look
  <2>1. Goto("local") \/ NextIface(todo) BY <1>5 DEF Look
  <2>2. step' \notin {"stray", "rule", "launch"} BY <1>0, <1>5, <2>1, RaiseStep DEF Look, Goto
  <2> QED BY <1>5, <2>2, KeepsGuard DEF Look, kernel
<1>6. CASE LocalRoute
  <2>1. step' \notin {"stray", "rule", "launch"} BY <1>0, <1>6, RaiseStep DEF LocalRoute, Goto
  <2>2. \A i \in Iface : table'[i].fallback = table[i].fallback /\ table'[i].old = table[i].old
    BY <1>6, <1>t DEF LocalRoute, Put, Table
  <2> QED BY <1>6, <1>t, <2>1, <2>2, KeepsGuard DEF LocalRoute
<1>7. CASE DefaultRoute
  <2>1. step' \notin {"stray", "rule", "launch"} BY <1>0, <1>7, RaiseStep DEF DefaultRoute, Goto
  <2>2. \A i \in Iface : table'[i].fallback = table[i].fallback /\ table'[i].old = table[i].old
    BY <1>7, <1>t DEF DefaultRoute, Put, Table
  <2> QED BY <1>7, <1>t, <2>1, <2>2, KeepsGuard DEF DefaultRoute
<1>8. CASE FallbackRoute
  <2>1. CASE Put([table[at] EXCEPT !.fallback = TRUE]) /\ Goto("stray")
    <3>1. \A i \in Iface : table'[i].old = table[i].old /\ (table[i].fallback => table'[i].fallback)
      BY <2>1, <1>t DEF Put, Table
    <3>2. table'[at].fallback BY <2>1, <1>0, <1>t DEF Put, Table
    <3>3. at' = at /\ step' = "stray" BY <2>1 DEF Goto
    <3>4. UNCHANGED <<app, rule>> BY <1>8 DEF FallbackRoute
    <3> QED BY <1>t, <3>1, <3>2, <3>3, <3>4 DEF Guarded
  <2>2. CASE Raise /\ UNCHANGED table
    <3>1. step' \notin {"stray", "rule", "launch"} BY <1>0, <1>8, <2>2, RaiseStep DEF FallbackRoute
    <3> QED BY <1>8, <2>2, <3>1, KeepsGuard DEF FallbackRoute
  <2> QED BY <1>8, <2>1, <2>2 DEF FallbackRoute
<1>9. CASE StrayRoutes
  <2>1. Put([table[at] EXCEPT !.old = None]) /\ Goto("rule") BY <1>9 DEF StrayRoutes, May
  <2>2. \A i \in Iface : table'[i].fallback = table[i].fallback /\ table'[i].old \in {None, table[i].old}
    BY <2>1, <1>t DEF Put, Table
  <2>3. table'[at].old = None BY <2>1, <1>0, <1>t DEF Put, Table
  <2>4. at' = at /\ step' = "rule" BY <2>1 DEF Goto
  <2>5. UNCHANGED <<app, rule>> /\ step = "stray" BY <1>9 DEF StrayRoutes
  <2> QED BY <1>0, <1>t, <2>2, <2>3, <2>4, <2>5 DEF Guarded
<1>10. CASE AddRule
  <2>1. CASE rule' = rule \cup {at} /\ Goto("launch")
    <3>1. at' = at /\ step' = "launch" BY <2>1 DEF Goto
    <3> QED BY <1>10, <2>1, <3>1 DEF AddRule, Guarded
  <2>2. CASE rule \subseteq rule' /\ (NextIface(todo) \/ Raise)
    <3>1. step' \notin {"stray", "rule", "launch"} BY <1>0, <1>10, <2>2, RaiseStep DEF AddRule
    <3> QED BY <1>10, <2>2, <3>1, KeepsGuard DEF AddRule
  <2> QED BY <1>10, <2>1, <2>2 DEF AddRule
<1>11. CASE Launch
  <2>1. CASE app' = app \cup {at} /\ Release
    BY <1>11, <2>1 DEF Launch, kernel, Release, Guarded
  <2>2. CASE Raise /\ UNCHANGED app
    <3>1. step' \notin {"stray", "rule", "launch"} BY <1>0, <1>11, <2>2, RaiseStep DEF Launch
    <3> QED BY <1>11, <2>2, <3>1, KeepsGuard DEF Launch, kernel
  <2> QED BY <1>11, <2>1, <2>2 DEF Launch
<1>12. CASE Rollback
  <2>0. step' = "idle" /\ UNCHANGED app BY <1>12 DEF Rollback, Release
  <2>1. CASE UNCHANGED kernel BY <2>0, <2>1, KeepsGuard DEF kernel
  <2>2. CASE at \notin app /\ \E R \in Outcomes : Remove(at, R)
    <3>1. PICK R \in Outcomes : Remove(at, R) BY <2>2
    <3>2. \A i \in app : i # at /\ (i \in rule => i \in rule') /\ table'[i] = table[i]
      BY <1>t, <2>2, <3>1 DEF Remove
    <3> QED BY <2>0, <3>2 DEF Guarded
  <2> QED BY <1>12, <2>1, <2>2 DEF Rollback
<1> QED
  BY <1>1, <1>2, <1>3, <1>4, <1>5, <1>6, <1>7, <1>8, <1>9, <1>10, <1>11, <1>12 DEF Operation

LEMMA RequestGuarded ==
    ASSUME Types, OfRecord, Guarded,
           RefreshRequest \/ Minute \/ \E i \in Iface : BindRequest(i) \/ Teardown(i)
    PROVE  Guarded'
<1>1. ASSUME NEW i \in Iface, BindRequest(i) PROVE Guarded'
  BY <1>1, KeepsGuard DEF BindRequest, kernel
<1>2. ASSUME NEW i \in Iface, Teardown(i) PROVE Guarded'
  <2>1. PICK R \in Outcomes : Remove(i, R) BY <1>2 DEF Teardown
  <2>2. step' = "idle" /\ app' = app /\ i \notin app BY <1>2 DEF Teardown, memory, OfRecord
  <2>3. \A j \in app : j # i /\ (j \in rule => j \in rule') /\ table'[j] = table[j]
    BY <2>1, <2>2 DEF Remove, Types
  <2> QED BY <2>2, <2>3 DEF Guarded
<1>3. CASE RefreshRequest
  <2>1. step' = step \/ step' \in {"forward", "look"} BY <1>3 DEF RefreshRequest, memory
  <2>2. op = "none" /\ UNCHANGED <<app, kernel>> BY <1>3 DEF RefreshRequest
  <2> QED BY <2>1, <2>2, KeepsGuard DEF OfRecord, kernel
<1>4. CASE Minute BY <1>4 DEF Minute, kernel, memory, Guarded
<1> QED BY <1>1, <1>2, <1>3, <1>4

LEMMA EnvironmentGuarded ==
    ASSUME Types, OfRecord, Guarded, Environment
    PROVE  Guarded'
<1>1. ASSUME NEW i \in Iface, NEW g \in Gateway, LinkUp(i, g) \/ Roam(i, g) PROVE Guarded'
  BY <1>1 DEF LinkUp, Roam, memory, Guarded
<1>2. ASSUME NEW i \in Iface, LinkDown(i) PROVE Guarded'
  <2>1. ASSUME NEW j \in Iface
        PROVE  table'[j].fallback = table[j].fallback /\ (table[j].old = None => table'[j].old = None)
    <3>1. table'[j] = [table[j] EXCEPT !.uplink = IF j = i THEN None ELSE @, !.old = IF @ = i THEN None ELSE @]
      BY <1>2 DEF LinkDown
    <3> QED BY <3>1 DEF Types, Table
  <2>2. UNCHANGED <<app, rule, step, at>> BY <1>2 DEF LinkDown, memory
  <2>3. step \in {"stray", "rule", "launch"} => at \in Iface BY BusyAt
  <2>4. app \subseteq Iface BY DEF Types
  <2> QED BY <2>1, <2>2, <2>3, <2>4 DEF Guarded
<1>3. ASSUME NEW i \in Iface, AppExit(i) PROVE Guarded'
  BY <1>3 DEF AppExit, kernel, memory, Guarded
<1>4. CASE FirewallReload BY <1>4 DEF FirewallReload, memory, Guarded
<1>5. CASE Crash BY <1>5 DEF Crash, Release, kernel, Guarded
<1>6. CASE Reboot BY <1>6 DEF Reboot, Release, Guarded
<1> QED BY <1>1, <1>2, <1>3, <1>4, <1>5, <1>6 DEF Environment

\* While the routes an older version left can be deleted, no packet of an
\* application leaves by another interface: not while its link is down, nor at
\* any step of a refresh, after a crash or when a command fails.
THEOREM AlwaysRoutedOrBlocked ==
    ASSUME "stray" \notin Failing
    PROVE  Spec => []RoutedOrBlocked
<1>1. Types /\ OfRecord /\ Guarded /\ [Next]_vars => Guarded'
  <2>1. Guarded /\ UNCHANGED vars => Guarded' BY DEF Guarded, vars, kernel, memory
  <2> QED BY <2>1, OperationGuarded, RequestGuarded, EnvironmentGuarded DEF Next
<1> QED BY <1>1, TypesInit, TypesStep, GuardedInit, GuardedIsRouted, PTL DEF Spec

-----------------------------------------------------------------------------
(* Nothing is left *)

LEMMA NothingLeftInit == Init => NothingLeft
<1> SUFFICES ASSUME Init PROVE NothingLeft OBVIOUS
<1>1. PICK old \in [Iface -> Iface \cup {None}] :
         table = [i \in Iface |-> [NoTable EXCEPT !.old = old[i]]]
  BY DEF Init
<1>2. ASSUME NEW i \in Iface PROVE ~table[i].local /\ ~table[i].fallback /\ table[i].uplink = None
  BY <1>1 DEF NoTable
<1> QED BY <1>2 DEF Init, NothingLeft

\* What an operation builds, it builds for an interface that is recorded.
LEMMA BuildsRecorded ==
    ASSUME Types, OfRecord, NothingLeft, UNCHANGED recorded, at \in recorded,
           veth' \subseteq veth \cup {at}, rule' \subseteq rule \cup {at},
           trusted' \subseteq trusted \cup {at},
           \A i \in Iface \ {at} : filter'[i] = filter[i] /\ table'[i] = table[i]
    PROVE  NothingLeft'
  BY DEF NothingLeft

LEMMA RemoveLeavesNothing ==
    ASSUME Types, NothingLeft, NEW i \in Iface, Remove(i, Removals), recorded' = recorded \ {i}
    PROVE  NothingLeft'
<1>1. /\ filter' = [filter EXCEPT ![i] = {}] /\ rule' = rule \ {i}
      /\ table' = [table EXCEPT ![i] = NoTable] /\ trusted' = trusted \ {i} /\ veth' = veth \ {i}
  BY DEF Remove, Removals
<1>2. ASSUME NEW j \in Iface \ recorded'
      PROVE  /\ j \notin rule' \cup trusted' \cup veth'
             /\ filter'[j] = {} /\ ~table'[j].local /\ ~table'[j].fallback /\ table'[j].uplink = None
  BY <1>1 DEF NothingLeft, Types, NoTable
<1> QED BY <1>2 DEF NothingLeft

LEMMA OperationLeaves ==
    ASSUME Failing \cap Removals = {}, Types, OfRecord, NothingLeft, Operation
    PROVE  NothingLeft'
<1>0. at \in Iface /\ at \in recorded
  BY BusyAt DEF Operation, MakeVeth, Forward, EnsureNat, TrustVeth, Look, LocalRoute,
     DefaultRoute, FallbackRoute, StrayRoutes, AddRule, Launch, Rollback
<1> USE <1>0, BuildsRecorded
<1>1. CASE MakeVeth BY <1>1 DEF MakeVeth, Types
<1>2. CASE Forward BY <1>2 DEF Forward
<1>3. CASE EnsureNat
  <2>1. \A i \in Iface \ {at} : filter'[i] = filter[i] BY <1>3 DEF EnsureNat, Types
  <2> QED BY <1>3, <2>1 DEF EnsureNat
<1>4. CASE TrustVeth BY <1>4 DEF TrustVeth
<1>5. CASE Look BY <1>5 DEF Look, kernel
<1>6. CASE LocalRoute
  <2>1. \A i \in Iface \ {at} : table'[i] = table[i] BY <1>6 DEF LocalRoute, Put, Types
  <2> QED BY <1>6, <2>1 DEF LocalRoute
<1>7. CASE DefaultRoute
  <2>1. \A i \in Iface \ {at} : table'[i] = table[i] BY <1>7 DEF DefaultRoute, Put, Types
  <2> QED BY <1>7, <2>1 DEF DefaultRoute
<1>8. CASE FallbackRoute
  <2>1. \A i \in Iface \ {at} : table'[i] = table[i] BY <1>8 DEF FallbackRoute, Put, Types
  <2> QED BY <1>8, <2>1 DEF FallbackRoute
<1>9. CASE StrayRoutes
  <2>1. \A i \in Iface \ {at} : table'[i] = table[i] BY <1>9 DEF StrayRoutes, Put, Types
  <2> QED BY <1>9, <2>1 DEF StrayRoutes
<1>10. CASE AddRule BY <1>10 DEF AddRule
<1>11. CASE Launch BY <1>11 DEF Launch, kernel
<1>12. CASE Rollback
  <2>1. CASE UNCHANGED <<recorded, kernel>> BY <2>1 DEF kernel
  <2>2. CASE recorded' = recorded \ {at} /\ \E R \in Outcomes : Remove(at, R)
    <3>1. PICK R \in Outcomes : Remove(at, R) BY <2>2
    <3>2. R = Removals BY DEF Outcomes
    <3> QED BY <2>2, <3>1, <3>2, RemoveLeavesNothing
  <2> QED BY <1>12, <2>1, <2>2 DEF Rollback
<1> QED
  BY <1>1, <1>2, <1>3, <1>4, <1>5, <1>6, <1>7, <1>8, <1>9, <1>10, <1>11, <1>12 DEF Operation

\* While no removal fails, what is not recorded any more is gone from the kernel,
\* whatever else fails, crashes or is disturbed.
THEOREM ForgottenIsGone ==
    ASSUME Failing \cap Removals = {}
    PROVE  Spec => []NothingLeft
<1>1. ASSUME NEW i \in Iface, Types, NothingLeft, BindRequest(i) PROVE NothingLeft'
  BY <1>1 DEF BindRequest, kernel, NothingLeft
<1>2. ASSUME NEW i \in Iface, Types, NothingLeft, Teardown(i) PROVE NothingLeft'
  <2>1. PICK R \in Outcomes : /\ Remove(i, R)
                              /\ recorded' = IF Reported \subseteq R THEN recorded \ {i} ELSE recorded
    BY <1>2 DEF Teardown
  <2>2. R = Removals BY DEF Outcomes
  <2>3. recorded' = recorded \ {i} BY <2>1, <2>2 DEF Reported, Removals
  <2> QED BY <1>2, <2>1, <2>2, <2>3, RemoveLeavesNothing
<1>3. ASSUME NothingLeft, RefreshRequest \/ Minute PROVE NothingLeft'
  BY <1>3 DEF RefreshRequest, Minute, kernel, NothingLeft
<1>4. ASSUME Types, NothingLeft, Environment PROVE NothingLeft'
  <2>1. ASSUME NEW i \in Iface, NEW g \in Gateway, LinkUp(i, g) \/ Roam(i, g) PROVE NothingLeft'
    BY <1>4, <2>1 DEF LinkUp, Roam, NothingLeft
  <2>2. ASSUME NEW i \in Iface, LinkDown(i) PROVE NothingLeft'
    <3>1. ASSUME NEW j \in Iface
          PROVE  /\ table'[j].fallback = table[j].fallback /\ table'[j].local = table[j].local
                 /\ (table[j].uplink = None => table'[j].uplink = None)
      <4>1. table'[j] = [table[j] EXCEPT !.uplink = IF j = i THEN None ELSE @, !.old = IF @ = i THEN None ELSE @]
        BY <2>2 DEF LinkDown
      <4> QED BY <1>4, <4>1 DEF Types, Table
    <3>2. UNCHANGED <<recorded, veth, rule, filter, trusted>> BY <2>2 DEF LinkDown
    <3> QED BY <1>4, <3>1, <3>2 DEF NothingLeft
  <2>3. ASSUME NEW i \in Iface, AppExit(i) PROVE NothingLeft'
    BY <1>4, <2>3 DEF AppExit, kernel, NothingLeft
  <2>4. CASE FirewallReload BY <1>4, <2>4 DEF FirewallReload, NothingLeft
  <2>5. CASE Crash BY <1>4, <2>5 DEF Crash, kernel, NothingLeft
  <2>6. CASE Reboot BY <2>6 DEF Reboot, NothingLeft, NoTable
  <2> QED BY <1>4, <2>1, <2>2, <2>3, <2>4, <2>5, <2>6 DEF Environment
<1>5. NothingLeft /\ UNCHANGED vars => NothingLeft' BY DEF NothingLeft, vars, kernel
<1>6. Types /\ OfRecord /\ NothingLeft /\ [Next]_vars => NothingLeft'
  BY <1>1, <1>2, <1>3, <1>4, <1>5, OperationLeaves DEF Next
<1> QED BY <1>6, TypesInit, TypesStep, NothingLeftInit, PTL DEF Spec
=============================================================================
