-------------------------- MODULE Proxies_proofs --------------------------
(***************************************************************************)
(* The Windows edition, for any adapters, applications, launches and       *)
(* servers: its traffic leaves by the adapter it was assigned to, and the  *)
(* registry of a user who waits for launches to end is true; and one       *)
(* connection of a proxy, for any number of chunks.                        *)
(***************************************************************************)
EXTENDS MCWindows, Sequences, FiniteSetTheorems, TLAPS

Size == size \in 0..Cardinality(Ip)
Late == slow \in 0..MaxSlow

Types ==
    /\ user \in {"window", "patient", "command"}
    /\ main \in {"idle", "assign", "stop", "clear", "off"}
    /\ todo \subseteq Launch \cup Ip
    /\ pending \subseteq Launch /\ active \subseteq Launch
    /\ entry \in [Launch -> [name : App \cup {None}, ip : Ip \cup {None}]]
    /\ step \in [Launch -> Steps]
    /\ made \in [Launch -> Server \cup {None}]
    /\ port \in [Launch -> Port \cup {None}]
    /\ registry \in [Ip -> Server \cup {None}]
    /\ server \in [Server -> Servers]
    /\ app \in [Launch -> Port \cup {None, Default}]

\* What is to be assigned, and what is under way, has an adapter.
Asked ==
    /\ main = "assign" => todo \subseteq Launch
    /\ main = "stop" => todo \subseteq Ip
    /\ \A l \in Launch :
          (l \in pending \/ (main = "assign" /\ l \in todo) \/ step[l] # "none") => entry[l].ip \in Ip

LEMMA TypesInit == Init => Types /\ Asked
  BY DEF Init, Types, Asked, Steps, Servers

LEMMA OneIsOf == ASSUME NEW Q, NEW x \in One(Q) PROVE x \in Q
  BY DEF One

-----------------------------------------------------------------------------
(* What the steps do to the servers *)

Phases == {"new", "starting", "listening", "closing", "closed", "dead"}

LEMMA Rephased ==
    ASSUME NEW r \in Servers, NEW phase \in Phases, NEW q, q = [r EXCEPT !.phase = phase]
    PROVE  q \in Servers /\ q.phase = phase /\ q.ip = r.ip /\ q.port = r.port
  BY DEF Servers, Phases

\* One server goes to another phase, or none does.
OnePhase(s, phase) ==
    /\ server' \in [Server -> Servers]
    /\ server'[s].phase = phase /\ server'[s].ip = server[s].ip /\ server'[s].port = server[s].port
    /\ \A t \in Server \ {s} : server'[t] = server[t]

LEMMA GoesTo ==
    ASSUME Types, NEW s \in Server, NEW phase \in Phases, server' = [server EXCEPT ![s].phase = phase]
    PROVE  OnePhase(s, phase)
<1>1. server' = [server EXCEPT ![s] = [server[s] EXCEPT !.phase = phase]] OBVIOUS
<1>2. server[s] \in Servers BY DEF Types
<1>3. [server[s] EXCEPT !.phase = phase] \in Servers BY <1>2, Rephased
<1> QED BY <1>1, <1>2, <1>3, Rephased DEF Types, OnePhase

LEMMA ListenServers ==
    ASSUME Types, NEW s \in Server, Listen(s)
    PROVE  \E p \in Port \ Taken :
              /\ server' \in [Server -> Servers]
              /\ server'[s].phase = "listening" /\ server'[s].ip = server[s].ip /\ server'[s].port = p
              /\ \A t \in Server \ {s} : server'[t] = server[t]
<1>1. PICK p \in Port \ Taken : server' = [server EXCEPT ![s].phase = "listening", ![s].port = p]
  BY OneIsOf DEF Listen
<1> DEFINE r == [[server[s] EXCEPT !.phase = "listening"] EXCEPT !.port = p]
<1>2. server' = [server EXCEPT ![s] = r] BY <1>1
<1>3. server[s] \in Servers BY DEF Types
<1>4. r \in Servers /\ r.phase = "listening" /\ r.ip = server[s].ip /\ r.port = p
  BY <1>3 DEF Servers
<1> QED BY <1>2, <1>4 DEF Types

LEMMA CloseServers ==
    ASSUME Types, NEW s \in Server, Close(s)
    PROVE  \/ server[s].phase = "closing" /\ OnePhase(s, "closed")
           \/ server[s].phase = "closed" /\ OnePhase(s, "dead")
  BY GoesTo DEF Close, Phases

LEMMA CannotListenServers ==
    ASSUME Types, NEW s \in Server, CannotListen(s) PROVE OnePhase(s, "dead")
  BY GoesTo DEF CannotListen, Phases

LEMMA StopNextServers ==
    ASSUME Types, NEW ip \in Ip, StopNext(ip)
    PROVE  \/ UNCHANGED server
           \/ /\ registry[ip] \in Server /\ server[registry[ip]].phase = "listening"
              /\ OnePhase(registry[ip], "closing")
<1> DEFINE s == registry[ip]
<1>1. CASE s \in Server /\ server[s].phase = "listening"
  BY <1>1, GoesTo DEF StopNext, Phases
<1>2. CASE s \in Server /\ server[s].phase # "listening"
  <2>1. server[s] \in Servers BY <1>2 DEF Types
  <2>2. [server[s] EXCEPT !.phase = server[s].phase] = server[s] BY <2>1 DEF Servers
  <2> QED BY <1>2, <2>2 DEF StopNext, Types
<1>3. CASE s \notin Server
  BY <1>3 DEF StopNext, Types
<1> QED BY <1>1, <1>2, <1>3

LEMMA EndServers ==
    ASSUME Types, EndProcess
    PROVE  /\ server' \in [Server -> Servers]
           /\ \A s \in Server :
                 /\ server'[s].phase = IF server[s].phase = "new" THEN "new" ELSE "dead"
                 /\ server'[s].ip = server[s].ip /\ server'[s].port = server[s].port
<1>1. ASSUME NEW s \in Server
      PROVE  /\ server'[s] \in Servers
             /\ server'[s].phase = IF server[s].phase = "new" THEN "new" ELSE "dead"
             /\ server'[s].ip = server[s].ip /\ server'[s].port = server[s].port
  <2>1. server[s] \in Servers BY DEF Types
  <2>2. server'[s] = IF server[s].phase = "new" THEN server[s] ELSE [server[s] EXCEPT !.phase = "dead"]
    BY DEF EndProcess
  <2> QED BY <2>1, <2>2, Rephased DEF Phases
<1>2. server' = [s \in Server |-> server'[s]] BY DEF EndProcess
<1> QED BY <1>1, <1>2

\* get_or_start finds a proxy, or creates one.
Found(l) ==
    /\ registry[entry[l].ip] # None /\ UNCHANGED <<made, server>>
    /\ step' = [step EXCEPT ![l] = "read"]

Created(l, s) ==
    /\ registry[entry[l].ip] = None
    /\ step' = [step EXCEPT ![l] = "wait"] /\ made' = [made EXCEPT ![l] = s]
    /\ server[s].phase = "new" /\ server' \in [Server -> Servers]
    /\ server'[s].ip = entry[l].ip /\ server'[s].phase = "starting" /\ server'[s].port = None
    /\ \A t \in Server \ {s} : server'[t] = server[t]

LEMMA CheckServers ==
    ASSUME Types, Asked, NEW l \in Launch, Check(l)
    PROVE  /\ step[l] = "check" /\ main # "off" /\ entry[l].ip \in Ip
           /\ UNCHANGED <<window, entry, port, registry, slow, app>>
           /\ Found(l) \/ \E s \in Server : Created(l, s)
<1>1. entry[l].ip \in Ip BY DEF Check, Asked
<1>2. CASE registry[entry[l].ip] # None BY <1>1, <1>2 DEF Check, Found
<1>3. CASE registry[entry[l].ip] = None
  <2>1. PICK s \in Unused :
           /\ server' = [server EXCEPT ![s] = [ip |-> entry[l].ip, phase |-> "starting", port |-> None]]
           /\ made' = [made EXCEPT ![l] = s]
    BY <1>3 DEF Check
  <2>2. s \in Server /\ server[s].phase = "new" BY OneIsOf DEF Unused
  <2>3. [ip |-> entry[l].ip, phase |-> "starting", port |-> None] \in Servers BY <1>1 DEF Servers
  <2> QED BY <1>1, <1>3, <2>1, <2>2, <2>3 DEF Check, Created, Types
<1> QED BY <1>1, <1>2, <1>3

-----------------------------------------------------------------------------
(* Types *)

LEMMA UserTypes == Types /\ Asked /\ User => Types' /\ Asked'
<1> SUFFICES ASSUME Types, Asked, User
             PROVE  Types' /\ Asked'
  OBVIOUS
<1> USE DEF Types, Asked, threads, Idle
<1>1. CASE Drop BY <1>1 DEF Drop
<1>2. CASE AssignAll BY <1>2 DEF AssignAll
<1>3. CASE StopAll BY <1>3 DEF StopAll, Keys
<1>4. ASSUME NEW l \in Launch, NEW name \in App, NEW ip \in Ip, Add(l, name, ip)
      PROVE  Types' /\ Asked'
  BY <1>4 DEF Add
<1> QED BY <1>1, <1>2, <1>3, <1>4, OneIsOf DEF User

LEMMA ProcessTypes ==
    ASSUME Types, Asked,
           \/ Quit \/ Return \/ StopRaises \/ StopEnds \/ Clear
           \/ \E ip \in Ip : StopNext(ip)
           \/ \E l \in Launch : AssignOne(l)
    PROVE  Types' /\ Asked'
<1> USE DEF Types, Asked, threads, window
<1>1. CASE Quit \/ Return
  <2>1. server' \in [Server -> Servers] BY <1>1, EndServers DEF Quit, Return
  <2> QED BY <1>1, <2>1 DEF Quit, Return, EndProcess
<1>2. CASE StopRaises \/ StopEnds \/ Clear BY <1>2 DEF StopRaises, StopEnds, Clear
<1>3. ASSUME NEW ip \in Ip, StopNext(ip)
      PROVE  Types' /\ Asked'
  <2>1. server' \in [Server -> Servers] BY <1>3, StopNextServers DEF OnePhase
  <2> QED BY <1>3, <2>1 DEF StopNext
<1>4. ASSUME NEW l \in Launch, AssignOne(l)
      PROVE  Types' /\ Asked'
  <2>1. step' = step \/ step' = [step EXCEPT ![l] = "check"]
    BY <1>4 DEF AssignOne, PromptCloseRunning, Start
  <2>2. app' \in [Launch -> Port \cup {None, Default}]
    BY <1>4 DEF AssignOne, PromptCloseRunning, KillInstances
  <2>3. entry[l].ip \in Ip BY <1>4 DEF AssignOne
  <2> QED BY <1>4, <2>1, <2>2, <2>3 DEF AssignOne, Steps
<1> QED BY <1>1, <1>2, <1>3, <1>4

LEMMA LaunchTypes == ASSUME Types, Asked, NEW l \in Launch, LaunchStep(l) PROVE Types' /\ Asked'
<1> USE DEF Types, Asked, threads, window, Steps
<1>1. CASE Check(l)
  <2>1. CASE Found(l) BY <1>1, <2>1, CheckServers DEF Found
  <2>2. ASSUME NEW s \in Server, Created(l, s)
        PROVE  Types' /\ Asked'
    BY <1>1, <2>2, CheckServers DEF Created
  <2> QED BY <1>1, <2>1, <2>2, CheckServers
<1>2. CASE Ready(l) \/ TimedOut(l) BY <1>2 DEF Ready, TimedOut
<1>3. CASE Store(l) BY <1>3 DEF Store
<1>4. CASE ReadPort(l)
  <2>1. entry[l].ip \in Ip BY <1>4 DEF ReadPort
  <2>2. port' \in [Launch -> Port \cup {None}]
    BY <1>4, <2>1 DEF ReadPort, Servers
  <2> QED BY <1>4, <2>2 DEF ReadPort
<1>5. CASE Spawn(l)
  <2>1. Setting(entry[l].name, port[l]) \in Port \cup {None, Default}
    BY DEF Setting, FirefoxPrefs
  <2> QED BY <1>5, <2>1 DEF Spawn
<1>6. CASE List(l) BY <1>6 DEF List
<1> QED BY <1>1, <1>2, <1>3, <1>4, <1>5, <1>6 DEF LaunchStep

LEMMA ServerTypes ==
    ASSUME Types, Asked, NEW s \in Server, Listen(s) \/ CannotListen(s) \/ Close(s)
    PROVE  Types' /\ Asked'
<1> USE DEF Types, Asked, threads, window
<1>1. CASE Listen(s)
  <2>1. server' \in [Server -> Servers] BY <1>1, ListenServers
  <2> QED BY <1>1, <2>1 DEF Listen
<1>2. CASE CannotListen(s) \/ Close(s)
  <2>1. server' \in [Server -> Servers] BY <1>2, CannotListenServers, CloseServers DEF OnePhase
  <2> QED BY <1>2, <2>1 DEF CannotListen, Close
<1> QED BY <1>1, <1>2

LEMMA TypesStep == Types /\ Asked /\ [Next]_vars => Types' /\ Asked'
<1>1. Types /\ Asked /\ UNCHANGED vars => Types' /\ Asked'
  BY DEF Types, Asked, vars, window, threads
<1> QED BY <1>1, UserTypes, ProcessTypes, LaunchTypes, ServerTypes DEF Next

-----------------------------------------------------------------------------
(* Where the traffic goes *)

\* A port that is taken stays with its server, and the server with its adapter.
Keeps(s) ==
    /\ server[s].phase # "new" => server'[s].phase # "new" /\ server'[s].ip = server[s].ip
    /\ server'[s].port = server[s].port \/ (server[s].port = None /\ Listen(s))

ServerInv ==
    \A s \in Server : server[s].phase \in {"new", "starting"} => server[s].port = None

\* Ports differ, as long as the system does not hand one out again.
PortsDiffer ==
    \A s, t \in Server : server[s].port # None /\ server[s].port = server[t].port => s = t

Serves(p, ip) == p # None /\ \E s \in Server : server[s].port = p /\ server[s].ip = ip

\* What a launch holds belongs to its adapter, at every step, and so does what
\* is registered.
OfAdapter(l) ==
    /\ step[l] = "none" => app[l] = None
    /\ step[l] \in {"wait", "store"} =>
          /\ made[l] \in Server /\ server[made[l]].phase # "new"
          /\ server[made[l]].ip = entry[l].ip
    /\ step[l] = "store" => server[made[l]].port # None
    /\ step[l] = "spawn" => Serves(port[l], entry[l].ip)
    /\ Bound(l) => Serves(app[l], entry[l].ip)

Registered(ip) == server[registry[ip]].ip = ip /\ server[registry[ip]].port # None

LaunchInv == (\A l \in Launch : OfAdapter(l)) /\ (\A ip \in Keys : Registered(ip))

ExitInv == ServerInv /\ LaunchInv

LEMMA ExitInit == Init => ExitInv /\ PortsDiffer
  BY DEF Init, ExitInv, ServerInv, LaunchInv, OfAdapter, Keys, PortsDiffer, Bound

LEMMA ServersKeep ==
    ASSUME Types, Asked, ServerInv, [Next]_vars
    PROVE  ServerInv' /\ \A s \in Server : Keeps(s)
<1> USE DEF ServerInv, Keeps
<1>1. ASSUME UNCHANGED server PROVE ServerInv' /\ \A s \in Server : Keeps(s)
  BY <1>1
<1>2. CASE User BY <1>1, <1>2 DEF User, Drop, AssignAll, StopAll, Add
<1>3. CASE Quit \/ Return BY <1>3, EndServers DEF Quit, Return
<1>4. CASE StopRaises \/ StopEnds \/ Clear BY <1>1, <1>4 DEF StopRaises, StopEnds, Clear
<1>5. ASSUME NEW ip \in Ip, StopNext(ip) PROVE ServerInv' /\ \A s \in Server : Keeps(s)
  BY <1>1, <1>5, StopNextServers DEF OnePhase
<1>6. ASSUME NEW l \in Launch, AssignOne(l) PROVE ServerInv' /\ \A s \in Server : Keeps(s)
  BY <1>1, <1>6 DEF AssignOne
<1>7. ASSUME NEW l \in Launch, Check(l) PROVE ServerInv' /\ \A s \in Server : Keeps(s)
  <2>1. CASE Found(l) BY <1>1, <2>1 DEF Found
  <2>2. ASSUME NEW s \in Server, Created(l, s) PROVE ServerInv' /\ \A t \in Server : Keeps(t)
    BY <2>2 DEF Created
  <2> QED BY <1>7, <2>1, <2>2, CheckServers
<1>8. ASSUME NEW l \in Launch, LaunchStep(l), ~Check(l) PROVE UNCHANGED server
  BY <1>8 DEF LaunchStep, Ready, TimedOut, Store, ReadPort, Spawn, List
<1>9. ASSUME NEW s \in Server, Listen(s) PROVE ServerInv' /\ \A t \in Server : Keeps(t)
  <2>1. server[s].phase = "starting" /\ server[s].port = None BY <1>9 DEF Listen
  <2> QED BY <1>9, <2>1, ListenServers
<1>10. ASSUME NEW s \in Server, CannotListen(s) PROVE ServerInv' /\ \A t \in Server : Keeps(t)
  BY <1>10, CannotListenServers DEF OnePhase, CannotListen
<1>11. ASSUME NEW s \in Server, Close(s) PROVE ServerInv' /\ \A t \in Server : Keeps(t)
  BY <1>11, CloseServers DEF OnePhase
<1>12. CASE UNCHANGED vars BY <1>1, <1>12 DEF vars
<1> QED
  BY <1>1, <1>2, <1>3, <1>4, <1>5, <1>6, <1>7, <1>8, <1>9, <1>10, <1>11, <1>12 DEF Next

LEMMA PortsStep ==
    ASSUME ~Reuse, Types, Asked, ServerInv, PortsDiffer, [Next]_vars
    PROVE  PortsDiffer'
<1> USE DEF PortsDiffer
<1>1. ASSUME NEW s \in Server, Listen(s) PROVE PortsDiffer'
  <2>1. \A t \in Server : server[t].port \in Taken BY DEF Taken
  <2> QED BY <1>1, <2>1, ListenServers
<1>2. ASSUME \A s \in Server : ~Listen(s) PROVE PortsDiffer'
  BY <1>2, ServersKeep DEF Keeps
<1> QED BY <1>1, <1>2

\* Servers that keep what they have leave alone who rests on them.
LEMMA ServesStays ==
    ASSUME Types, ServerInv, \A s \in Server : Keeps(s)
    PROVE  /\ \A p, ip : Serves(p, ip) => Serves(p, ip)'
           /\ \A l \in Launch :
                 /\ OfAdapter(l) /\ UNCHANGED <<step[l], made[l], port[l], app[l], entry[l]>>
                 => OfAdapter(l)'
           /\ \A ip \in Keys : Registered(ip) /\ UNCHANGED registry[ip] => Registered(ip)'
<1>1. ASSUME NEW p, NEW ip, Serves(p, ip)
      PROVE  Serves(p, ip)'
  BY <1>1 DEF Serves, Keeps, ServerInv
<1>2. ASSUME NEW l \in Launch, OfAdapter(l), UNCHANGED <<step[l], made[l], port[l], app[l], entry[l]>>
      PROVE  OfAdapter(l)'
  BY <1>1, <1>2 DEF OfAdapter, Bound, Keeps
<1>3. ASSUME NEW ip \in Keys, Registered(ip), UNCHANGED registry[ip]
      PROVE  Registered(ip)'
  BY <1>3 DEF Registered, Keeps, Keys, ServerInv, Types
<1> QED BY <1>1, <1>2, <1>3

LEMMA LaunchStepKeeps ==
    ASSUME Types, Asked, LaunchInv, ServerInv, \A s \in Server : Keeps(s),
           NEW l \in Launch, LaunchStep(l)
    PROVE  OfAdapter(l)'
<1> USE ServesStays DEF LaunchInv, Types
<1>1. CASE Check(l)
  <2>1. CASE Found(l) BY <1>1, <2>1, CheckServers DEF Found, OfAdapter, Bound
  <2>2. ASSUME NEW s \in Server, Created(l, s)
        PROVE  OfAdapter(l)'
    <3>1. step'[l] = "wait" /\ made'[l] = s BY <2>2 DEF Created
    <3>2. UNCHANGED <<app, entry>> BY <1>1, CheckServers
    <3>3. Bound(l) => Serves(app[l], entry[l].ip) BY DEF OfAdapter
    <3>4. Bound(l)' => Serves(app[l], entry[l].ip)' BY <3>2, <3>3 DEF Bound
    <3> QED BY <2>2, <3>1, <3>2, <3>4 DEF Created, OfAdapter
  <2> QED BY <1>1, <2>1, <2>2, CheckServers
<1>2. CASE Ready(l)
  BY <1>2 DEF Ready, OfAdapter, Bound
<1>3. CASE TimedOut(l) BY <1>3 DEF TimedOut, OfAdapter, Bound
<1>4. CASE Store(l) BY <1>4 DEF Store, OfAdapter, Bound
<1>5. CASE ReadPort(l)
  <2>1. CASE registry[entry[l].ip] = None BY <1>5, <2>1 DEF ReadPort, OfAdapter, Bound
  <2>2. CASE registry[entry[l].ip] # None
    <3>1. entry[l].ip \in Keys BY <1>5, <2>2 DEF ReadPort, Asked, Keys
    <3>2. port'[l] = server[registry[entry[l].ip]].port /\ step'[l] = "spawn"
      BY <1>5, <2>2 DEF ReadPort
    <3>3. Serves(port'[l], entry[l].ip) BY <3>1, <3>2 DEF Registered, Serves, Keys
    <3> QED BY <1>5, <3>2, <3>3 DEF ReadPort, OfAdapter, Bound
  <2> QED BY <2>1, <2>2
<1>6. CASE Spawn(l)
  <2>1. step'[l] = "list" /\ app'[l] = Setting(entry[l].name, port[l]) /\ UNCHANGED entry
    BY <1>6 DEF Spawn
  <2>2. Serves(port[l], entry[l].ip) BY <1>6 DEF Spawn, OfAdapter
  <2> QED BY <2>1, <2>2 DEF OfAdapter, Bound, Setting
<1>7. CASE List(l) BY <1>7 DEF List, OfAdapter, Bound
<1> QED BY <1>1, <1>2, <1>3, <1>4, <1>5, <1>6, <1>7 DEF LaunchStep

LEMMA RegistryStep ==
    ASSUME Types, Asked, LaunchInv, ServerInv, \A s \in Server : Keeps(s), [Next]_vars,
           NEW ip \in Keys'
    PROVE  Registered(ip)'
<1>1. CASE UNCHANGED registry BY <1>1, ServesStays DEF LaunchInv, Keys
<1>2. CASE Clear BY <1>2 DEF Clear, Keys
<1>3. ASSUME NEW l \in Launch, Store(l)
      PROVE  Registered(ip)'
  <2>1. CASE ip = entry[l].ip
    BY <1>3, <2>1 DEF Store, LaunchInv, OfAdapter, Registered, Keeps, Types, threads, window, Keys
  <2>2. CASE ip # entry[l].ip
    BY <1>3, <2>2, ServesStays DEF Store, LaunchInv, Keys, Types
  <2> QED BY <2>1, <2>2
<1>4. ASSUME ~Clear, \A l \in Launch : ~Store(l)
      PROVE  UNCHANGED registry
  <2>1. User => UNCHANGED registry BY DEF User, Drop, AssignAll, StopAll, Add
  <2>2. Quit \/ Return \/ StopRaises \/ StopEnds => UNCHANGED registry
    BY DEF Quit, Return, EndProcess, StopRaises, StopEnds
  <2>3. ASSUME NEW i \in Ip, StopNext(i) PROVE UNCHANGED registry BY <2>3 DEF StopNext
  <2>4. ASSUME NEW l \in Launch, AssignOne(l) \/ LaunchStep(l) PROVE UNCHANGED registry
    BY <1>4, <2>4 DEF AssignOne, LaunchStep, Check, Ready, TimedOut, ReadPort, Spawn, List
  <2>5. ASSUME NEW s \in Server, Listen(s) \/ CannotListen(s) \/ Close(s) PROVE UNCHANGED registry
    BY <2>5 DEF Listen, CannotListen, Close
  <2>6. UNCHANGED vars => UNCHANGED registry BY DEF vars
  <2> QED BY <1>4, <2>1, <2>2, <2>3, <2>4, <2>5, <2>6 DEF Next
<1> QED BY <1>1, <1>2, <1>3, <1>4

LEMMA ExitStep == Types /\ Asked /\ ExitInv /\ [Next]_vars => ExitInv'
<1> SUFFICES ASSUME Types, Asked, ExitInv, [Next]_vars
             PROVE  LaunchInv'
  BY ServersKeep DEF ExitInv
<1>1. ServerInv /\ LaunchInv /\ \A s \in Server : Keeps(s) BY ServersKeep DEF ExitInv
<1>2. ASSUME NEW k \in Launch
      PROVE  OfAdapter(k)'
  <2>1. OfAdapter(k) BY <1>1 DEF LaunchInv
  <2>2. CASE UNCHANGED <<step[k], made[k], port[k], app[k], entry[k]>>
    BY <1>1, <2>1, <2>2, ServesStays
  <2>3. ASSUME NEW l \in One({j \in Launch : entry[j].name = None}), NEW name \in App, NEW ip \in Ip, Add(l, name, ip)
        PROVE  OfAdapter(k)'
    <3>1. CASE k = l
      BY <1>1, <2>1, <2>3, <3>1 DEF Add, OfAdapter, Bound
    <3> QED BY <2>2, <2>3, <3>1 DEF Add, Types
  <2>4. ASSUME NEW l \in Launch, AssignOne(l)
        PROVE  OfAdapter(k)'
    <3>1. step'[k] \in {step[k], "check"} BY <2>4 DEF AssignOne, PromptCloseRunning, Start, Types
    <3>2. app'[k] \in {app[k], None}
      BY <2>4 DEF AssignOne, PromptCloseRunning, KillInstances, Types
    <3>3. UNCHANGED <<made, port, entry, server>> BY <2>4 DEF AssignOne
    <3> QED BY <1>1, <2>1, <3>1, <3>2, <3>3 DEF OfAdapter, Bound, Serves
  <2>5. ASSUME NEW l \in Launch, LaunchStep(l)
        PROVE  OfAdapter(k)'
    <3>1. CASE k = l BY <1>1, <2>5, <3>1, LaunchStepKeeps
    <3>2. CASE k # l
      <4>1. UNCHANGED <<step[k], made[k], port[k], app[k], entry[k]>>
        <5>1. CASE Check(l) BY <3>2, <5>1, CheckServers DEF Found, Created, Types
        <5>2. CASE ~Check(l)
          BY <2>5, <3>2, <5>2 DEF LaunchStep, Ready, TimedOut, Store, ReadPort, Spawn, List, Types
        <5> QED BY <5>1, <5>2
      <4> QED BY <2>2, <4>1
    <3> QED BY <3>1, <3>2
  <2>6. ASSUME \/ Drop \/ AssignAll \/ StopAll \/ Quit \/ Return
               \/ \E ip \in Ip : StopNext(ip)
               \/ StopRaises \/ StopEnds \/ Clear
               \/ \E s \in Server : Listen(s) \/ CannotListen(s) \/ Close(s)
               \/ UNCHANGED vars
        PROVE  UNCHANGED <<threads, app>>
    BY <2>6 DEF Drop, AssignAll, StopAll, Quit, Return, EndProcess, StopNext, StopRaises, StopEnds,
                Clear, Listen, CannotListen, Close, vars, threads
  <2> QED BY <2>2, <2>3, <2>4, <2>5, <2>6 DEF Next, User, threads
<1> QED BY <1>1, <1>2, RegistryStep DEF LaunchInv

\* An application that keeps to its proxy leaves by the adapter it was assigned
\* to or is refused, whatever its user does and however launches and stops race,
\* as long as the system does not hand out a port again (app_launcher: "all their
\* TCP traffic exits through the chosen network adapter").
THEOREM AlwaysByAdapter == ASSUME ~Reuse PROVE Spec => []ExitsByAdapter
<1> DEFINE IInv == Types /\ Asked /\ ExitInv /\ PortsDiffer
<1>1. Init => IInv BY TypesInit, ExitInit
<1>2. IInv /\ [Next]_vars => IInv' BY TypesStep, ExitStep, PortsStep DEF ExitInv
<1>3. IInv => ExitsByAdapter
  <2> SUFFICES ASSUME IInv, NEW l \in Launch, Bound(l)
               PROVE  Route(l) \in {entry[l].ip, Refused}
    BY DEF ExitsByAdapter
  <2>1. PICK s \in Server : app[l] # None /\ server[s].port = app[l] /\ server[s].ip = entry[l].ip
    BY DEF ExitInv, LaunchInv, OfAdapter, Serves
  <2> DEFINE at == {t \in Server : Listening(t) /\ server[t].port = app[l]}
  <2>2. \A t \in at : t = s BY <2>1 DEF PortsDiffer
  <2>3. app[l] \in Port BY <2>1 DEF Types, Servers
  <2>4. app[l] # Default BY <2>3, RoutesDiffer
  <2>5. CASE at = {} BY <2>1, <2>4, <2>5 DEF Route
  <2>6. CASE at # {}
    <3>1. (CHOOSE t \in at : TRUE) = s BY <2>2, <2>6
    <3> QED BY <2>1, <2>4, <2>6, <3>1 DEF Route
  <2> QED BY <2>5, <2>6
<1> QED BY <1>1, <1>2, <1>3, PTL DEF Spec

-----------------------------------------------------------------------------
(* The registry *)

LEMMA SizeStep == Types /\ Size /\ [Next]_vars => Size'
<1>1. Cardinality(Keys) \in 0..Cardinality(Ip)
  <2>1. Keys \subseteq Ip BY DEF Keys
  <2> QED BY <2>1, AdaptersAreFinite, FS_Subset, FS_CardinalityType
<1>2. ASSUME Size, Next, ~StopAll
      PROVE  UNCHANGED size
  <2>1. User => UNCHANGED size BY <1>2 DEF User, Drop, AssignAll, Add
  <2>2. Quit \/ Return \/ StopRaises \/ StopEnds \/ Clear => UNCHANGED size
    BY DEF Quit, Return, EndProcess, StopRaises, StopEnds, Clear
  <2>3. ASSUME NEW ip \in Ip, StopNext(ip) PROVE UNCHANGED size BY <2>3 DEF StopNext
  <2>4. ASSUME NEW l \in Launch, AssignOne(l) \/ LaunchStep(l) PROVE UNCHANGED size
    BY <2>4 DEF AssignOne, LaunchStep, Check, Ready, TimedOut, Store, ReadPort, Spawn, List, window
  <2>5. ASSUME NEW s \in Server, Listen(s) \/ CannotListen(s) \/ Close(s) PROVE UNCHANGED size
    BY <2>5 DEF Listen, CannotListen, Close, window
  <2> QED BY <1>2, <2>1, <2>2, <2>3, <2>4, <2>5 DEF Next
<1> QED BY <1>1, <1>2 DEF Size, StopAll, vars, window

\* slow counts what is late, and never goes back.
LEMMA LateStep == Late /\ [Next]_vars => Late' /\ slow' >= slow
<1> SUFFICES ASSUME Late, [Next]_vars
             PROVE  UNCHANGED slow \/ (slow < MaxSlow /\ slow' = slow + 1)
  BY BoundsAreRight DEF Late
<1>1. User => UNCHANGED slow BY DEF User, Drop, AssignAll, StopAll, Add
<1>2. Quit \/ Return \/ StopRaises \/ StopEnds \/ Clear => UNCHANGED slow
  BY DEF Quit, Return, EndProcess, StopRaises, StopEnds, Clear
<1>3. ASSUME NEW ip \in Ip, StopNext(ip) PROVE UNCHANGED slow BY <1>3 DEF StopNext
<1>4. ASSUME NEW l \in Launch, AssignOne(l) \/ LaunchStep(l)
      PROVE  UNCHANGED slow \/ (slow < MaxSlow /\ slow' = slow + 1)
  BY <1>4 DEF AssignOne, LaunchStep, Check, Ready, TimedOut, Store, ReadPort, Spawn, List
<1>5. ASSUME NEW s \in Server, Listen(s) \/ CannotListen(s) \/ Close(s)
      PROVE  UNCHANGED slow \/ (slow < MaxSlow /\ slow' = slow + 1)
  BY <1>5 DEF Listen, CannotListen, Close
<1>6. UNCHANGED vars => UNCHANGED slow BY DEF vars
<1> QED BY <1>1, <1>2, <1>3, <1>4, <1>5, <1>6 DEF Next

\* While a patient user's program runs.
Calm == Patient /\ main # "off"

\* What is under way, or is about to be.
Afoot == Busy \cup (IF main = "assign" THEN todo ELSE {})

\* One launch at a time on an adapter, and none while Stop All is under way.
OneLaunch ==
    /\ \A k, l \in Afoot : entry[k].ip = entry[l].ip => k = l
    /\ main \in {"stop", "clear"} => Busy = {}
    /\ \A l \in Launch : l \in pending \/ (main = "assign" /\ l \in todo) => step[l] = "none"
    /\ main = "assign" => pending = {}

\* A proxy that listens is registered or about to be, or was given up; one that starts
\* is waited for, or was given up.  Who waits has found no proxy for his adapter, and
\* there still is none.
Held(s) ==
    server[s].phase = "listening" =>
        \/ \E ip \in Ip : registry[ip] = s
        \/ \E l \in Launch : made[l] = s /\ step[l] \in {"wait", "store", "failed"}
Expected(s) == server[s].phase = "starting" => \E l \in Launch : made[l] = s /\ step[l] \in {"wait", "failed"}
Waits(l) ==
    /\ step[l] \in {"wait", "store"} => registry[entry[l].ip] = None
    /\ step[l] = "wait" =>
          \/ server[made[l]].phase \in {"starting", "listening"}
          \/ server[made[l]].phase = "dead" /\ server[made[l]].port = None
    /\ step[l] = "store" => server[made[l]].phase = "listening"

Awaited == (\A s \in Server : Held(s) /\ Expected(s)) /\ (\A l \in Launch : Waits(l))

\* What is registered listens, until Stop All has come to it.
Listens(ip) == server[registry[ip]].phase = "listening"
Live ==
    /\ main \in {"idle", "assign"} => \A ip \in Keys : Listens(ip)
    /\ main = "stop" =>
          /\ todo \subseteq Keys /\ size = Cardinality(Keys)
          /\ \A ip \in Keys : Listens(ip) <=> ip \in todo
    /\ main = "clear" => \A ip \in Keys : ~Listens(ip)

\* Nothing listens when the program has ended.
Ended == main = "off" => \A s \in Server : server[s].phase \in {"new", "dead"}

LEMMA EndedStep == Types /\ Ended /\ [Next]_vars => Ended'
<1> SUFFICES ASSUME Types, Ended, [Next]_vars, main' = "off"
             PROVE  \A s \in Server : server'[s].phase \in {"new", "dead"}
  BY DEF Ended
<1>1. CASE Quit \/ Return BY <1>1, EndServers DEF Quit, Return
<1>2. ASSUME Next, ~Quit, ~Return PROVE main # "off" /\ main' # "off"
  <2>1. User => main # "off" /\ main' # "off" BY DEF User, Drop, AssignAll, StopAll, Add, Idle
  <2>2. StopRaises \/ StopEnds \/ Clear => main # "off" /\ main' # "off"
    BY DEF StopRaises, StopEnds, Clear
  <2>3. ASSUME NEW ip \in Ip, StopNext(ip) PROVE main # "off" /\ main' # "off" BY <2>3 DEF StopNext
  <2>4. ASSUME NEW l \in Launch, AssignOne(l) \/ LaunchStep(l) PROVE main # "off" /\ main' # "off"
    BY <2>4 DEF AssignOne, LaunchStep, Check, Ready, TimedOut, Store, ReadPort, Spawn, List, window
  <2>5. ASSUME NEW s \in Server, Listen(s) \/ CannotListen(s) \/ Close(s)
        PROVE  main # "off" /\ main' # "off"
    BY <2>5 DEF Listen, CannotListen, Close, window
  <2> QED BY <1>2, <2>1, <2>2, <2>3, <2>4, <2>5 DEF Next
<1>3. CASE UNCHANGED vars BY <1>3 DEF vars, window, Ended
<1> QED BY <1>1, <1>2, <1>3

CalmInv == Calm => OneLaunch /\ Awaited /\ Live

LEMMA CalmInit == Init => CalmInv
  BY DEF Init, CalmInv, OneLaunch, Afoot, Awaited, Held, Expected, Waits, Live, Busy, Keys

\* The program never comes back, and nobody becomes patient.
LEMMA CalmBefore == [Next]_vars /\ Calm' => Calm
<1>1. [Next]_vars => UNCHANGED user
  <2>1. User => UNCHANGED user BY DEF User, Drop, AssignAll, StopAll, Add
  <2>2. Quit \/ Return \/ StopRaises \/ StopEnds \/ Clear => UNCHANGED user
    BY DEF Quit, Return, EndProcess, StopRaises, StopEnds, Clear
  <2>3. ASSUME NEW ip \in Ip, StopNext(ip) PROVE UNCHANGED user BY <2>3 DEF StopNext
  <2>4. ASSUME NEW l \in Launch, AssignOne(l) \/ LaunchStep(l) PROVE UNCHANGED user
    BY <2>4 DEF AssignOne, LaunchStep, Check, Ready, TimedOut, Store, ReadPort, Spawn, List, window
  <2>5. ASSUME NEW s \in Server, Listen(s) \/ CannotListen(s) \/ Close(s) PROVE UNCHANGED user
    BY <2>5 DEF Listen, CannotListen, Close, window
  <2>6. UNCHANGED vars => UNCHANGED user BY DEF vars, window
  <2> QED BY <2>1, <2>2, <2>3, <2>4, <2>5, <2>6 DEF Next
<1>2. [Next]_vars /\ main = "off" => main' = "off"
  <2> SUFFICES ASSUME [Next]_vars, main = "off" PROVE main' = "off"
    OBVIOUS
  <2>1. ~User BY DEF User, Drop, AssignAll, StopAll, Add, Idle
  <2>2. ~(Quit \/ Return \/ StopRaises \/ StopEnds \/ Clear)
    BY DEF Quit, Return, StopRaises, StopEnds, Clear
  <2>3. \A ip \in Ip : ~StopNext(ip) BY DEF StopNext
  <2>4. \A l \in Launch : ~AssignOne(l) /\ ~LaunchStep(l)
    BY DEF AssignOne, LaunchStep, Check, Ready, TimedOut, Store, ReadPort, Spawn, List
  <2>5. \A s \in Server : ~Listen(s) /\ ~CannotListen(s) /\ ~Close(s)
    BY DEF Listen, CannotListen, Close
  <2>6. UNCHANGED vars => main' = "off" BY DEF vars, window
  <2> QED BY <2>1, <2>2, <2>3, <2>4, <2>5, <2>6 DEF Next
<1> QED BY <1>1, <1>2 DEF Calm, Patient

\* What the steps below start from.
CalmState ==
    /\ Types /\ Asked /\ ExitInv
    /\ Calm /\ OneLaunch /\ Awaited /\ Live

\* Where a launch is, as far as its proxy is concerned.
SameStage ==
    \A l \in Launch : \A at \in {"wait", "store", "failed"} : step[l] = at <=> step'[l] = at

LEMMA SameAwaited ==
    ASSUME Awaited, UNCHANGED <<made, entry, registry>>, SameStage,
           \A s \in Server : \/ server'[s].phase = server[s].phase /\ server'[s].port = server[s].port
                            \/ /\ server'[s].phase \notin {"starting", "listening"}
                               /\ server[s].phase \in {"closing", "closed"},
           \A l \in Launch : made[l] \in Server \/ step[l] \notin {"wait", "store"}
    PROVE  Awaited'
<1>1. ASSUME NEW s \in Server PROVE Held(s)' /\ Expected(s)'
  BY DEF Awaited, Held, Expected, SameStage
<1>2. ASSUME NEW l \in Launch PROVE Waits(l)'
  BY DEF Awaited, Waits, SameStage
<1> QED BY <1>1, <1>2 DEF Awaited

LEMMA SameLive ==
    ASSUME Live, UNCHANGED <<main, todo, size, registry>>, Types,
           \A s \in Server : server[s].phase = "listening" <=> server'[s].phase = "listening"
    PROVE  Live'
<1>1. Keys' = Keys /\ \A ip \in Keys : Listens(ip)' <=> Listens(ip)
  BY DEF Keys, Listens, Types
<1> QED BY <1>1 DEF Live

LEMMA WaitsForServer ==
    CalmState => \A l \in Launch : made[l] \in Server \/ step[l] \notin {"wait", "store"}
  BY DEF CalmState, ExitInv, LaunchInv, OfAdapter

LEMMA UserCalm == CalmState /\ User => (OneLaunch /\ Awaited /\ Live)'
<1> SUFFICES ASSUME CalmState, User
             PROVE  (OneLaunch /\ Awaited /\ Live)'
  OBVIOUS
<1> USE DEF CalmState, Calm, Idle, Types, threads, SameStage
<1>1. CASE Drop
  <2>1. Awaited' BY <1>1, WaitsForServer, SameAwaited DEF Drop
  <2> QED BY <1>1, <2>1 DEF Drop, OneLaunch, Afoot, Live, Busy, Keys, Listens
<1>2. CASE AssignAll
  <2>1. Awaited' BY <1>2, WaitsForServer, SameAwaited DEF AssignAll
  <2>2. Busy' = Busy /\ Afoot' = pending \cup Busy BY <1>2 DEF AssignAll, Busy, Afoot
  <2>3. OneLaunch' BY <1>2, <2>2 DEF AssignAll, OneLaunch
  <2> QED BY <1>2, <2>1, <2>3 DEF AssignAll, Live, Keys, Listens
<1>3. CASE StopAll
  <2>1. Awaited' BY <1>3, WaitsForServer, SameAwaited DEF StopAll
  <2> QED BY <1>3, <2>1 DEF StopAll, OneLaunch, Afoot, Live, Busy, Keys, Listens
<1>4. ASSUME NEW l \in Launch, NEW name \in App, NEW ip \in Ip, Add(l, name, ip)
      PROVE  (OneLaunch /\ Awaited /\ Live)'
  <2>1. \A s \in Server : Held(s)' /\ Expected(s)' BY <1>4 DEF Add, Awaited, Held, Expected
  <2>2. \A k \in Launch : Waits(k)' BY <1>4 DEF Add, Awaited, Waits
  <2>3. Busy' = Busy /\ l \notin Busy /\ Afoot' = Busy /\ Afoot = Busy BY <1>4 DEF Add, Busy, Afoot
  <2>4. \A k \in Launch \ {l} : entry'[k] = entry[k] BY <1>4 DEF Add
  <2>5. Busy \subseteq Launch \ {l} BY <2>3 DEF Busy
  <2>6. OneLaunch' BY <1>4, <2>3, <2>4, <2>5 DEF Add, OneLaunch
  <2> QED BY <1>4, <2>1, <2>2, <2>6 DEF Add, Awaited, Live, Keys, Listens
<1> QED BY <1>1, <1>2, <1>3, <1>4, OneIsOf DEF User

LEMMA StopCalm ==
    CalmState /\ (StopRaises \/ StopEnds \/ Clear \/ \E ip \in Ip : StopNext(ip))
    => (OneLaunch /\ Awaited /\ Live)'
<1> SUFFICES ASSUME CalmState, StopRaises \/ StopEnds \/ Clear \/ \E ip \in Ip : StopNext(ip)
             PROVE  (OneLaunch /\ Awaited /\ Live)'
  OBVIOUS
<1> USE DEF CalmState, Calm, Types, threads, SameStage
<1>1. ~StopRaises BY DEF StopRaises, Grown, RaisesAt, Live, Listens
<1>2. CASE StopEnds
  <2>1. Awaited' BY <1>2, WaitsForServer, SameAwaited DEF StopEnds
  <2> QED BY <1>2, <2>1 DEF StopEnds, OneLaunch, Afoot, Live, Busy, Keys, Listens
<1>3. CASE Clear
  <2>1. Busy = {} /\ \A l \in Launch : step[l] \notin {"wait", "store"}
    BY <1>3 DEF Clear, OneLaunch, Busy
  <2>2. \A s \in Server : server[s].phase = "listening" => \A ip \in Ip : registry[ip] # s
    BY <1>3, NullIsNew DEF Clear, Live, Keys, Listens
  <2>3. UNCHANGED <<step, made, server>> BY <1>3 DEF Clear
  <2>4. Awaited' BY <2>1, <2>2, <2>3 DEF Awaited, Held, Expected, Waits
  <2> QED BY <1>3, <2>1, <2>4 DEF Clear, OneLaunch, Afoot, Live, Busy, Keys
<1>4. ASSUME NEW ip \in Ip, StopNext(ip)
      PROVE  (OneLaunch /\ Awaited /\ Live)'
  <2>1. ip \in Keys /\ ip \in todo /\ Listens(ip) /\ main = "stop" BY <1>4 DEF StopNext, Live
  <2>2. OnePhase(registry[ip], "closing")
    <3>1. CASE UNCHANGED server
      <4>1. server[registry[ip]] \in Servers /\ registry[ip] \in Server BY <2>1 DEF Keys
      <4>2. server' = [server EXCEPT ![registry[ip]].phase = "closing"] BY <1>4, <2>1 DEF StopNext, Listens
      <4> QED BY <4>1, <4>2, GoesTo DEF Phases
    <3> QED BY <1>4, <3>1, StopNextServers
  <2>3. UNCHANGED <<main, step, made, entry, registry, size>> /\ todo' = todo \ {ip} /\ Keys' = Keys
    BY <1>4 DEF StopNext, Keys
  <2>4. OneLaunch' /\ Busy = {} BY <1>4, <2>1, <2>3 DEF StopNext, OneLaunch, Afoot, Busy
  <2>5. \A i \in Keys \ {ip} : registry[i] \in Server /\ registry[i] # registry[ip]
    BY <2>1 DEF ExitInv, LaunchInv, Registered, Keys
  <2>6. Live' BY <2>1, <2>2, <2>3, <2>5 DEF Live, Listens, OnePhase
  <2>7. Awaited'
    <3>1. \A l \in Launch : step[l] \notin {"wait", "store"} BY <2>4 DEF Busy
    <3>2. registry[ip] \in Server BY <2>1 DEF Keys
    <3> QED BY <2>2, <2>3, <3>1, <3>2 DEF Awaited, Held, Expected, Waits, OnePhase
  <2> QED BY <2>4, <2>6, <2>7
<1> QED BY <1>1, <1>2, <1>3, <1>4

LEMMA AssignCalm ==
    ASSUME CalmState, NEW l \in Launch, AssignOne(l)
    PROVE  (OneLaunch /\ Awaited /\ Live)'
<1> USE DEF CalmState, Calm, Types
<1>1. /\ main = "assign" /\ l \in todo /\ todo' = todo \ {l} /\ main' \in {"idle", "assign"}
      /\ UNCHANGED <<server, registry, made, entry, pending>>
  BY DEF AssignOne
<1>2. step' = step \/ step' = [step EXCEPT ![l] = "check"]
  BY DEF AssignOne, PromptCloseRunning, Start
<1>3. step[l] = "none" /\ step'[l] \in {"none", "check"} /\ \A k \in Launch \ {l} : step'[k] = step[k]
  BY <1>1, <1>2 DEF OneLaunch
<1>4. Afoot' \subseteq Afoot BY <1>1, <1>3 DEF Afoot, Busy
<1>5. OneLaunch' BY <1>1, <1>3, <1>4 DEF OneLaunch
<1>6. Live' BY <1>1 DEF Live, Keys, Listens
<1>7. SameStage BY <1>3 DEF SameStage
<1>8. Awaited' BY <1>1, <1>7, WaitsForServer, SameAwaited
<1> QED BY <1>5, <1>6, <1>8

LEMMA LaunchCalm ==
    ASSUME CalmState, NEW l \in Launch, LaunchStep(l)
    PROVE  (OneLaunch /\ Awaited /\ Live)'
<1> USE DEF CalmState, Calm, Types
<1>1. l \in Busy /\ main \in {"idle", "assign"} /\ entry[l].ip \in Ip
  <2>1. l \in Busy
    BY DEF LaunchStep, Check, Ready, TimedOut, Store, ReadPort, Spawn, List, Busy
  <2> QED BY <2>1 DEF OneLaunch, Asked, Busy
<1>2. /\ UNCHANGED <<main, todo, size, pending, entry>>
      /\ \A k \in Launch \ {l} : step'[k] = step[k] /\ made'[k] = made[k]
  <2>1. CASE Check(l) BY <2>1, CheckServers DEF window, Found, Created
  <2>2. CASE ~Check(l)
    BY <2>2 DEF LaunchStep, Ready, TimedOut, Store, ReadPort, Spawn, List, window
  <2> QED BY <2>1, <2>2
<1>3. OneLaunch'
  <2>1. Afoot' \subseteq Afoot BY <1>1, <1>2 DEF Afoot, Busy
  <2>2. \A k \in Launch : k \in pending \/ (main = "assign" /\ k \in todo) => step'[k] = "none"
    BY <1>1, <1>2 DEF OneLaunch, Busy
  <2> QED BY <1>1, <1>2, <2>1, <2>2 DEF OneLaunch
\* Another launch is on another adapter.
<1>4. \A k \in Launch \ {l} : step[k] \in {"wait", "store"} => entry[k].ip # entry[l].ip
  BY <1>1 DEF OneLaunch, Afoot, Busy
<1>5. CASE Check(l)
  <2>1. CASE Found(l)
    <3>1. UNCHANGED <<main, todo, size, server, made, entry, registry>>
      BY <1>5, <2>1, CheckServers DEF Found, window
    <3>2. step[l] = "check" /\ step'[l] = "read" BY <1>5, <2>1, CheckServers DEF Found
    <3>3. SameStage BY <1>2, <3>2 DEF SameStage
    <3>4. Awaited' BY <3>1, <3>3, WaitsForServer, SameAwaited
    <3>5. Live' BY <3>1, SameLive
    <3> QED BY <1>3, <3>4, <3>5
  <2>2. ASSUME NEW s \in Server, Created(l, s)
        PROVE  (Awaited /\ Live)'
    <3>1. UNCHANGED registry BY <1>5, CheckServers
    <3>2. \A ip \in Keys : registry[ip] \in Server \ {s}
      BY <2>2 DEF Created, ExitInv, LaunchInv, ServerInv, Registered, Keys
    <3>3. Live' BY <1>1, <1>2, <2>2, <3>1, <3>2 DEF Live, Keys, Listens, Created
    <3>4. step'[l] = "wait" /\ made'[l] = s /\ registry[entry[l].ip] = None BY <2>2 DEF Created
    <3>5. step[l] = "check" BY <1>5 DEF Check
    <3>6. \A t \in Server : Held(t)' /\ Expected(t)'
      BY <1>2, <2>2, <3>1, <3>4, <3>5 DEF Awaited, Held, Expected, Created
    <3>7. ASSUME NEW k \in Launch PROVE Waits(k)'
      <4>1. CASE k = l BY <1>2, <2>2, <3>1, <3>4, <4>1 DEF Waits, Created
      <4>2. CASE k # l
        <5>1. step[k] \in {"wait", "store"} => made[k] \in Server \ {s}
          BY <2>2 DEF Created, ExitInv, LaunchInv, OfAdapter
        <5>2. Waits(k) BY DEF Awaited
        <5> QED BY <1>2, <2>2, <3>1, <4>2, <5>1, <5>2 DEF Waits, Created
      <4> QED BY <4>1, <4>2
    <3>8. Awaited' BY <3>6, <3>7 DEF Awaited
    <3> QED BY <3>3, <3>8
  <2> QED BY <1>3, <1>5, <2>1, <2>2, CheckServers
<1>6. CASE Ready(l) \/ TimedOut(l)
  <2>1. /\ UNCHANGED <<main, todo, size, server, made, entry, registry>> /\ step[l] = "wait"
        /\ step'[l] = IF Ready(l) THEN "store" ELSE "failed"
    BY <1>6 DEF Ready, TimedOut, window
  <2>2. made[l] \in Server BY <2>1, WaitsForServer
  <2>3. Ready(l) => server[made[l]].phase = "listening"
    BY <2>1, <2>2 DEF Ready, ExitInv, ServerInv, Awaited, Waits
  <2>4. ASSUME NEW t \in Server
        PROVE  Held(t)' /\ Expected(t)'
    <3>1. CASE t = made[l] BY <2>1, <2>3, <3>1 DEF Held, Expected
    <3>2. CASE t # made[l]
      <4>1. \A k \in Launch : made[k] = t => step'[k] = step[k] BY <1>2, <3>2
      <4>2. Held(t) /\ Expected(t) BY DEF Awaited
      <4>3. Held(t)' BY <2>1, <4>1, <4>2 DEF Held
      <4>4. Expected(t)' BY <2>1, <4>1, <4>2 DEF Expected
      <4> QED BY <4>3, <4>4
    <3> QED BY <3>1, <3>2
  <2>5. \A k \in Launch : Waits(k)' BY <1>2, <2>1, <2>3 DEF Awaited, Waits
  <2>6. Live' BY <2>1, SameLive
  <2> QED BY <1>3, <2>4, <2>5, <2>6 DEF Awaited
<1>7. CASE Store(l)
  <2>1. made[l] \in Server /\ server[made[l]].phase = "listening"
    BY <1>7 DEF Store, Awaited, Waits, ExitInv, LaunchInv, OfAdapter
  <2>2. /\ registry' = [registry EXCEPT ![entry[l].ip] = made[l]] /\ step[l] = "store" /\ step'[l] = "read"
        /\ UNCHANGED <<server, made>>
    BY <1>7 DEF Store
  <2>3. registry'[entry[l].ip] = made[l] /\ \A ip \in Ip \ {entry[l].ip} : registry'[ip] = registry[ip]
    BY <1>1, <2>2
  <2>4. registry[entry[l].ip] = None BY <1>7 DEF Store, Awaited, Waits
  <2>5. Live' BY <1>1, <1>2, <2>1, <2>2, <2>3 DEF Live, Keys, Listens
  <2>6. ASSUME NEW s \in Server PROVE Held(s)'
    <3>1. CASE \E ip \in Ip : registry[ip] = s BY <2>3, <2>4, <3>1, NullIsNew DEF Held
    <3>2. CASE s = made[l] BY <1>1, <2>3, <3>2 DEF Held
    <3>3. CASE s # made[l] /\ ~\E ip \in Ip : registry[ip] = s
      BY <1>2, <2>2, <3>3 DEF Awaited, Held
    <3> QED BY <3>1, <3>2, <3>3
  <2>7. \A s \in Server : Expected(s)' BY <1>2, <2>1, <2>2 DEF Awaited, Expected
  <2>8. ASSUME NEW k \in Launch PROVE Waits(k)'
    <3>1. CASE k = l BY <2>2, <3>1 DEF Waits
    <3>2. CASE k # l
      <4>1. step[k] \in {"wait", "store"} => entry[k].ip \in Ip \ {entry[l].ip}
        BY <1>4, <3>2 DEF Asked
      <4>2. Waits(k) BY DEF Awaited
      <4> QED BY <1>2, <2>2, <2>3, <3>2, <4>1, <4>2 DEF Waits
    <3> QED BY <3>1, <3>2
  <2> QED BY <1>3, <2>5, <2>6, <2>7, <2>8 DEF Awaited
<1>8. CASE Spawn(l) \/ List(l) \/ ReadPort(l)
  <2>1. UNCHANGED <<main, todo, size, server, made, entry, registry>>
    BY <1>8 DEF ReadPort, Spawn, List, window
  <2>2. step[l] \in {"read", "spawn", "list"} /\ step'[l] \notin {"wait", "store"}
    BY <1>8 DEF ReadPort, Spawn, List
  <2>3. ASSUME NEW s \in Server
        PROVE  Held(s)' /\ Expected(s)'
    <3>1. \A k \in Launch : step[k] \in {"wait", "store"} \/ step[k] = "failed" => step'[k] = step[k]
      BY <1>2, <2>2
    <3>2. Held(s) /\ Expected(s) BY DEF Awaited
    <3>3. Held(s)' BY <2>1, <3>1, <3>2 DEF Held
    <3>4. Expected(s)' BY <2>1, <3>1, <3>2 DEF Expected
    <3> QED BY <3>3, <3>4
  <2>4. \A k \in Launch : Waits(k)' BY <1>2, <2>1, <2>2 DEF Awaited, Waits
  <2>5. Live' BY <2>1, SameLive
  <2> QED BY <1>3, <2>3, <2>4, <2>5 DEF Awaited
<1> QED BY <1>5, <1>6, <1>7, <1>8 DEF LaunchStep

LEMMA ServerCalm ==
    ASSUME CalmState, NEW s \in Server, Listen(s) \/ CannotListen(s) \/ Close(s)
    PROVE  (OneLaunch /\ Awaited /\ Live)'
<1> USE DEF CalmState, Calm, Types
<1>1. UNCHANGED <<main, todo, size, pending, step, made, entry, registry>>
  BY DEF Listen, CannotListen, Close, window, threads
<1>2. OneLaunch' /\ Keys' = Keys BY <1>1 DEF OneLaunch, Afoot, Busy, Keys
<1>3. CASE Listen(s) \/ CannotListen(s)
  <2>1. server[s].phase = "starting" /\ server[s].port = None
    BY <1>3 DEF Listen, CannotListen, ExitInv, ServerInv
  <2>2. /\ \/ server'[s].phase = "listening"
           \/ server'[s].phase = "dead" /\ server'[s].port = None
        /\ \A t \in Server \ {s} : server'[t] = server[t]
    BY <1>3, <2>1, ListenServers, CannotListenServers DEF OnePhase
  <2>3. \A ip \in Keys : registry[ip] \in Server \ {s}
    BY <2>1 DEF ExitInv, LaunchInv, ServerInv, Registered, Keys
  <2>4. Live' BY <1>1, <1>2, <2>2, <2>3 DEF Live, Listens
  <2>5. \A t \in Server : Held(t)' /\ Expected(t)' BY <1>1, <2>1, <2>2 DEF Awaited, Held, Expected
  <2>6. \A k \in Launch : Waits(k)' BY <1>1, <2>1, <2>2, WaitsForServer DEF Awaited, Waits
  <2> QED BY <1>2, <2>4, <2>5, <2>6 DEF Awaited
<1>4. CASE Close(s)
  <2>1. server[s].phase \in {"closing", "closed"} /\ server'[s].phase \in {"closed", "dead"}
        /\ \A t \in Server \ {s} : server'[t] = server[t]
    BY <1>4, CloseServers DEF OnePhase
  <2>2. Live' BY <1>1, <2>1, SameLive
  <2>3. Awaited' BY <1>1, <2>1, WaitsForServer, SameAwaited DEF SameStage
  <2> QED BY <1>2, <2>2, <2>3
<1> QED BY <1>3, <1>4

LEMMA CalmStep ==
    ASSUME Types, Asked, ExitInv, CalmInv, [Next]_vars
    PROVE  CalmInv'
<1> SUFFICES ASSUME Calm' PROVE (OneLaunch /\ Awaited /\ Live)'
  BY DEF CalmInv
<1>1. CalmState BY CalmBefore DEF CalmInv, CalmState
<1>2. ~Quit /\ ~Return BY DEF Quit, Return, EndProcess, Calm
<1>3. UNCHANGED vars => (OneLaunch /\ Awaited /\ Live)'
  BY <1>1 DEF CalmState, vars, window, threads, OneLaunch, Afoot, Awaited, Held, Expected, Waits, Live, Busy, Keys, Listens
<1> QED BY <1>1, <1>2, <1>3, UserCalm, StopCalm, AssignCalm, LaunchCalm, ServerCalm DEF Next

\* For any adapters, launches and servers, also such as are late or cannot listen:
\* of a user who has no two launches on one adapter under way and lets launches end
\* before Stop All, the registry has one proxy for an adapter, which runs, and loses
\* none but those whose launch gave up waiting (get_or_start looks a proxy up and
\* creates it in two steps, in the thread of each launch).
THEOREM RegistryAlwaysTrue == Spec => []RegistryTrue
<1> DEFINE IInv == Types /\ Asked /\ Size /\ Late /\ ExitInv /\ Ended /\ CalmInv
<1>1. Init => IInv
  <2>1. Cardinality(Ip) \in Nat BY AdaptersAreFinite, FS_CardinalityType
  <2>2. Init => Size /\ Late /\ Ended BY <2>1, BoundsAreRight DEF Init, Size, Late, Ended
  <2> QED BY <2>2, TypesInit, ExitInit, CalmInit
<1>2. IInv /\ [Next]_vars => IInv'
  BY TypesStep, SizeStep, LateStep, ExitStep, EndedStep, CalmStep
<1>3. IInv => RegistryTrue
  <2> SUFFICES ASSUME IInv PROVE RegistryTrue
    OBVIOUS
  <2>1. TypeOK BY DEF TypeOK, Types, Size, Late
  <2>2. ASSUME Patient, NEW s \in Server, server[s].phase = "listening", ~GivenUp(s)
        PROVE  /\ OneLaunch /\ \A l \in Launch : step[l] \in {"wait", "store"} => registry[entry[l].ip] = None
               /\ \/ registry[server[s].ip] = s
                  \/ \E l \in Busy : entry[l].ip = server[s].ip /\ step[l] \in {"wait", "store"} /\ made[l] = s
    <3>1. Calm /\ OneLaunch /\ Awaited BY <2>2 DEF Ended, Calm, CalmInv
    <3>2. Held(s) /\ \A l \in Launch : Waits(l) BY <3>1 DEF Awaited
    <3>3. \A ip \in Ip : registry[ip] = s => server[s].ip = ip
      BY NullIsNew DEF ExitInv, LaunchInv, Registered, Keys
    <3>4. \A l \in Launch : step[l] \in {"wait", "store"} => l \in Busy /\ server[made[l]].ip = entry[l].ip
      BY DEF ExitInv, LaunchInv, OfAdapter, Busy
    <3>5. CASE \E ip \in Ip : registry[ip] = s BY <3>1, <3>2, <3>3, <3>5 DEF Waits
    <3>6. CASE \E l \in Launch : made[l] = s /\ step[l] \in {"wait", "store"}
      BY <3>1, <3>2, <3>4, <3>6 DEF Waits
    <3> QED BY <2>2, <3>2, <3>5, <3>6 DEF Held, GivenUp
  <2>3. NothingOrphaned
    BY <2>2 DEF NothingOrphaned, Busy
  <2>5. OnePerAdapter
    <3> SUFFICES ASSUME Patient,
                        NEW s \in Server, NEW t \in Server, ~GivenUp(s), ~GivenUp(t),
                        server[s].phase = "listening", server[t].phase = "listening",
                        server[s].ip = server[t].ip
                 PROVE  s = t
      BY DEF OnePerAdapter
    <3>1. OneLaunch /\ \A l \in Launch : step[l] \in {"wait", "store"} => registry[entry[l].ip] = None
      BY <2>2
    <3>2. \A k, l \in Busy : entry[k].ip = entry[l].ip => k = l BY <3>1 DEF OneLaunch, Afoot
    <3>3. ASSUME NEW k \in Busy, entry[k].ip = server[s].ip, step[k] \in {"wait", "store"}
          PROVE  registry[server[s].ip] \notin Server
      BY <3>1, <3>3, NullIsNew DEF Busy
    <3> QED BY <2>2, <3>2, <3>3
  <2>4. RegistryLive BY DEF RegistryLive, CalmInv, Calm, Live, Listens
  <2> QED BY <2>1, <2>3, <2>4, <2>5 DEF RegistryTrue
<1> QED BY <1>1, <1>2, <1>3, PTL DEF Spec

-----------------------------------------------------------------------------
(* One connection *)

Counts == 0..MaxChunks
Refusals == {"not allowed", "failure"} \cup S!Failures
Answer == {"no auth", "not allowed", "failure", "success"} \cup S!Failures

SocksTypes ==
    /\ stage \in {"greeting", "request", "address", "connect", "relay", "end"}
    /\ replies \in Seq(Answer)
    /\ writer \in {"open", "closed"} /\ remote \in {"none", "open", "closed"}
    /\ clientEnd \in {"open", "eof", "gone"} /\ remoteEnd \in {"open", "eof", "gone"}
    /\ deaf \subseteq S!Way
    /\ sent \in [S!Way -> Counts] /\ arrived \in [S!Way -> Counts]
    /\ read \in [S!Way -> Counts] /\ delivered \in [S!Way -> Counts]
    /\ pump \in [S!Way -> {"off", "read", "write", "done"}]

\* What has been answered by each stage of the handler.
Said ==
    /\ stage = "greeting" => replies = <<>>
    /\ stage \in {"request", "address", "connect"} => Len(replies) = 1
    /\ stage \in {"greeting", "request", "address", "connect"} => remote = "none"
    /\ stage = "relay" => remote # "none"
    /\ Len(replies) <= 2
    /\ remote # "none" => Len(replies) = 2 /\ replies[2] = "success"
    /\ remote = "none" => ~(Len(replies) = 2 /\ replies[2] = "success")

\* Of each direction: nothing before the relay, and at most one chunk in its task's
\* hands, which is lost only when the peer it goes to cannot take it.
Piped(w) ==
    /\ remote = "none" => pump[w] = "off" /\ sent[w] = 0
    /\ delivered[w] <= read[w] /\ read[w] <= arrived[w] /\ arrived[w] <= sent[w]
    /\ pump[w] \in {"off", "read"} => read[w] = delivered[w]
    /\ pump[w] = "write" => read[w] = delivered[w] + 1
    /\ pump[w] = "done" => read[w] = delivered[w] \/ ~S!Open(w) \/ S!Gone(w)

SocksInv == SocksTypes /\ Said /\ \A w \in S!Way : Piped(w)

LEMMA First == ASSUME NEW code \in Answer PROVE <<code>> \in Seq(Answer) /\ Len(<<code>>) = 1
  OBVIOUS

LEMMA OneMore ==
    ASSUME NEW q \in Seq(Answer), NEW code \in Answer
    PROVE  /\ q \o <<code>> \in Seq(Answer) /\ Len(q \o <<code>>) = Len(q) + 1
           /\ (q \o <<code>>)[Len(q) + 1] = code
           /\ Append(q, code) \in Seq(Answer) /\ Len(Append(q, code)) = Len(q) + 1
           /\ Append(q, code)[Len(q) + 1] = code
<1>1. <<code>> \in Seq(Answer) /\ Len(<<code>>) = 1 /\ <<code>>[1] = code OBVIOUS
<1> QED BY <1>1

LEMMA Second ==
    ASSUME NEW q \in Seq(Answer), Len(q) = 1, NEW code \in Answer
    PROVE  /\ q \o <<code>> \in Seq(Answer) /\ Len(q \o <<code>>) = 2 /\ (q \o <<code>>)[2] = code
           /\ Append(q, code) \in Seq(Answer) /\ Len(Append(q, code)) = 2 /\ Append(q, code)[2] = code
<1> DEFINE more == q \o <<code>>
          longer == Append(q, code)
<1>1. Len(q) + 1 = 2 OBVIOUS
<1>2. /\ more \in Seq(Answer) /\ Len(more) = Len(q) + 1 /\ more[Len(q) + 1] = code
      /\ longer \in Seq(Answer) /\ Len(longer) = Len(q) + 1 /\ longer[Len(q) + 1] = code
  BY OneMore
<1> QED BY <1>1, <1>2, Zenon

LEMMA NoMore == ASSUME NEW q \in Seq(Answer) PROVE q \o <<>> = q
  OBVIOUS

LEMMA SocksInit == S!Init => SocksInv
<1> SUFFICES ASSUME S!Init PROVE SocksInv
  OBVIOUS
<1>1. 0 \in Counts BY ChunksAreCounted DEF Counts
<1>2. SocksTypes BY <1>1 DEF S!Init, SocksTypes
<1>3. Said BY DEF S!Init, Said
<1>4. \A w \in S!Way : Piped(w) BY DEF S!Init, Piped
<1> QED BY <1>2, <1>3, <1>4 DEF SocksInv

\* The handler, up to the relay and at its end.
LEMMA HandlerStep == SocksInv /\ S!Handler => SocksInv'
<1> SUFFICES ASSUME SocksInv, S!Handler PROVE SocksInv'
  OBVIOUS
<1> USE DEF SocksInv
<1>a. ASSUME UNCHANGED <<remote, clientEnd, remoteEnd, deaf, sent, arrived, read, delivered, pump>>,
             writer' = writer \/ writer' = "closed"
      PROVE  \A w \in S!Way : Piped(w)'
  BY <1>a DEF Piped, S!Open, S!Gone, S!Peer, S!Other
<1>b. ASSUME S!Quiet, remote = "none", stage' = "end", writer' = "closed",
             \/ replies' = replies /\ Len(replies) <= 1
             \/ \E code \in Refusals : Len(replies) = 1 /\ replies' = replies \o <<code>>
      PROVE  SocksInv'
  <2>1. UNCHANGED <<remote, clientEnd, remoteEnd, deaf, sent, arrived, read, delivered, pump>>
    BY <1>b DEF S!Quiet, S!peers, S!relay
  <2>2. /\ replies' \in Seq(Answer) /\ Len(replies') <= 2
        /\ ~(Len(replies') = 2 /\ replies'[2] = "success")
    <3>1. CASE replies' = replies /\ Len(replies) <= 1 BY <3>1 DEF SocksTypes
    <3>2. CASE \E code \in Refusals : Len(replies) = 1 /\ replies' = replies \o <<code>>
      <4>1. PICK code \in Refusals : Len(replies) = 1 /\ replies' = replies \o <<code>> BY <3>2
      <4>2. code # "success" /\ code \in Answer BY DEF Refusals, Answer, S!Failures
      <4>3. replies \in Seq(Answer) BY DEF SocksTypes
      <4>4. replies' \in Seq(Answer) /\ Len(replies') = 2 /\ replies'[2] = code
        BY <4>1, <4>2, <4>3, Second
      <4> QED BY <4>2, <4>4
    <3> QED BY <1>b, <3>1, <3>2
  <2>3. SocksTypes' BY <1>b, <2>1, <2>2 DEF SocksTypes
  <2>4. Said' BY <1>b, <2>1, <2>2 DEF Said
  <2> QED BY <1>a, <1>b, <2>1, <2>3, <2>4
<1>1. CASE S!Incomplete
  <2>1. replies' = replies /\ Len(replies) <= 1 /\ remote = "none"
    BY <1>1, NoMore DEF S!Incomplete, S!Leave, Said, SocksTypes
  <2> QED BY <1>1, <1>b, <2>1 DEF S!Incomplete, S!Leave
<1>2. CASE S!Greeting
  <2>0. stage = "greeting" /\ replies = <<>> /\ remote = "none" /\ S!Quiet
    BY <1>2 DEF S!Greeting, Said
  <2>1. CASE S!Leave(<<>>)
    <3>1. replies' = replies /\ Len(replies) = 0 BY <2>0, <2>1, NoMore DEF S!Leave, SocksTypes
    <3> QED BY <1>b, <2>0, <2>1, <3>1 DEF S!Leave
  <2>2. CASE stage' = "request" /\ replies' = <<"no auth">> /\ UNCHANGED writer
    <3>1. UNCHANGED <<remote, clientEnd, remoteEnd, deaf, sent, arrived, read, delivered, pump>>
      BY <2>0 DEF S!Quiet, S!peers, S!relay
    <3>0. stage' = "request" /\ writer' = writer BY <2>2
    <3>2. replies' \in Seq(Answer) /\ Len(replies') = 1
      <4>1. "no auth" \in Answer BY DEF Answer
      <4> QED BY <2>2, <4>1, First
    <3>3. SocksTypes' BY <3>0, <3>1, <3>2 DEF SocksTypes
    <3>4. Said' BY <2>0, <3>0, <3>1, <3>2 DEF Said
    <3> QED BY <1>a, <2>2, <3>1, <3>3, <3>4
  <2> QED BY <1>2, <2>1, <2>2 DEF S!Greeting
<1>3. CASE S!Request
  <2>0. stage = "request" /\ Len(replies) = 1 /\ remote = "none" /\ S!Quiet
    BY <1>3 DEF S!Request, Said
  <2>1. ASSUME NEW code \in {"not allowed", "failure"}, S!Leave(<<code>>) PROVE SocksInv'
    BY <1>b, <2>0, <2>1 DEF S!Leave, Refusals
  <2>2. CASE stage' = "address" /\ UNCHANGED <<replies, writer>>
    <3>1. UNCHANGED <<remote, clientEnd, remoteEnd, deaf, sent, arrived, read, delivered, pump>>
      BY <2>0 DEF S!Quiet, S!peers, S!relay
    <3>2. SocksTypes' /\ Said' BY <2>0, <2>2, <3>1 DEF SocksTypes, Said
    <3> QED BY <1>a, <2>2, <3>1, <3>2
  <2> QED BY <1>3, <2>1, <2>2 DEF S!Request
<1>4. CASE S!Address
  <2>1. /\ UNCHANGED <<replies, writer, remote, clientEnd, remoteEnd, deaf, sent, arrived, read, delivered, pump>>
        /\ stage = "address" /\ stage' = "connect"
    BY <1>4 DEF S!Address, S!Quiet, S!peers, S!relay
  <2>2. SocksTypes' /\ Said' BY <2>1 DEF SocksTypes, Said
  <2> QED BY <1>a, <2>1, <2>2
<1>5. CASE S!ConnectFails
  <2>1. Len(replies) = 1 /\ remote = "none" BY <1>5 DEF S!ConnectFails, Said
  <2>2. ASSUME NEW code \in S!Failures, S!Leave(<<code>>) PROVE SocksInv'
    <3>1. code \in Refusals BY DEF Refusals
    <3> QED BY <1>5, <1>b, <2>1, <2>2, <3>1 DEF S!ConnectFails, S!Leave
  <2>3. CASE S!Leave(<<>>)
    <3>1. replies' = replies BY <2>3, NoMore DEF S!Leave, SocksTypes
    <3> QED BY <1>5, <1>b, <2>1, <2>3, <3>1 DEF S!ConnectFails, S!Leave
  <2> QED BY <1>5, <2>2, <2>3 DEF S!ConnectFails
<1>6. CASE S!Connect
  <2>1. /\ UNCHANGED <<clientEnd, remoteEnd, deaf, sent, arrived, read, delivered>>
        /\ stage' \in {"relay", "end"} /\ writer' \in {writer, "closed"} /\ remote' = "open"
        /\ pump' = pump \/ pump' = [w \in S!Way |-> "read"]
        /\ replies' = Append(replies, "success") /\ remote = "none" /\ Len(replies) = 1
    BY <1>6 DEF S!Connect, S!peers, Said
  <2>0. replies' \in Seq(Answer) /\ Len(replies') = 2 /\ replies'[2] = "success"
    <3>1. "success" \in Answer BY DEF Answer
    <3> QED BY <2>1, <3>1, Second DEF SocksTypes
  <2>2. SocksTypes' BY <2>1, <2>0 DEF SocksTypes
  <2>3. Said' BY <2>1, <2>0 DEF Said
  <2>4. ASSUME NEW w \in S!Way PROVE Piped(w)'
    <3>1. pump[w] = "off" /\ pump'[w] \in {"off", "read"} BY <2>1 DEF Piped
    <3> QED BY <2>1, <3>1 DEF Piped
  <2> QED BY <2>2, <2>3, <2>4
<1>7. CASE S!Finish
  <2>1. /\ UNCHANGED <<replies, clientEnd, remoteEnd, deaf, sent, arrived, read, delivered, pump>>
        /\ stage = "relay" /\ stage' = "end" /\ remote' = "closed" /\ writer' = "closed" /\ remote # "none"
    BY <1>7 DEF S!Finish, S!peers, S!relay, Said
  <2>2. SocksTypes' BY <2>1 DEF SocksTypes
  <2>3. Said' BY <2>1 DEF Said
  <2>4. ASSUME NEW w \in S!Way PROVE Piped(w)' BY <2>1 DEF Piped, S!Open, S!Gone, S!Peer, S!Other
  <2> QED BY <2>2, <2>3, <2>4
<1> QED BY <1>1, <1>2, <1>3, <1>4, <1>5, <1>6, <1>7 DEF S!Handler

\* The two directions.
LEMMA RelayStep ==
    ASSUME SocksInv, NEW w \in S!Way, S!Arrive(w) \/ S!Read(w) \/ S!Write(w) \/ S!EndRelay(w)
    PROVE  SocksInv'
<1> USE DEF SocksInv
<1>n. /\ \A v \in S!Way : /\ sent[v] \in Nat /\ sent[v] <= MaxChunks /\ arrived[v] \in Nat
                            /\ read[v] \in Nat /\ delivered[v] \in Nat
      /\ MaxChunks \in Nat
  BY ChunksAreCounted DEF SocksTypes, Counts
<1>1. CASE S!Arrive(w)
  <2>1. /\ UNCHANGED <<stage, replies, writer, remote, clientEnd, remoteEnd, deaf, sent, read, delivered, pump>>
        /\ arrived' = [arrived EXCEPT ![w] = @ + 1] /\ arrived[w] < sent[w]
    BY <1>1 DEF S!Arrive, S!peers, S!relay
  <2>2. arrived[w] + 1 \in Counts BY <1>n, <2>1 DEF Counts
  <2>3. SocksTypes' /\ Said' BY <2>1, <2>2 DEF SocksTypes, Said
  <2>4. ASSUME NEW v \in S!Way PROVE Piped(v)' BY <1>n, <2>1 DEF Piped, S!Open, S!Gone, S!Peer, S!Other, SocksTypes
  <2> QED BY <2>3, <2>4
<1>2. CASE S!Read(w)
  <2>1. /\ UNCHANGED <<stage, replies, writer, remote, clientEnd, remoteEnd, deaf, sent, arrived, delivered>>
        /\ read' = [read EXCEPT ![w] = @ + 1] /\ read[w] < arrived[w]
        /\ pump' = [pump EXCEPT ![w] = "write"] /\ pump[w] = "read"
    BY <1>2 DEF S!Read, S!peers
  <2>2. read[w] + 1 \in Counts
    <3>1. arrived[w] <= sent[w] BY DEF Piped
    <3> QED BY <1>n, <2>1, <3>1 DEF Counts
  <2>3. SocksTypes' /\ Said' BY <2>1, <2>2 DEF SocksTypes, Said
  <2>4. ASSUME NEW v \in S!Way PROVE Piped(v)' BY <1>n, <2>1 DEF Piped, S!Open, S!Gone, S!Peer, S!Other, SocksTypes
  <2> QED BY <2>3, <2>4
<1>3. CASE S!Write(w)
  <2>1. /\ UNCHANGED <<stage, replies, writer, remote, clientEnd, remoteEnd, deaf, sent, arrived, read>>
        /\ delivered' = [delivered EXCEPT ![w] = @ + 1]
        /\ pump' = [pump EXCEPT ![w] = "read"] /\ pump[w] = "write"
    BY <1>3 DEF S!Write, S!peers
  <2>2. delivered[w] + 1 \in Counts
    <3>1. read[w] = delivered[w] + 1 /\ read[w] <= arrived[w] /\ arrived[w] <= sent[w] BY <2>1 DEF Piped
    <3> QED BY <1>n, <3>1 DEF Counts
  <2>3. SocksTypes' /\ Said' BY <2>1, <2>2 DEF SocksTypes, Said
  <2>4. ASSUME NEW v \in S!Way PROVE Piped(v)' BY <1>n, <2>1 DEF Piped, S!Open, S!Gone, S!Peer, S!Other, SocksTypes
  <2> QED BY <2>3, <2>4
<1>4. CASE S!EndRelay(w)
  <2>1. /\ UNCHANGED <<stage, replies, clientEnd, remoteEnd, deaf, sent, arrived, read, delivered>>
        /\ pump' = [pump EXCEPT ![w] = "done"] /\ pump[w] \in {"read", "write"}
        /\ (pump[w] = "write" => ~S!Open(w) \/ S!Gone(w))
        /\ writer' = (IF w = "down" THEN "closed" ELSE writer)
        /\ remote' = (IF w = "up" THEN "closed" ELSE remote)
    BY <1>4 DEF S!EndRelay, S!CloseTarget, S!peers
  <2>2. remote # "none" BY <2>1 DEF Piped
  <2>3. SocksTypes' BY <2>1 DEF SocksTypes
  <2>4. Said' BY <2>1, <2>2 DEF Said
  <2>5. Piped(w)' BY <2>1, <2>2 DEF Piped, S!Open, S!Gone, S!Peer, S!Other, SocksTypes
  <2>6. ASSUME NEW v \in S!Way \ {w} PROVE Piped(v)' BY <2>1, <2>2 DEF Piped, S!Open, S!Gone, S!Peer, S!Other, SocksTypes
  <2> QED BY <2>3, <2>4, <2>5, <2>6
<1> QED BY <1>1, <1>2, <1>3, <1>4

\* A peer sends, stops reading, ends its side or goes away; it does not come back.
LEMMA PeersStep == SocksInv /\ S!Peers => SocksInv'
<1> SUFFICES ASSUME SocksInv, S!Peers PROVE SocksInv'
  OBVIOUS
<1> USE DEF SocksInv
<1>1. ASSUME NEW w \in S!Way, S!Send(w) PROVE SocksInv'
  <2>1. /\ UNCHANGED <<stage, replies, writer, remote, clientEnd, remoteEnd, deaf, arrived, read, delivered, pump>>
        /\ sent' = [sent EXCEPT ![w] = @ + 1] /\ sent[w] < MaxChunks /\ remote = "open"
    BY <1>1 DEF S!Send, S!relay
  <2>2. sent[w] + 1 \in Counts /\ \A v \in S!Way : {sent[v], arrived[v]} \subseteq Nat
    BY <2>1, ChunksAreCounted DEF SocksTypes, Counts
  <2>3. SocksTypes' /\ Said' BY <2>1, <2>2 DEF SocksTypes, Said
  <2>4. ASSUME NEW v \in S!Way PROVE Piped(v)' BY <2>1, <2>2 DEF Piped, S!Open, S!Gone, S!Peer, S!Other, SocksTypes
  <2> QED BY <2>3, <2>4
<1>2. ASSUME NEW how \in {"eof", "gone"}, S!ClientEnds(how) \/ S!RemoteEnds(how) PROVE SocksInv'
  <2>1. /\ UNCHANGED <<stage, replies, writer, remote, deaf, sent, arrived, read, delivered, pump>>
        /\ clientEnd' = clientEnd \/ (clientEnd # "gone" /\ clientEnd' = how)
        /\ remoteEnd' = remoteEnd \/ (remoteEnd # "gone" /\ remoteEnd' = how)
    BY <1>2 DEF S!ClientEnds, S!RemoteEnds, S!relay
  <2>2. SocksTypes' /\ Said' BY <2>1 DEF SocksTypes, Said
  <2>3. ASSUME NEW v \in S!Way PROVE Piped(v)' BY <2>1 DEF Piped, S!Open, S!Gone, S!Peer, S!Other
  <2> QED BY <2>2, <2>3
<1>3. ASSUME NEW w \in S!Way, S!StopsReading(w) PROVE SocksInv'
  <2>1. /\ UNCHANGED <<stage, replies, writer, remote, clientEnd, remoteEnd, sent, arrived, read, delivered, pump>>
        /\ deaf' = deaf \cup {w}
    BY <1>3 DEF S!StopsReading, S!relay
  <2>2. SocksTypes' /\ Said' BY <2>1 DEF SocksTypes, Said
  <2>3. ASSUME NEW v \in S!Way PROVE Piped(v)' BY <2>1 DEF Piped, S!Open, S!Gone, S!Peer, S!Other
  <2> QED BY <2>2, <2>3
<1> QED BY <1>1, <1>2, <1>3 DEF S!Peers

\* What holds of a connection follows.
LEMMA SocksClaims == SocksInv => RelayIsRight
<1> SUFFICES ASSUME SocksInv PROVE RelayIsRight
  OBVIOUS
<1> USE DEF SocksInv
<1>1. S!TypeOK BY DEF SocksTypes, S!TypeOK, Counts, Answer
<1>2. S!OneReply
  <2>1. delivered["down"] > 0 => remote # "none"
    <3>1. "down" \in S!Way BY DEF S!Way
    <3>2. {sent["down"], arrived["down"], read["down"], delivered["down"]} \subseteq Int
      BY <3>1, ChunksAreCounted DEF SocksTypes, Counts
    <3> QED BY <3>1, <3>2 DEF Piped
  <2> QED BY <2>1 DEF SocksTypes, Said, S!OneReply
<1>3. S!Prefix BY DEF S!Prefix, Piped
<1> QED BY <1>1, <1>2, <1>3 DEF RelayIsRight

\* For any number of chunks, whoever ends or goes away at whatever moment: a
\* request has one reply at most, success if and only if a connection was opened, and each
\* peer gets a prefix of what the other sent (_socks5_handshake, _relay).
THEOREM AlwaysRelayed == WindowsSpec => []RelayIsRight
<1>1. WindowsInit => SocksInv BY SocksInit DEF WindowsInit
<1>2. SocksInv /\ UNCHANGED connection => SocksInv'
  BY DEF SocksInv, SocksTypes, Said, Piped, S!Open, S!Gone, S!Peer, S!Other, connection
<1>3. SocksInv /\ [WindowsNext]_<<part, vars, connection>> => SocksInv'
  BY <1>2, HandlerStep, RelayStep, PeersStep DEF WindowsNext, S!Next, S!Relay
<1> QED BY <1>1, <1>3, SocksClaims, PTL DEF WindowsSpec
=============================================================================
