------------------------------ MODULE Proxies ------------------------------
(***************************************************************************)
(* The Windows edition: one local SOCKS5 proxy for each adapter, bound to  *)
(* the adapter's address, and applications that are launched with the port *)
(* of a proxy (windows/core/proxy_engine.py, app_launcher.py).  The window *)
(* (gui/app.py) launches from a thread for each application and stops all  *)
(* proxies from its main thread; the command line (cli.py) launches from   *)
(* its only thread and returns.  Nothing locks the registry of proxies.    *)
(***************************************************************************)
EXTENDS FiniteSets, Naturals

CONSTANTS
    Ip,             \* the adapters, by their addresses
    App, Firefox,   \* application names; those that launch_app takes for Firefox
    Launch,         \* the entries a user makes during a session
    Server,         \* names for Socks5ProxyServer objects
    Port,
    None,
    Default, Refused,   \* where traffic goes that no proxy carries
    Reuse,          \* the system may hand out a port again once it is free
    MaxSlow         \* bound on proxies that are late or cannot listen

ASSUME FirefoxIsAnApp == Firefox \subseteq App
ASSUME AdaptersAreFinite == IsFiniteSet(Ip)
ASSUME RoutesDiffer == Default # Refused /\ {Default, Refused} \cap (Ip \cup Port) = {}
ASSUME NullIsNew == None \notin Ip \cup App \cup Server \cup Port \cup {Default, Refused}
ASSUME BoundsAreRight == Reuse \in BOOLEAN /\ MaxSlow \in Nat

VARIABLES
    user,           \* "window", "patient" (has no two launches on one adapter under way,
                    \* and lets launches end before Stop All) or "command" (`cli.py assign`)
    \* the process: its main thread, and a thread for each launch
    main,           \* "idle", "assign", "stop", "clear" or "off"
    todo,           \* the entries to assign, or the adapters whose proxy to stop
    size,           \* the size of the registry when its iteration began
    pending, active,
    entry,          \* what each launch is asked to start, and where
    step, made, port,   \* of each launch: the next step, its server, its port
    registry,       \* ProxyRegistry._proxies
    \* the servers and their threads
    server,
    slow,
    \* the applications: the proxy port each was given, Default for no proxy
    app

threads == <<entry, step, made, port>>
window == <<user, main, todo, size, pending, active>>
vars == <<window, threads, registry, server, slow, app>>

Servers == [ip : Ip \cup {None}, phase : {"new", "starting", "listening", "closing", "closed", "dead"},
            port : Port \cup {None}]
Steps == {"none", "check", "wait", "store", "read", "spawn", "list", "done", "failed"}
Busy == {l \in Launch : step[l] \notin {"none", "done", "failed"}}
Listening(s) == server[s].phase \in {"listening", "closing"}
Keys == {ip \in Ip : registry[ip] # None}
Cli == user = "command"
Patient == user # "window"

\* One of a set, if it has any: names that are new are taken in one order.
One(S) == IF S = {} THEN {} ELSE {CHOOSE x \in S : TRUE}
Unused == One({s \in Server : server[s].phase = "new"})

Init ==
    /\ user \in {"window", "patient", "command"}
    /\ main = "idle" /\ todo = {} /\ size = 0
    /\ pending = {} /\ active = {}
    /\ entry = [l \in Launch |-> [name |-> None, ip |-> None]]
    /\ step = [l \in Launch |-> "none"]
    /\ made = [l \in Launch |-> None]
    /\ port = [l \in Launch |-> None]
    /\ registry = [ip \in Ip |-> None]
    /\ server = [s \in Server |-> [ip |-> None, phase |-> "new", port |-> None]]
    /\ slow = 0
    /\ app = [l \in Launch |-> None]

\* Where the traffic of an application goes: to the server that listens at its
\* port, which opens every connection from its own address.
Route(l) ==
    LET at == {s \in Server : Listening(s) /\ server[s].port = app[l]}
    IN  IF app[l] \in {None, Default} THEN app[l]
        ELSE IF at = {} THEN Refused
        ELSE server[CHOOSE s \in at : TRUE].ip

(***************************************************************************)
(* The window: the queue, Assign All, Stop All.                            *)
(***************************************************************************)
Idle == main = "idle"

Add(l, name, ip) ==
    /\ Idle
    /\ step[l] = "none"
    /\ Cli => \A k \in Launch : entry[k].name = None
    /\ entry' = [entry EXCEPT ![l] = [name |-> name, ip |-> ip]]
    /\ pending' = pending \cup {l}
    /\ UNCHANGED <<user, main, todo, size, active, step, made, port, registry, server, slow, app>>

\* Remove takes one entry out of the queue, Clear Queue takes all.
Drop ==
    /\ Idle /\ ~Cli
    /\ \/ \E l \in pending : pending' = pending \ {l}
       \/ pending # {} /\ pending' = {}
    /\ UNCHANGED <<user, main, todo, size, active, threads, registry, server, slow, app>>

\* The queue is emptied before its entries are assigned.
AssignAll ==
    /\ Idle /\ pending # {}
    /\ Patient => \A k, l \in pending \cup Busy : entry[k].ip = entry[l].ip => k = l
    /\ main' = "assign" /\ todo' = pending /\ pending' = {}
    /\ UNCHANGED <<user, size, active, threads, registry, server, slow, app>>

Start(l) == step' = [step EXCEPT ![l] = "check"]

\* The instances are looked for, and killed, by the name of the application.
RunningInstances(l) == {k \in Launch : app[k] # None /\ entry[k].name = entry[l].name}
KillInstances(l) == app' = [k \in Launch |-> IF k \in RunningInstances(l) THEN None ELSE app[k]]

\* An application that runs already is kept as it is, closed, or left beside the
\* new one.
PromptCloseRunning(l) ==
    \/ UNCHANGED <<step, app>>                      \* cancel
    \/ KillInstances(l) /\ Start(l)                 \* close_reopen
    \/ Start(l) /\ UNCHANGED app                    \* new_profile

\* An adapter that is gone ends the entry with a message.  An instance may run
\* that was started by hand, and be asked about when this session started none.
\* Each entry gets a thread, and none is waited for.
AssignOne(l) ==
    /\ main = "assign" /\ l \in todo
    /\ \/ UNCHANGED <<step, app>>
       \/ RunningInstances(l) = {} /\ Start(l) /\ UNCHANGED app
       \/ PromptCloseRunning(l)
    /\ todo' = todo \ {l}
    /\ main' = IF todo = {l} THEN "idle" ELSE main
    /\ UNCHANGED <<user, size, pending, active, entry, made, port, registry, server, slow>>

StopAll ==
    /\ Idle /\ ~Cli /\ (Patient => Busy = {})
    /\ main' = "stop" /\ todo' = Keys /\ size' = Cardinality(Keys)
    /\ UNCHANGED <<user, pending, active, threads, registry, server, slow, app>>

\* The iteration raises when an entry came in since it began, and stop raises
\* for a server whose loop is closed; neither reaches the clearing.
RaisesAt(ip) == server[registry[ip]].phase = "dead"
Grown == Cardinality(Keys) # size

StopNext(ip) ==
    /\ main = "stop" /\ ~Grown /\ ip \in todo
    /\ ~RaisesAt(ip)
    /\ todo' = todo \ {ip}
    /\ server' = [server EXCEPT ![registry[ip]].phase = IF @ = "listening" THEN "closing" ELSE @]
    /\ UNCHANGED <<user, main, size, pending, active, threads, registry, slow, app>>

\* Mutant: an iteration that cannot go on is waited for.
StopRaises_Waits == FALSE /\ UNCHANGED vars

StopRaises ==
    /\ main = "stop"
    /\ Grown \/ \E ip \in todo : RaisesAt(ip)
    /\ main' = "idle" /\ todo' = {}
    /\ UNCHANGED <<user, size, pending, active, threads, registry, server, slow, app>>

StopEnds ==
    /\ main = "stop" /\ ~Grown /\ todo = {}
    /\ main' = "clear"
    /\ UNCHANGED <<user, todo, size, pending, active, threads, registry, server, slow, app>>

\* Mutant: the list of the window is emptied, the registry is not.
Clear_List ==
    /\ main = "clear"
    /\ main' = "idle" /\ active' = {}
    /\ UNCHANGED <<user, todo, size, pending, threads, registry, server, slow, app>>

Clear ==
    /\ main = "clear"
    /\ main' = "idle"
    /\ registry' = [ip \in Ip |-> None]
    /\ active' = {}
    /\ UNCHANGED <<user, todo, size, pending, threads, server, slow, app>>

\* The threads of servers and launches are daemons: they end with the process.
EndProcess ==
    /\ main' = "off"
    /\ server' = [s \in Server |-> IF server[s].phase = "new" THEN server[s]
                                   ELSE [server[s] EXCEPT !.phase = "dead"]]
    /\ UNCHANGED <<user, todo, size, pending, active, threads, registry, slow, app>>

Quit == ~Cli /\ main = "idle" /\ EndProcess

\* `assign` launches one application, or says why not, and returns.
Return ==
    /\ Cli /\ main = "idle" /\ Busy = {} /\ pending = {}
    /\ \E l \in Launch : entry[l].name # None
    /\ EndProcess

(***************************************************************************)
(* A launch: get_or_start in several steps, then the application.          *)
(***************************************************************************)
\* Mutant: a proxy is started whether the adapter has one or not.
Check_Always(l) ==
    /\ main # "off" /\ step[l] = "check"
    /\ \E s \in Unused :
          /\ server' = [server EXCEPT ![s] = [ip |-> entry[l].ip, phase |-> "starting", port |-> None]]
          /\ made' = [made EXCEPT ![l] = s]
    /\ step' = [step EXCEPT ![l] = "wait"]
    /\ UNCHANGED <<window, entry, port, registry, slow, app>>

\* Mutant: a proxy is registered before it is started, and stays so if it is late.
Check_Early(l) ==
    /\ main # "off" /\ step[l] = "check"
    /\ IF registry[entry[l].ip] # None
       THEN step' = [step EXCEPT ![l] = "read"] /\ UNCHANGED <<made, server, registry>>
       ELSE /\ \E s \in Unused :
                 /\ server' = [server EXCEPT ![s] = [ip |-> entry[l].ip, phase |-> "starting", port |-> None]]
                 /\ made' = [made EXCEPT ![l] = s]
                 /\ registry' = [registry EXCEPT ![entry[l].ip] = s]
            /\ step' = [step EXCEPT ![l] = "wait"]
    /\ UNCHANGED <<window, entry, port, slow, app>>

Check(l) ==
    /\ main # "off" /\ step[l] = "check"
    /\ IF registry[entry[l].ip] # None
       THEN step' = [step EXCEPT ![l] = "read"] /\ UNCHANGED <<made, server>>
       ELSE /\ \E s \in Unused :
                 /\ server' = [server EXCEPT ![s] = [ip |-> entry[l].ip, phase |-> "starting", port |-> None]]
                 /\ made' = [made EXCEPT ![l] = s]
            /\ step' = [step EXCEPT ![l] = "wait"]
    /\ UNCHANGED <<window, entry, port, registry, slow, app>>

\* start returns when the server is ready, or raises after its ten seconds when
\* it has no port.  Its thread goes on by itself either way.
Ready(l) ==
    /\ main # "off" /\ step[l] = "wait"
    /\ server[made[l]].port # None
    /\ step' = [step EXCEPT ![l] = "store"]
    /\ UNCHANGED <<window, entry, made, port, registry, server, slow, app>>

\* Mutant: start waits for its server without a limit.
TimedOut_Never(l) == FALSE /\ UNCHANGED vars

TimedOut(l) ==
    /\ main # "off" /\ step[l] = "wait"
    /\ server[made[l]].port = None
    /\ IF server[made[l]].phase = "dead" THEN slow' = slow
       ELSE slow < MaxSlow /\ slow' = slow + 1
    /\ step' = [step EXCEPT ![l] = "failed"]
    /\ UNCHANGED <<window, entry, made, port, registry, server, app>>

Store(l) ==
    /\ main # "off" /\ step[l] = "store"
    /\ registry' = [registry EXCEPT ![entry[l].ip] = made[l]]
    /\ step' = [step EXCEPT ![l] = "read"]
    /\ UNCHANGED <<window, entry, made, port, server, slow, app>>

\* Mutant: the port of the proxy that was registered first, whatever the adapter.
ReadPort_Any(l) ==
    /\ main # "off" /\ step[l] = "read" /\ Keys # {}
    /\ \E ip \in Keys : port' = [port EXCEPT ![l] = server[registry[ip]].port]
    /\ step' = [step EXCEPT ![l] = "spawn"]
    /\ UNCHANGED <<window, entry, made, registry, server, slow, app>>

\* The registry is read again: it may have been cleared meanwhile (KeyError).
ReadPort(l) ==
    /\ main # "off" /\ step[l] = "read"
    /\ IF registry[entry[l].ip] = None
       THEN step' = [step EXCEPT ![l] = "failed"] /\ UNCHANGED port
       ELSE /\ port' = [port EXCEPT ![l] = server[registry[entry[l].ip]].port]
            /\ step' = [step EXCEPT ![l] = "spawn"]
    /\ UNCHANGED <<window, entry, made, registry, server, slow, app>>


\* user.js has its values written bare: the line of the host,
\* user_pref("network.proxy.socks", 127.0.0.1), is no preference, and a manual
\* proxy without a host is none, whatever its port.
FirefoxPrefs(p) == Default

\* Others are given the port in their environment, the Chromium family by a flag.
Setting(name, p) == IF name \in Firefox THEN FirefoxPrefs(p) ELSE p

Spawn(l) ==
    /\ main # "off" /\ step[l] = "spawn"
    /\ app' = [app EXCEPT ![l] = Setting(entry[l].name, port[l])]
    /\ step' = [step EXCEPT ![l] = "list"]
    /\ UNCHANGED <<window, entry, made, port, registry, server, slow>>

List(l) ==
    /\ main # "off" /\ step[l] = "list"
    /\ active' = active \cup {l}
    /\ step' = [step EXCEPT ![l] = "done"]
    /\ UNCHANGED <<user, main, todo, size, pending, entry, made, port, registry, server, slow, app>>

(***************************************************************************)
(* The thread of a server: it takes a port, or cannot; once closed, it ends*)
(* with its last connection.                                               *)
(***************************************************************************)
Taken == {server[s].port : s \in {t \in Server : Reuse => Listening(t)}}

Listen(s) ==
    /\ main # "off" /\ server[s].phase = "starting"
    /\ \E p \in IF Reuse THEN Port \ Taken ELSE One(Port \ Taken) :
          server' = [server EXCEPT ![s].phase = "listening", ![s].port = p]
    /\ UNCHANGED <<window, threads, registry, slow, app>>

CannotListen(s) ==
    /\ main # "off" /\ server[s].phase = "starting" /\ slow < MaxSlow
    /\ slow' = slow + 1
    /\ server' = [server EXCEPT ![s].phase = "dead"]
    /\ UNCHANGED <<window, threads, registry, app>>

Close(s) ==
    /\ main # "off"
    /\ \/ server[s].phase = "closing" /\ server' = [server EXCEPT ![s].phase = "closed"]
       \/ server[s].phase = "closed" /\ server' = [server EXCEPT ![s].phase = "dead"]
    /\ UNCHANGED <<window, threads, registry, slow, app>>

LaunchStep(l) ==
    \/ Check(l) \/ Ready(l) \/ TimedOut(l) \/ Store(l)
    \/ ReadPort(l) \/ Spawn(l) \/ List(l)

User ==
    \/ Drop \/ AssignAll \/ StopAll
    \/ \E l \in One({k \in Launch : entry[k].name = None}), name \in App, ip \in Ip : Add(l, name, ip)

Next ==
    \/ User \/ Quit \/ Return
    \/ \E l \in Launch : AssignOne(l) \/ LaunchStep(l)
    \/ \E ip \in Ip : StopNext(ip)
    \/ StopRaises \/ StopEnds \/ Clear
    \/ \E s \in Server : Listen(s) \/ CannotListen(s) \/ Close(s)

Spec == Init /\ [][Next]_vars

\* Threads run; a user answers the dialogs; what a server's start takes is not
\* for ever.  Nobody has to assign, stop or leave the window, but the command
\* line returns.
Fairness ==
    /\ \A l \in Launch : WF_vars(AssignOne(l)) /\ WF_vars(LaunchStep(l))
    /\ \A ip \in Ip : WF_vars(StopNext(ip))
    /\ WF_vars(StopRaises) /\ WF_vars(StopEnds) /\ WF_vars(Clear)
    /\ \A s \in Server : WF_vars(Listen(s)) /\ WF_vars(Close(s))
    /\ WF_vars(Return)

FairSpec == Spec /\ Fairness
=============================================================================
