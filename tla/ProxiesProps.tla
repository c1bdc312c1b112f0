---------------------------- MODULE ProxiesProps ----------------------------
(* What is claimed of Proxies. *)
EXTENDS Proxies

\* Every variable holds a value of its kind.
TypeOK ==
    /\ user \in {"window", "patient", "command"}
    /\ main \in {"idle", "assign", "stop", "clear", "off"}
    /\ todo \subseteq Launch \cup Ip /\ size \in 0..Cardinality(Ip)
    /\ pending \subseteq Launch /\ active \subseteq Launch
    /\ entry \in [Launch -> [name : App \cup {None}, ip : Ip \cup {None}]]
    /\ step \in [Launch -> Steps]
    /\ made \in [Launch -> Server \cup {None}]
    /\ port \in [Launch -> Port \cup {None}]
    /\ registry \in [Ip -> Server \cup {None}]
    /\ server \in [Server -> Servers]
    /\ slow \in 0..MaxSlow
    /\ app \in [Launch -> Port \cup {None, Default}]

Bound(l) == app[l] # None /\ entry[l].name \notin Firefox

\* Whatever races there are among launches and stops, an application that keeps
\* to its proxy leaves by the adapter it was assigned to or is refused; it never
\* comes out of another ("all their TCP traffic exits through the chosen network
\* adapter", app_launcher).
ExitsByAdapter == \A l \in Launch : Bound(l) => Route(l) \in {entry[l].ip, Refused}

\* A proxy that came to listen after its launch had told the user that it failed.
GivenUp(s) == \E l \in Launch : made[l] = s /\ step[l] = "failed"

\* ProxyRegistry: "tracks one SOCKS5 proxy per interface IP.  Ensures we don't
\* start duplicate proxies for the same adapter."  So it is for a user who has no
\* two launches on one adapter under way, but for a proxy that was given up.
OnePerAdapter ==
    Patient =>
        \A s, t \in {u \in Server : server[u].phase = "listening" /\ ~GivenUp(u)} :
            server[s].ip = server[t].ip => s = t

\* Of such a user, who also lets launches end before Stop All, a proxy that listens
\* is one that Stop All would find, belongs to a launch that is about to register it,
\* or was given up.
NothingOrphaned ==
    Patient /\ main # "off" =>
        \A s \in Server :
            server[s].phase = "listening" =>
                \/ registry[server[s].ip] = s
                \/ \E l \in Launch : made[l] = s /\ step[l] \in {"wait", "store"}
                \/ GivenUp(s)

\* get_or_start: "Starts a new proxy server if one doesn't exist yet": what is
\* registered while no stop is under way can be connected to, for such a user, also
\* when a proxy was late or could not listen.
RegistryLive ==
    Patient /\ main \in {"idle", "assign"} =>
        \A ip \in Keys : server[registry[ip]].phase = "listening"

\* Launches on several adapters, each from a thread that looks a proxy up and creates
\* it in two steps (get_or_start), a Stop All after them, and proxies that are late
\* or cannot listen: the registry has one proxy for an adapter, which runs, and loses
\* none but those whose launch gave up waiting.  The user must see to it that
\* launches on one adapter do not overlap (Assign All starts a thread for
\* each entry), nor Stop All with a launch; for one who does not, see README.md.
RegistryTrue == TypeOK /\ OnePerAdapter /\ NothingOrphaned /\ RegistryLive

\* A launch ends, with the application or with a message.
LaunchEnds == \A l \in Launch : l \in Busy ~> l \notin Busy \/ main = "off"

\* Stop All ends, done or half done, and the window is usable again.
StopReturns == main \in {"stop", "clear"} ~> main \in {"idle", "off"}

\* The command line comes back to its user, launched or not.
CommandReturns == (Cli /\ main = "assign") ~> (main = "off")

\* Whatever is late, or cannot listen: nobody waits for ever.
LaunchesReturn == LaunchEnds /\ StopReturns /\ CommandReturns

\* The question Stop All asks: "Running apps will continue but lose their
\* interface binding (traffic will use the system default interface instead)."
StopMeansDefault ==
    main = "idle" /\ Keys = {} /\ Busy = {} => \A l \in Launch : Route(l) # Refused

\* `assign`: "Assign an app to a specific network interface"; it still is when
\* the command has returned.
StaysAssigned ==
    main = "off" => \A l \in Launch : app[l] # None => Route(l) = entry[l].ip

\* launch_app: Firefox's preferences are written "for rock-solid proxy
\* enforcement regardless of system settings".
FirefoxIsBound ==
    \A l \in Launch : app[l] # None => Route(l) # Default
=============================================================================
