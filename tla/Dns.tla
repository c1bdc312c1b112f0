-------------------------------- MODULE Dns --------------------------------
(***************************************************************************)
(* The name servers of one interface namespace (engine.                    *)
(* configure_namespace_dns, engine.set_dns, system/netns.py): a redirect   *)
(* in the namespace's nat table, its resolv.conf and nsswitch.conf under   *)
(* /etc/netns, which `ip netns exec` mounts over those of the host for an  *)
(* application it starts.  The host replaces its own files, which detaches *)
(* the mounts; servers come and go; any step may fail and the helper may   *)
(* die between two.                                                        *)
(***************************************************************************)
EXTENDS Naturals, Sequences, SequencesExt

CONSTANTS
    Server, Auto,       \* the servers; the automatic list, the gateway first
    Lists,              \* the lists that a user may choose
    App,
    Failing,            \* the steps that may fail
    HostEdits,          \* which of its files the host replaces: "resolv", "nsswitch"
    None,
    MaxEvents           \* bound on what the host and the network do

Steps == {"first", "probe", "write", "nsswitch", "second", "save", "launch"}

VARIABLES
    dns,            \* state.dns of the interface: a chosen list, None for automatic
    \* the namespace
    redirect,       \* the list its nat table was loaded with, <<>> for none
    resolv,         \* its resolv.conf
    nsswitch,       \* it has an nsswitch.conf of its own
    \* configure_namespace_dns
    step, choice, servers, answering, warned,
    \* the host, the network, the applications
    hostResolve,    \* the nsswitch.conf of the host asks systemd-resolved first
    answers,        \* the servers that answer through this interface
    app,            \* what each application reads: "ns" or "host" for each file, None: not running
    events,
    \* history
    own,            \* the servers that would have answered a query of their own at the probe
    followed        \* the last configuration ended without a warning, and none has begun since

namespace == <<redirect, resolv, nsswitch>>
call == <<step, choice, servers, answering, warned>>
outside == <<hostResolve, answers, app, events>>
vars == <<dns, namespace, call, outside, own, followed>>

NotRunning == [resolv |-> None, nsswitch |-> None]
Runs(a) == app[a] # NotRunning

Init ==
    /\ dns = None
    /\ redirect = <<>> /\ resolv = <<>> /\ nsswitch = FALSE
    /\ step = "idle" /\ choice = None /\ servers = <<>> /\ answering = {} /\ warned = FALSE
    /\ hostResolve \in BOOLEAN /\ answers \in SUBSET Server
    /\ app = [a \in App |-> NotRunning]
    /\ events = 0 /\ own = {} /\ followed = FALSE

(***************************************************************************)
(* Where a lookup goes.                                                    *)
(***************************************************************************)
\* The redirect lets queries to its servers pass, and sends all others to the
\* first of them (dns_redirect_restore).
Sent(to) == IF redirect = <<>> \/ to \in ToSet(redirect) THEN to ELSE Head(redirect)

\* The host's list, and an empty one, name a stub on the loopback of the host.
Asks(a) == IF app[a].resolv = "host" \/ resolv = <<>> THEN "stub" ELSE Head(resolv)

\* The resolve module asks the host's resolver over a socket, not the network.
Lookup(a) == IF app[a].nsswitch = "host" /\ hostResolve THEN "resolved" ELSE Sent(Asks(a))

(***************************************************************************)
(* configure_namespace_dns, from a bind or from set_dns.                   *)
(***************************************************************************)
Begin(kind, list) ==
    /\ step = "idle"
    /\ kind = "set" => redirect # <<>> \/ resolv # <<>>     \* the namespace exists
    /\ step' = "first"
    /\ choice' = [kind |-> kind, list |-> list]
    /\ servers' = IF list = None THEN Auto ELSE list
    /\ answering' = {} /\ warned' = FALSE /\ followed' = FALSE
    /\ UNCHANGED <<namespace, outside, own>>

\* A bind without a list of its own keeps the recorded one; what it is given is
\* recorded before anything is built, what set_dns is given at the end.
Bind == \E list \in Lists \cup {None, dns} : Begin("bind", list) /\ dns' = list
SetDns == \E list \in Lists \cup {None} : Begin("set", list) /\ UNCHANGED dns

Goes(next) == step' = next
MayFail(s) == s \in Failing

\* Mutant: the probe is sent through the redirect of the earlier list.
SkipsFirst ==
    /\ step = "first" /\ Goes("probe")
    /\ UNCHANGED <<dns, namespace, choice, servers, answering, warned, outside, own, followed>>

\* A failure of the first redirect is logged, and nothing more.
First ==
    /\ step = "first" /\ Goes("probe")
    /\ redirect' = servers \/ (MayFail("first") /\ UNCHANGED redirect)
    /\ UNCHANGED <<dns, resolv, nsswitch, choice, servers, answering, warned, outside, own, followed>>

\* A reply carries the address the query was sent to, whoever gave it; a query
\* or its answer may be lost.
Probe ==
    /\ step = "probe" /\ Goes("write")
    /\ \/ answering' \in SUBSET {s \in ToSet(servers) : Sent(s) \in answers}
       \/ MayFail("probe") /\ answering' = {}
    /\ warned' = (warned \/ answering' = {})
    /\ own' = answers
    /\ UNCHANGED <<dns, namespace, choice, servers, outside, followed>>

\* Mutant: the servers that answered are left out of the rest and not put first.
Dropped == {SelectSeq(servers, LAMBDA s : s \notin answering)}

\* order_dns_servers: those that answered first, otherwise as before.
Ordered ==
    LET answered(k) == servers[k] \in answering
        first == {at \in Bijection(DOMAIN servers, DOMAIN servers) :
                    \A j, k \in DOMAIN servers : j < k =>
                        IF answered(at[j]) <=> answered(at[k]) THEN at[j] < at[k] ELSE answered(at[j])}
    IN  {[k \in DOMAIN servers |-> servers[at[k]]] : at \in first}

\* write_resolv_conf writes the file in place: it is empty first.
Truncate ==
    /\ step = "write" /\ Goes("fill")
    /\ servers' \in Ordered
    /\ resolv' = <<>>
    /\ UNCHANGED <<dns, redirect, nsswitch, choice, answering, warned, outside, own, followed>>

\* An error in it ends the call.
Fill ==
    /\ step = "fill"
    /\ \/ resolv' = servers /\ Goes("nsswitch")
       \/ MayFail("write") /\ Goes("idle") /\ UNCHANGED resolv
    /\ UNCHANGED <<dns, redirect, nsswitch, choice, servers, answering, warned, outside, own, followed>>

\* Mutant: the namespace always takes the host's nsswitch.conf.
NoCopy ==
    /\ step = "nsswitch" /\ Goes("second")
    /\ UNCHANGED <<dns, namespace, choice, servers, answering, warned, outside, own, followed>>

\* write_nsswitch_conf: a copy where the host asks systemd-resolved, else none.
Nsswitch ==
    /\ step = "nsswitch" /\ Goes("second")
    /\ \/ nsswitch' = hostResolve /\ UNCHANGED warned
       \/ MayFail("nsswitch") /\ warned' = TRUE /\ UNCHANGED nsswitch
    /\ UNCHANGED <<dns, redirect, resolv, choice, servers, answering, outside, own, followed>>

\* Mutant: only the first redirect is loaded.
NoSecond ==
    /\ step = "second" /\ Goes("save")
    /\ UNCHANGED <<dns, namespace, choice, servers, answering, warned, outside, own, followed>>

Second ==
    /\ step = "second" /\ Goes("save")
    /\ \/ redirect' = servers /\ UNCHANGED warned
       \/ MayFail("second") /\ warned' = TRUE /\ UNCHANGED redirect
    /\ UNCHANGED <<dns, resolv, nsswitch, choice, servers, answering, outside, own, followed>>

\* The state is saved, once more for a bind, which goes on to the launch.
Save ==
    /\ step = "save"
    /\ dns' = choice.list
    /\ followed' = ~warned
    /\ Goes(IF choice.kind = "bind" THEN "launch" ELSE "idle")
    /\ UNCHANGED <<namespace, choice, servers, answering, warned, outside, own>>

\* `ip netns exec` mounts the files that are there.
Launch ==
    /\ step = "launch" /\ Goes("idle")
    /\ \/ \E a \in App :
             /\ ~Runs(a)
             /\ app' = [app EXCEPT ![a] = [resolv |-> "ns", nsswitch |-> IF nsswitch THEN "ns" ELSE "host"]]
       \/ UNCHANGED app
    /\ UNCHANGED <<dns, namespace, choice, servers, answering, warned, hostResolve, answers, events, own, followed>>

Crash ==
    /\ step # "idle" /\ Goes("idle")
    /\ UNCHANGED <<dns, namespace, choice, servers, answering, warned, outside, own, followed>>

\* The namespace is removed with its files when nothing runs in it.
Teardown ==
    /\ step = "idle" /\ \A a \in App : ~Runs(a)
    /\ redirect # <<>> \/ resolv # <<>>
    /\ dns' = None /\ redirect' = <<>> /\ resolv' = <<>> /\ nsswitch' = FALSE /\ followed' = FALSE
    /\ UNCHANGED <<call, outside, own>>

(***************************************************************************)
(* The host, the network and the applications.                             *)
(***************************************************************************)
Event == events < MaxEvents /\ events' = events + 1 /\ UNCHANGED <<dns, namespace, call, own, followed>>
Detach(file) == app' = [a \in App |-> IF Runs(a) THEN [app[a] EXCEPT ![file] = "host"] ELSE app[a]]

ReplaceResolv == "resolv" \in HostEdits /\ Event /\ Detach("resolv") /\ UNCHANGED <<hostResolve, answers>>
ReplaceNsswitch ==
    /\ "nsswitch" \in HostEdits
    /\ Event
    /\ hostResolve' \in BOOLEAN
    /\ Detach("nsswitch")
    /\ UNCHANGED answers
Network == Event /\ answers' \in SUBSET Server /\ UNCHANGED <<hostResolve, app>>
Quit(a) == Runs(a) /\ app' = [app EXCEPT ![a] = NotRunning] /\ UNCHANGED <<dns, namespace, call, hostResolve, answers, events, own, followed>>

Configure == First \/ Probe \/ Truncate \/ Fill \/ Nsswitch \/ Second \/ Save \/ Launch
Next ==
    \/ Bind \/ SetDns \/ Configure \/ Crash \/ Teardown
    \/ ReplaceResolv \/ ReplaceNsswitch \/ Network \/ (\E a \in App : Quit(a))

Spec == Init /\ [][Next]_vars
-----------------------------------------------------------------------------
TypeOK ==
    /\ dns \in Lists \cup {None}
    /\ \A list \in {redirect, resolv, servers} : list \in Seq(Server)
    /\ nsswitch \in BOOLEAN /\ warned \in BOOLEAN /\ followed \in BOOLEAN /\ hostResolve \in BOOLEAN
    /\ step \in Steps \cup {"idle", "fill"}
    /\ answering \subseteq ToSet(servers) /\ answers \subseteq Server /\ own \subseteq Server
    /\ \A a \in App : {app[a].resolv, app[a].nsswitch} \subseteq {None, "ns", "host"}

\* Name lookups stay on the servers of the namespace at every moment: while a
\* list is replaced, when the file is empty for an instant, after a failure or a
\* crash between two steps, and when the host has replaced its own file.  The
\* redirect must have been loaded once (README.md: "DNS inside each namespace is
\* kept on that namespace's own resolvers").
KeptInside == redirect # <<>> => \A a \in App : Runs(a) => Lookup(a) \in Server

\* A configuration that ended without a warning is followed by every running
\* application, those with a detached resolv.conf included (README.md: "running
\* apps pick it up").
Follow ==
    followed /\ step = "idle" =>
        /\ resolv = redirect /\ ToSet(redirect) = ToSet(IF dns = None THEN Auto ELSE dns)
        /\ \A a \in App : Runs(a) => Lookup(a) = Head(redirect)

\* Without a warning, the first server, to which all stray lookups go, is one
\* that answered the probe itself: the answer of an earlier list's server never
\* counts for it (configure_namespace_dns).
BestFirst == followed => Head(redirect) \in own
=============================================================================
