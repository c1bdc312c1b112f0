----------------------------- MODULE MCPlumbing -----------------------------
(* Instances for TLC of a namespace and its pair of links (Namespaces), and *)
(* of its name servers (Dns), these once where steps fail and resolv.conf   *)
(* is replaced, and once where nsswitch.conf is replaced as well.  The parts *)
(* share no variable: one of them moves, the other stands still.            *)
EXTENDS Namespaces, FiniteSets, Sequences, TLC

CONSTANTS
    Automatic, FileLists, ServiceLists,     \* the automatic list of servers, those a user may choose
    g, p, q,                        \* name servers for them; g is the gateway's
    App, Single,                    \* two applications; one more, alone
    Server, None, MaxEvents         \* of Dns

\* Every command may fail.
MCFailing == Commands

VARIABLES
    part,           \* what moves: "namespace", "files" or "services"
    dns, redirect, resolv, nsswitch, step, choice, servers, answering, warned,
    hostResolve, answers, app, events, own, followed

lookups == <<dns, redirect, resolv, nsswitch, step, choice, servers, answering, warned,
             hostResolve, answers, app, events, own, followed>>

AutoList == <<g, p>>
OneList == {<<p, q>>}
TwoLists == {<<q>>, <<p, q>>}

\* A redirect that fails, a resolv.conf of the host that is replaced ...
Files == INSTANCE Dns WITH
            Auto <- Automatic, Lists <- FileLists,
            Failing <- {"first", "probe", "write", "second"}, HostEdits <- {"resolv"}
\* ... and its nsswitch.conf, which may not be copied either.
Services == INSTANCE Dns WITH
            Auto <- Automatic, Lists <- ServiceLists, App <- Single,
            Failing <- {"probe", "write", "nsswitch", "second"}, HostEdits <- {"resolv", "nsswitch"}

ASSUME ListsAreLists ==
    \A list \in {Automatic} \cup FileLists \cup ServiceLists : list \in Seq(Server) /\ list # <<>>
ASSUME NamesDiffer ==
    /\ {None, "stub", "resolved"} \cap Server = {} /\ None \notin {"ns", "host"}
    /\ None \notin FileLists \cup ServiceLists

AppSymmetry == Permutations(App)

PlumbingInit ==
    /\ part \in {"namespace", "files", "services"}
    /\ Init
    /\ part = "namespace" => hostResolve = TRUE /\ answers = {}
    /\ IF part = "services" THEN Services!Init ELSE Files!Init

PlumbingNext ==
    \/ part = "namespace" /\ Next /\ UNCHANGED <<part, lookups>>
    \/ part = "files" /\ Files!Next /\ UNCHANGED <<part, vars>>
    \/ part = "services" /\ Services!Next /\ UNCHANGED <<part, vars>>

PlumbingSpec == PlumbingInit /\ [][PlumbingNext]_<<part, vars, lookups>>

-----------------------------------------------------------------------------
(* What is claimed of the name servers: see Dns. *)

\* Name lookups stay on the servers of the namespace and a configuration without
\* a warning is followed by every running application (configure_namespace_dns),
\* as long as the host keeps its nsswitch.conf; without a warning the first server
\* is one that answered the probe itself (order_dns_servers), as long as the first
\* redirect is loaded.
LookupsFollow ==
    IF part = "services" THEN Services!TypeOK /\ Services!BestFirst
    ELSE Files!TypeOK /\ Files!KeptInside /\ Files!Follow
=============================================================================
