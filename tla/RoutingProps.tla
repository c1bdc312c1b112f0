----------------------------- MODULE RoutingProps -----------------------------
(* What is claimed of Routing. *)
EXTENDS Routing

\* The kill switch: a packet of an application leaves by its interface or not
\* at all, whatever the links do, whatever an older version left in the table
\* and at every step of a refresh ("the table is never empty while apps run",
\* ensure_policy).
RoutedOrBlocked == \A i \in app : Egress(i) \in {i, Blocked}

\* What is not recorded any more is gone from the kernel (_teardown_plumbing:
\* "Remove an interface namespace with its NAT, policy route, firewalld entry
\* and veth. ... The first failure is raised at the end").
NothingLeft ==
    \A i \in Iface \ recorded :
        /\ i \notin rule \cup trusted \cup veth
        /\ filter[i] = {} /\ ~table[i].local /\ ~table[i].fallback /\ table[i].uplink = None

\* An application whose link is up again, or has another gateway, or whose
\* firewall was reloaded, comes to be connected again.
ConnectionReturns ==
    \A i \in Iface, g \in Gateway :
        i \in app /\ link[i] = g ~> Connected(i) \/ i \notin app \/ link[i] # g
=============================================================================
