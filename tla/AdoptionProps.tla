--------------------------- MODULE AdoptionProps ---------------------------
(* What is claimed of Adoption. *)
EXTENDS Adoption

\* Mark, rule, table and priority all follow from the slot: no two adoptions
\* share one, whatever was half released, lost or left behind by a crash
\* (pick_slot, kernel_slots).
SlotsDistinct == \A a, b \in records : a.slot = b.slot => a = b

\* A process of an adopted application sends by the interface it was adopted
\* to or, while that is down, not at all: until InterMux begins to release it,
\* its group is marked, the marks lead to the table, and the table ends in the
\* kill switch (adopt, refresh_policy).
RoutedOrBlocked ==
    \A a \in records :
        Members(a.group) # {} /\ a.group \notin letGo =>
            /\ nft[a.slot] = [group |-> a.group, iface |-> a.iface]
            /\ a.slot \in rule /\ a.slot \in fallback
            /\ route[a.slot] \in {a.iface, None}

\* What is marked for one interface never follows the table of another, also
\* when the marks outlive their record (kernel_slots: "whatever the state file
\* says").
MarksLeadHome ==
    \A s \in Slot : nft[s] # None /\ route[s] # None => route[s] = nft[s].iface

\* A process one adoption routes is never taken over by another: "processes
\* already routed by InterMux are left as they are", and a number that was
\* reused since it was listed is not moved (adopt).
NeverStolen ==
    [][\A p \in Pid : member[p] \in Group /\ member'[p] \in Group
                         => member'[p] = member[p]]_vars

\* The watcher puts back the route the kernel dropped, once the link is back.
RouteReturns ==
    \A g \in Group, i \in Iface, s \in Slot :
        LET a == [group |-> g, iface |-> i, slot |-> s]
        IN (a \in records /\ i \in up) ~> (a \notin records \/ i \notin up \/ route[s] = i)

\* An adoption whose application is gone is released by the watcher.
EmptyIsReleased ==
    \A g \in Group, i \in Iface, s \in Slot :
        LET a == [group |-> g, iface |-> i, slot |-> s]
        IN (a \in records /\ Members(g) = {}) ~> (a \notin records)
=============================================================================
