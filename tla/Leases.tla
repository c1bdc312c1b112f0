------------------------------- MODULE Leases -------------------------------
(***************************************************************************)
(* What the binding manager promises, apart from how: an interface in use  *)
(* holds the lease of one subnet, no two interfaces hold the same one, and *)
(* a lease is never given back while a process depends on it.              *)
(***************************************************************************)
CONSTANTS Iface, Pid, Subnet, None

VARIABLES
    lease,      \* the subnet an interface holds, or None
    tenants     \* the processes that run on an interface

leaseVars == <<lease, tenants>>

Unused(s) == \A i \in Iface : lease[i] # s

LeaseInit == /\ lease = [i \in Iface |-> None]
             /\ tenants = [i \in Iface |-> {}]

Grant(i, s) == /\ lease[i] = None /\ Unused(s)
               /\ lease' = [lease EXCEPT ![i] = s]
               /\ UNCHANGED tenants

Enter(i, p) == /\ lease[i] # None
               /\ p \notin tenants[i]
               /\ tenants' = [tenants EXCEPT ![i] = @ \cup {p}]
               /\ UNCHANGED lease

Leave(i, p) == /\ p \in tenants[i]
               /\ tenants' = [tenants EXCEPT ![i] = @ \ {p}]
               /\ UNCHANGED lease

Revoke(gone) == /\ \A i \in gone : tenants[i] = {}
                /\ lease' = [i \in Iface |-> IF i \in gone THEN None ELSE lease[i]]
                /\ UNCHANGED tenants

PowerCycle == /\ tenants' = [i \in Iface |-> {}]
              /\ UNCHANGED lease

LeaseNext ==
    \/ \E i \in Iface, s \in Subnet : Grant(i, s)
    \/ \E i \in Iface, p \in Pid : Enter(i, p) \/ Leave(i, p)
    \/ \E gone \in SUBSET Iface : Revoke(gone)
    \/ PowerCycle

LeaseSpec == LeaseInit /\ [][LeaseNext]_leaseVars
=============================================================================
