\* Two interfaces and two gateways; links, gateways, firewalls and any command
\* that builds may fail or change, three times.
CONSTANTS
    Iface = {i, j}
    Gateway = {g, h}
    None = None
    Blocked = Blocked
    Failing = {"veth", "forward", "nat", "trust", "local", "default", "fallback", "rule", "launch"}
    MaxFaults = 3
SPECIFICATION Spec
SYMMETRY RoutingSymmetry

INVARIANTS
    RoutedOrBlocked
    NothingLeft
