CONSTANTS
    Iface = {i}
    Gateway = {g, h}
    None = None
    Blocked = Blocked
    Failing = {"veth", "forward", "nat", "trust", "local", "default", "fallback", "rule", "launch", "list"}
    MaxFaults = 2
SPECIFICATION FairSpec
PROPERTIES ConnectionReturns
