\* Two applications share an interface; the watcher reclaims what nobody uses.
SPECIFICATION FairSpec
CONSTANTS
    Iface = {i1}
    App = {a1, a2}
    Recognised = {a1}
    Pid = {p1, p2}
    Subnet = {1, 2}
    Host = Host
    None = None
    TeardownFails = {}
    FailingPieces = {}
    Tuned = {i1}
    MayLoseState = TRUE
    MaxFaults = 1

INVARIANTS
    RecordsConsistent
PROPERTIES
    BusyKeepsBinding
    IdleIsReclaimed
