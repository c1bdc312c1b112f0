\* Two interfaces, one application that moves between them; removals may fail on
\* i1; one crash or reboot.
SPECIFICATION Spec
CONSTANTS
    Iface = {i1, i2}
    App = {a1}
    Recognised = {a1}
    Pid = {p1}
    Subnet = {1, 2}
    Host = Host
    None = None
    TeardownFails = {i1}
    FailingPieces = {"nat", "ns"}
    Tuned = {}
    MayLoseState = FALSE
    MaxFaults = 1

INVARIANTS
    DistinctSubnets
    Recoverable
    RunningIsRouted
PROPERTIES
    KeepsPromise
    ResetKeepsBusyPlumbing
