\* Two interfaces, one application that moves between them, a crash or reboot at any step.
SPECIFICATION Spec
CONSTANTS
    Iface = {i1, i2}
    App = {a1}
    Recognised = {a1}
    Pid = {p1, p2}
    Subnet = {1, 2}
    Host = Host
    None = None
    TeardownFails = {}
    FailingPieces = {}
    Tuned = {}
    MayLoseState = TRUE
    MaxFaults = 1
SYMMETRY AllSymmetry

PROPERTIES ResetKeepsBusyPlumbing
