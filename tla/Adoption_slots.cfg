\* Two adoptions, commands that fail, and two scenes: one process that comes and goes,
\* with one crash, reboot or loss of the state at any step; two that fork, with none.
SPECIFICATION SlotsSpec
CONSTANTS
    Iface = {i1, i2}
    Pid = {p1, p2}
    Group = {g1, g2}
    Slot = {1, 2}
    Root = Root
    None = None
    MayFail = {"command"}
    MaxFaults = 1
SYMMETRY SlotSymmetry

INVARIANTS
    SlotsDistinct
    RoutedOrBlocked
    MarksLeadHome
PROPERTIES
    NeverStolen
