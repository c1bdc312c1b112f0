\* The watcher and links that flap; a process may fork.
SPECIFICATION FairSpec
CONSTANTS
    Iface = {i1, i2}
    Pid = {p1, p2}
    Group = {g1}
    Slot = {1, 2}
    Root = Root
    None = None
    MayFail = {"listing"}
    MaxFaults = 1
INVARIANT RoutedOrBlocked
PROPERTIES RouteReturns EmptyIsReleased
