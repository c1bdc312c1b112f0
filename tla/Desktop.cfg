\* The window: two items, two threads, one dialog at a time, two changes of the
\* state file.  The table: bindings and adoptions on two interfaces.
SPECIFICATION DesktopSpec
CONSTANTS
    a = a
    b = b
    Ifaces = 2
    App = {a, b}
    Slot = {1, 2}
    Scenes <- ThreeScenes
    Item = {a, b}
    Id = {j1, j2}
    None = None
    MayNotGrab = FALSE
    MaxDialogs = 1
    MaxWorld = 2
    MaxFaults = 1

INVARIANTS
    OneAtATime
    TableIsTrue
PROPERTIES
    QueueKept
    TablesFollow
    AssignEnds
    ChoiceKept
CHECK_DEADLOCK FALSE
