\* The proxies: two adapters, two launches, one proxy that is late or cannot
\* listen.  The connection: two chunks each way.
SPECIFICATION WindowsSpec
CONSTANTS
    Ip = {w, e}
    App = {curl}
    Firefox = {}
    Launch = {a, b}
    Server = {s, t}
    Port = {p, q}
    None = None
    Default = Default
    Refused = Refused
    Reuse = FALSE
    MaxSlow = 1
    MaxChunks = 2

INVARIANTS
    ExitsByAdapter
    RegistryTrue
    RelayIsRight
PROPERTIES
    EverythingEnds
CHECK_DEADLOCK FALSE
