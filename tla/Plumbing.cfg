\* Every command that builds or removes may fail, three faults; three name
\* servers, two applications (one, where nsswitch.conf is replaced), two events.
SPECIFICATION PlumbingSpec
SYMMETRY AppSymmetry
CONSTANTS
    Failing <- MCFailing
    MaxFaults = 3
    Automatic <- AutoList
    FileLists <- OneList
    ServiceLists <- TwoLists
    g = g
    p = p
    q = q
    Server = {g, p, q}
    App = {a, b}
    Single = {c}
    None = None
    MaxEvents = 2

INVARIANTS
    LinkedWhenLaunched
    LostOnlyByFailure
    ForgottenIsGone
    LookupsFollow
