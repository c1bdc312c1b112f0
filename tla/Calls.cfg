\* The helper: a window, a command of a terminal and a root shell, two calls.
\* The command line: two binaries, two interfaces, a change by others meanwhile.
\* The protocol: every choice of parameters, batches of up to three ops.
SPECIFICATION CallsSpec
CONSTANTS
    Client = {g, h, x}
    Terminal = {h, x}
    Direct = {x}
    None = None
    Request <- Asked
    MaxCalls = 2
    Path = {p, q}
    Findable = {p}
    Iface = {e, f}
    CommandLines <- Typed
    e = e
    f = f
    MaxChanges = 1
    Bad = Bad
    Required = Required
    Rejected = Rejected
    MaxBatchOps = 2
    Offered <- Requests

INVARIANTS
    AnswersAreTrue
    RequestsChecked
PROPERTIES
    DoesAsAgreed
    EverythingReturns
CHECK_DEADLOCK FALSE
