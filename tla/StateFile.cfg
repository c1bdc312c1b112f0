\* Two processes that write, one of root's that reads, two faults of writing;
\* on the second file the same and a user's that reads, two edits or failures.
SPECIFICATION FilesSpec
SYMMETRY WriterSymmetry
CONSTANTS
    Entry <- Plain
    EditedEntry <- Flawed
    Writer = {a, b}
    Watcher = {w}
    User = {}
    Reader = {u}
    None = None
    Bad = Bad
    Torn = Torn
    Gone = Gone
    Unreadable = Unreadable
    Faults = {"write", "power", "crash"}
    MaxFaults = 2

INVARIANTS
    NeverTorn
    EditedIsSafe
PROPERTIES
    IsOneCell
