---------------------------- MODULE MCStateFile ----------------------------
(* Two files for TLC: one that only the program writes, in whose writes     *)
(* anything may go wrong, and one that somebody edits or that cannot be     *)
(* read.  They share no variable: one of them moves, the other stands still. *)
EXTENDS StateFile, TLC

CONSTANTS
    Reader,         \* user's processes that load the second file
    EditedEntry     \* what may be written there

Plain == {[kind |-> k, flaw |-> "none"] : k \in {"binding", "subnet"}}
Flawed ==
    {[kind |-> "binding", flaw |-> f] : f \in {"none", "pool", "pid"}}
        \cup {[kind |-> "adoption", flaw |-> "group"]}

WriterSymmetry == Permutations(Writer)

\* What can be wrong with an entry of each kind.
Defects ==
    [subnet |-> {"name", "pool"},
     binding |-> {"missing", "number", "pool", "range", "name", "namespace", "pid"},
     adoption |-> {"missing", "id", "number", "group", "slot", "name"},
     dns |-> {"servers"},
     limit |-> {"number", "zero"}]

VARIABLES
    part,           \* what moves: "written" or "edited"
    path2, durable2, temp2, aside2, lock2, step2, raw2, mine2, faults2

edited == <<path2, durable2, temp2, aside2, lock2, step2, raw2, mine2, faults2>>

E == INSTANCE StateFile WITH
        Entry <- EditedEntry, User <- Reader, Faults <- {"read", "damage"},
        path <- path2, durable <- durable2, temp <- temp2, aside <- aside2,
        lock <- lock2, step <- step2, raw <- raw2, mine <- mine2, faults <- faults2

ASSUME ReadersDiffer == Reader \cap (Writer \cup Watcher) = {}
ASSUME DefectsAreKnown ==
    \A e \in EditedEntry :
        /\ e = [kind |-> e.kind, flaw |-> e.flaw] /\ e.kind \in DOMAIN Defects
        /\ e.flaw \in Defects[e.kind] \cup {"none"}
        /\ E!Repaired(e) \in EditedEntry
ASSUME EditedTextsDiffer ==
    Unreadable # Bad /\ \A t \in SUBSET EditedEntry : t \notin {Bad, Torn, Gone, Unreadable}

FilesInit == part \in {"written", "edited"} /\ Init /\ E!Init
FilesNext ==
    \/ part = "written" /\ Next /\ UNCHANGED <<part, edited>>
    \/ part = "edited" /\ E!Next /\ UNCHANGED <<part, vars>>
FilesSpec == FilesInit /\ [][FilesNext]_<<part, vars, edited>>

-----------------------------------------------------------------------------
(* What is claimed of the second file: see StateFile. *)

\* Of a file that somebody edited, damaged or locked against reading: an operation
\* moves it aside only when it cannot be parsed, whatever the watcher's checks, which
\* load it as root without the lock, do to it meanwhile; and none of those that load
\* it moves it because it could not be read (load_state).  What an operation works on
\* has passed the checks, whoever wrote the file (state_from_dict).  Not claimed: the
\* watcher's own move may take the good file that replaced the bad one it read.
EditedIsSafe == E!OnlyInvalidMoved /\ E!LoadedIsSane
=============================================================================
