----------------------------- MODULE StateFile -----------------------------
(***************************************************************************)
(* The state file (state.py).  Those that change it hold a lock from the   *)
(* load to the last save; the watcher's checks, the window and the helper's*)
(* status load it without.  A save writes a temporary file and renames it. *)
(* What cannot be parsed is moved aside by whoever finds it.               *)
(***************************************************************************)
EXTENDS FiniteSets, Naturals

CONSTANTS
    Entry,          \* records [kind, flaw]: what is written, what is wrong with it
    Writer,         \* processes that change the state, under the lock
    Watcher,        \* root's processes that load it without the lock
    User,           \* a user's processes, which may only read the directory
    None,
    Bad, Torn,      \* contents: not a JSON object; written in part
    Gone,           \* no file
    Unreadable,     \* what an OSError leaves a reader with
    Faults,         \* subset of {"write", "power", "crash", "read", "damage"}
    MaxFaults       \* bound on them

ASSUME FaultsAreRight ==
    Faults \subseteq {"write", "power", "crash", "read", "damage"} /\ MaxFaults \in Nat
ASSUME TextsDiffer ==
    /\ Torn \notin {Bad, Gone, Unreadable} /\ Bad # Gone /\ Unreadable # Gone
    /\ \A t \in SUBSET Entry : t # Torn /\ t # Bad /\ t # Gone /\ t # Unreadable
    /\ \A t \in {Bad, Torn}, b \in BOOLEAN : [text |-> t, synced |-> b] # Gone
    /\ \A t \in SUBSET Entry, b \in BOOLEAN : [text |-> t, synced |-> b] # Gone
ASSUME KindsDiffer ==
    /\ Writer \cap (Watcher \cup User) = {} /\ Watcher \cap User = {}
    /\ None \notin Writer

Proc == Writer \cup Watcher \cup User
IsText(t) == t \in {Bad, Torn} \/ t \in SUBSET Entry
IsFile(f) == f = Gone \/ (IsText(f.text) /\ f.synced \in BOOLEAN)

VARIABLES
    path,           \* the state file: [text, synced], or Gone
    durable,        \* the file that a power cut would leave there
    temp,           \* of each writer, its temporary file or Gone
    aside,          \* the texts of files that were moved aside
    lock,           \* the writer that holds the lock, or None
    step,           \* of each process, what it does next
    raw,            \* what it has read
    mine,           \* the state it has in memory
    faults

files == <<path, durable, temp, aside>>
vars == <<files, lock, step, raw, mine, faults>>

Steps == {"idle", "read", "parse", "move", "change", "temp", "write", "sync", "rename", "unlink"}

(***************************************************************************)
(* Reading the text: each kind of entry has its checks.  An entry that     *)
(* fails one is left out; a pid that is none is forgotten.                 *)
(***************************************************************************)
\* Mutant: the subnet of a binding is taken as it is.
BindingFlaws_AnySubnet == {"missing", "number", "range", "name", "namespace"}

SubnetFlaws == {"name", "pool"}
BindingFlaws == {"missing", "number", "pool", "range", "name", "namespace"}
AdoptionFlaws == {"missing", "id", "number", "group", "slot", "name"}
DnsFlaws == {"servers"}
LimitFlaws == {"number", "zero"}

Fatal(e) ==
    \/ e.kind = "subnet" /\ e.flaw \in SubnetFlaws
    \/ e.kind = "binding" /\ e.flaw \in BindingFlaws
    \/ e.kind = "adoption" /\ e.flaw \in AdoptionFlaws
    \/ e.kind = "dns" /\ e.flaw \in DnsFlaws
    \/ e.kind = "limit" /\ e.flaw \in LimitFlaws

Repaired(e) == IF e.kind = "binding" /\ e.flaw = "pid" THEN [e EXCEPT !.flaw = "none"] ELSE e

\* An entry that is mended is one that could have been written.
ASSUME MendedIsEntry == \A e \in Entry : Repaired(e) \in Entry

StateFromDict(entries) == {Repaired(e) : e \in {x \in entries : ~Fatal(x)}}

Parsed(t) == IF t \in {Bad, Torn, Gone, Unreadable} THEN {} ELSE StateFromDict(t)

Init ==
    /\ path = Gone /\ durable = Gone
    /\ temp = [p \in Writer |-> Gone]
    /\ aside = {}
    /\ lock = None
    /\ step = [p \in Proc |-> "idle"]
    /\ raw = [p \in Proc |-> Gone]
    /\ mine = [p \in Proc |-> {}]
    /\ faults = 0

Goto(p, s) == step' = [step EXCEPT ![p] = s]
Forget(p) == raw' = [raw EXCEPT ![p] = Gone] /\ mine' = [mine EXCEPT ![p] = {}]
Fault(kind) == kind \in Faults /\ faults < MaxFaults /\ faults' = faults + 1

(***************************************************************************)
(* load_state.                                                             *)
(***************************************************************************)
\* Mutant: the lock is not waited for.
Lock_Free(p) ==
    /\ step[p] = "idle"
    /\ lock' = p /\ Goto(p, "read")
    /\ UNCHANGED <<files, raw, mine, faults>>

Lock(p) ==
    /\ step[p] = "idle" /\ lock = None
    /\ lock' = p /\ Goto(p, "read")
    /\ UNCHANGED <<files, raw, mine, faults>>

Look(p) ==
    /\ step[p] = "idle" /\ Goto(p, "read")
    /\ UNCHANGED <<files, lock, raw, mine, faults>>

Read(p) ==
    /\ step[p] = "read"
    /\ \/ raw' = [raw EXCEPT ![p] = IF path = Gone THEN Gone ELSE path.text] /\ UNCHANGED faults
       \/ path # Gone /\ raw' = [raw EXCEPT ![p] = Unreadable] /\ Fault("read")
    /\ Goto(p, "parse")
    /\ UNCHANGED <<files, lock, mine>>

AfterLoad(p) == IF p \in Writer THEN "change" ELSE "idle"

\* Mutant: a file that cannot be read is moved aside like one that is wrong.
Parse_Moves(p) ==
    /\ step[p] = "parse"
    /\ mine' = [mine EXCEPT ![p] = Parsed(raw[p])]
    /\ Goto(p, IF raw[p] \in {Bad, Torn, Unreadable} THEN "move" ELSE AfterLoad(p))
    /\ raw' = IF step'[p] = "move" THEN raw ELSE [raw EXCEPT ![p] = Gone]
    /\ UNCHANGED <<files, lock, faults>>

Parse(p) ==
    /\ step[p] = "parse"
    /\ mine' = [mine EXCEPT ![p] = Parsed(raw[p])]
    /\ Goto(p, IF raw[p] \in {Bad, Torn} THEN "move" ELSE AfterLoad(p))
    /\ raw' = IF step'[p] = "move" THEN raw ELSE [raw EXCEPT ![p] = Gone]
    /\ UNCHANGED <<files, lock, faults>>

\* By name: whatever is at the path by now, which for a reader without the lock
\* may be a good file that a writer has saved meanwhile.  A user's process may not.
Quarantine(p) ==
    /\ step[p] = "move"
    /\ IF path # Gone /\ p \notin User
       THEN path' = Gone /\ aside' = aside \cup {path.text}
       ELSE UNCHANGED <<path, aside>>
    /\ Goto(p, AfterLoad(p)) /\ raw' = [raw EXCEPT ![p] = Gone]
    /\ UNCHANGED <<durable, temp, lock, mine, faults>>

(***************************************************************************)
(* An operation and save_state.  It may save more than once.               *)
(***************************************************************************)
Sane == {e \in Entry : e.flaw = "none"}

Change(p) ==
    /\ step[p] = "change"
    /\ \E e \in Sane : mine' = [mine EXCEPT ![p] = @ \cup {e}] \/ mine' = [mine EXCEPT ![p] = @ \ {e}]
    /\ Goto(p, "temp")
    /\ UNCHANGED <<files, lock, raw, faults>>

MakeTemp(p) ==
    /\ step[p] = "temp"
    /\ temp' = [temp EXCEPT ![p] = [text |-> Torn, synced |-> FALSE]]
    /\ Goto(p, "write")
    /\ UNCHANGED <<path, durable, aside, lock, raw, mine, faults>>

Write(p) ==
    /\ step[p] = "write"
    /\ temp' = [temp EXCEPT ![p].text = mine[p]]
    /\ Goto(p, "sync")
    /\ UNCHANGED <<path, durable, aside, lock, raw, mine, faults>>

\* Mutant: the data is left to the kernel to write.
Sync_Later(p) ==
    /\ step[p] = "sync" /\ Goto(p, "rename")
    /\ UNCHANGED <<files, lock, raw, mine, faults>>

Sync(p) ==
    /\ step[p] = "sync"
    /\ temp' = [temp EXCEPT ![p].synced = TRUE]
    /\ Goto(p, "rename")
    /\ UNCHANGED <<path, durable, aside, lock, raw, mine, faults>>

Rename(p) ==
    /\ step[p] = "rename"
    /\ path' = temp[p] /\ temp' = [temp EXCEPT ![p] = Gone]
    /\ \/ Goto(p, "change") /\ UNCHANGED <<lock, raw, mine>>
       \/ Goto(p, "idle") /\ lock' = None /\ Forget(p)
    /\ UNCHANGED <<durable, aside, faults>>

WriteFails(p) ==
    /\ step[p] \in {"write", "sync", "rename"} /\ Fault("write")
    /\ Goto(p, "unlink")
    /\ UNCHANGED <<files, lock, raw, mine>>

Unlink(p) ==
    /\ step[p] = "unlink"
    /\ temp' = [temp EXCEPT ![p] = Gone]
    /\ Goto(p, "idle") /\ lock' = None /\ Forget(p)
    /\ UNCHANGED <<path, durable, aside, faults>>

\* An operation that changes nothing, or raises, saves nothing.
Release(p) ==
    /\ step[p] = "change"
    /\ Goto(p, "idle") /\ lock' = None /\ Forget(p)
    /\ UNCHANGED <<files, faults>>

(***************************************************************************)
(* The machine.                                                            *)
(***************************************************************************)
\* The temporary file stays where it is, and nobody looks at it again.
Crash(p) ==
    /\ step[p] # "idle" /\ Fault("crash")
    /\ Goto(p, "idle") /\ Forget(p)
    /\ lock' = IF lock = p THEN None ELSE lock
    /\ temp' = IF p \in Writer THEN [temp EXCEPT ![p] = Gone] ELSE temp
    /\ UNCHANGED <<path, durable, aside>>

\* The kernel brings the directory to the disk in its own time.
FlushDirectory ==
    /\ durable # path /\ durable' = path
    /\ UNCHANGED <<path, temp, aside, lock, step, raw, mine, faults>>

OnDisk(f) == IF f = Gone \/ f.synced THEN f ELSE [text |-> Torn, synced |-> TRUE]

PowerFails ==
    /\ Fault("power")
    /\ path' = OnDisk(durable) /\ durable' = OnDisk(durable)
    /\ temp' = [p \in Writer |-> Gone]
    /\ lock' = None /\ step' = [p \in Proc |-> "idle"]
    /\ raw' = [p \in Proc |-> Gone] /\ mine' = [p \in Proc |-> {}]
    /\ UNCHANGED aside

\* Somebody edits the file, or the disk spoils it, while no operation runs.
Damage ==
    /\ Fault("damage") /\ lock = None
    /\ path # Gone
    /\ \/ path' = [path EXCEPT !.text = Bad]
       \/ \E t \in SUBSET Entry : path' = [text |-> t, synced |-> TRUE]
    /\ UNCHANGED <<durable, temp, aside, lock, step, raw, mine>>

Next ==
    \/ \E p \in Writer :
          \/ Lock(p) \/ Change(p) \/ MakeTemp(p) \/ Write(p) \/ Sync(p)
          \/ Rename(p) \/ WriteFails(p) \/ Unlink(p) \/ Release(p)
    \/ \E p \in Watcher \cup User : Look(p)
    \/ \E p \in Proc : Read(p) \/ Parse(p) \/ Quarantine(p) \/ Crash(p)
    \/ FlushDirectory \/ PowerFails \/ Damage

Spec == Init /\ [][Next]_vars

(***************************************************************************)
(* What is claimed.                                                        *)
(***************************************************************************)
TypeOK ==
    /\ IsFile(path) /\ IsFile(durable)
    /\ \A p \in Writer : IsFile(temp[p])
    /\ \A t \in aside : IsText(t)
    /\ lock \in Writer \cup {None}
    /\ step \in [Proc -> Steps]
    /\ \A p \in Proc : raw[p] \in {Gone, Unreadable} \/ IsText(raw[p])
    /\ mine \in [Proc -> SUBSET Entry]
    /\ faults \in 0..MaxFaults

\* save_state: "Atomically write state as JSON".  Nobody reads half a state, nor
\* does a crash or a power cut leave one, whenever it comes.
NeverTorn ==
    /\ path # Gone => path.text # Torn
    /\ durable # Gone => durable.text # Torn
    /\ \A p \in Proc : raw[p] # Torn

\* load_state: "Invalid content is quarantined".  Who moves the file aside has read
\* one that cannot be parsed, not one that it may not or could not read; and if it
\* holds the lock, what it moves, by name and later, is no good file either.  Of a
\* reader without the lock the second is not true: see Quarantine.
OnlyInvalidMoved ==
    \A p \in Proc : step[p] = "move" =>
        /\ raw[p] \in {Bad, Torn}
        /\ p \in Writer /\ path # Gone => path.text \in {Bad, Torn}

\* What an operation works on has passed the checks, whoever wrote the file ("they
\* must be exactly what InterMux itself would have written", _adoption_from_dict).
LoadedIsSane == \A p \in Proc : mine[p] \subseteq Sane

Entries(f) == IF f = Gone THEN {} ELSE IF f.text \in {Bad, Torn} THEN {} ELSE f.text

\* The file is the one cell that operations believe it is: no update is lost
\* between two writers, none is seen in part, and none is undone but by a power cut.
Cell == INSTANCE StateCell WITH cell <- Entries(path), durable <- Entries(durable)
IsOneCell == Cell!CellSpec
=============================================================================
