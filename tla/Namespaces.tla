----------------------------- MODULE Namespaces -----------------------------
(***************************************************************************)
(* The network namespace of an interface and the veth pair into it         *)
(* (system/netns.py), as engine.py builds and removes them, command by     *)
(* command.  The root helper may be killed between any two commands, and a *)
(* process that was launched enters the namespace when the system lets it. *)
(*                                                                         *)
(* Removing a namespace takes its name away; what runs in it keeps it, and *)
(* the links in it, without a name.                                        *)
(***************************************************************************)
EXTENDS Naturals

CONSTANTS
    Failing,        \* the commands that may fail
    MaxFaults       \* bound on failures, crashes and reboots

Commands == {"add namespace", "add link", "move link", "set up host end", "set up far end",
             "delete link", "delete namespace"}
ASSUME FailingAreCommands == Failing \subseteq Commands
ASSUME BoundIsRight == MaxFaults \in Nat

VARIABLES
    recorded,       \* the state file records the interface
    named,          \* the namespace has its name
    far,            \* where the far end of the pair is; "gone" without a pair
    hostEnd,        \* the host end has its address and is up
    farEnd,         \* the far end has its address and route, and is up
    procs,          \* where processes are: about to enter, in it, in it unnamed
    op,             \* the operation that holds the state lock
    pc,             \* the command it runs next
    failed,         \* a removal has failed in it
    faults,
    strand          \* history: the pair could not be deleted

kernel == <<named, far, hostEnd, farEnd, procs>>
vars == <<recorded, kernel, op, pc, failed, faults, strand>>

Ends == {"gone", "host", "inside", "lost"}
Steps == {"free", "name", "add", "move", "host end", "far end", "launch", "roll back",
          "unlink", "unname", "record"}

\* Every variable holds a value of its kind.
TypeOK ==
    /\ recorded \in BOOLEAN /\ named \in BOOLEAN
    /\ far \in Ends /\ hostEnd \in BOOLEAN /\ farEnd \in BOOLEAN
    /\ procs \subseteq {"starting", "inside", "unnamed"}
    /\ op \in {"none", "bind", "teardown", "reset"} /\ pc \in Steps
    /\ failed \in BOOLEAN /\ faults \in 0..MaxFaults /\ strand \in BOOLEAN

Init ==
    /\ recorded = FALSE /\ named = FALSE /\ far = "gone" /\ hostEnd = FALSE /\ farEnd = FALSE
    /\ procs = {} /\ op = "none" /\ pc = "free" /\ failed = FALSE
    /\ faults = 0 /\ strand = FALSE

Goto(step) == pc' = step /\ UNCHANGED op
Fails(command) == command \in Failing /\ faults < MaxFaults /\ faults' = faults + 1
Release == pc' = "free" /\ op' = "none" /\ failed' = FALSE

-----------------------------------------------------------------------------
(* bind: ensure_namespace, ensure_veth *)

\* The subnet is saved before anything is built.
BindRequest ==
    /\ pc = "free"
    /\ op' = "bind" /\ pc' = "name" /\ recorded' = TRUE
    /\ UNCHANGED <<kernel, failed, faults, strand>>

\* A command that fails, or finds no device, ends the building.
Broken(command) ==
    /\ Fails(command) /\ Goto("roll back")
    /\ UNCHANGED <<recorded, kernel, failed, strand>>

EnsureNamespace ==
    /\ pc = "name"
    /\ \/ /\ named' = TRUE /\ Goto("add")
          /\ UNCHANGED <<recorded, far, hostEnd, farEnd, procs, failed, faults, strand>>
       \/ ~named /\ Broken("add namespace")

\* Both ends begin in the host, without addresses.
AddLink ==
    /\ pc = "add"
    /\ \/ /\ far = "gone" /\ far' = "host" /\ hostEnd' = FALSE /\ farEnd' = FALSE
          /\ Goto("move") /\ strand' = FALSE
          /\ UNCHANGED <<recorded, named, procs, failed, faults>>
       \/ far # "gone" /\ Goto("move") /\ UNCHANGED <<recorded, kernel, failed, faults, strand>>
       \/ far = "gone" /\ Broken("add link")

\* A mutant: a pair that is there is taken to lead into the namespace.
MoveLink_Assumed ==
    /\ pc = "move" /\ Goto("host end")
    /\ UNCHANGED <<recorded, kernel, failed, faults, strand>>

\* The far end is looked for in the namespace, and moved there from the host.
MoveLink ==
    /\ pc = "move"
    /\ \/ far = "inside" /\ Goto("host end") /\ UNCHANGED <<recorded, kernel, failed, faults, strand>>
       \/ /\ far = "host" /\ far' = "inside" /\ farEnd' = FALSE /\ Goto("host end")
          /\ UNCHANGED <<recorded, named, hostEnd, procs, failed, faults, strand>>
       \/ far = "host" /\ Broken("move link")
       \/ far \in {"lost", "gone"} /\ Goto("roll back") /\ UNCHANGED <<recorded, kernel, failed, faults, strand>>

SetUpHostEnd ==
    /\ pc = "host end"
    /\ \/ /\ hostEnd' = TRUE /\ Goto("far end")
          /\ UNCHANGED <<recorded, named, far, farEnd, procs, failed, faults, strand>>
       \/ Broken("set up host end")

SetUpFarEnd ==
    /\ pc = "far end"
    /\ \/ /\ farEnd' = TRUE /\ Goto("launch")
          /\ UNCHANGED <<recorded, named, far, hostEnd, procs, failed, faults, strand>>
       \/ Broken("set up far end")

\* `ip netns exec` is started and given a moment (LAUNCH_WAIT).
Launch ==
    /\ pc = "launch"
    /\ procs' = procs \cup {"starting"} /\ Release
    /\ UNCHANGED <<recorded, named, far, hostEnd, farEnd, faults, strand>>

\* _rollback_bind: nothing while a process lives in the namespace, or another
\* binding of the interface is recorded.
RollBack ==
    /\ pc = "roll back"
    /\ \/ Release
       \/ ~("inside" \in procs /\ named) /\ Goto("unlink") /\ UNCHANGED failed
    /\ UNCHANGED <<recorded, kernel, faults, strand>>

-----------------------------------------------------------------------------
(* Removal: _teardown_plumbing, reset *)

\* The watcher, remove_namespace and teardown_idle tear down an interface that
\* is recorded; reset, all it finds.  A busy namespace is left alone.
RemoveRequest(request) ==
    /\ pc = "free" /\ ~("inside" \in procs /\ named)
    /\ request = "teardown" => recorded
    /\ op' = request /\ pc' = "unlink"
    /\ UNCHANGED <<recorded, kernel, failed, faults, strand>>

\* A mutant: the pair is left to the namespace that goes.
DeleteLink_Later ==
    /\ pc = "unlink" /\ Goto("unname")
    /\ UNCHANGED <<recorded, kernel, failed, faults, strand>>

DeleteLink ==
    /\ pc = "unlink" /\ Goto("unname")
    /\ \/ far' = "gone" /\ hostEnd' = FALSE /\ farEnd' = FALSE /\ strand' = FALSE
          /\ UNCHANGED <<failed, faults>>
       \/ /\ Fails("delete link") /\ failed' = TRUE /\ strand' = TRUE
          /\ UNCHANGED <<far, hostEnd, farEnd>>
    /\ UNCHANGED <<recorded, named, procs>>

\* Mutant: a failed removal is passed over.
End_Anyway == "record"
\* "The first failure is raised at the end", unless the caller only logs it.
End == IF failed /\ op = "teardown" THEN "free" ELSE "record"

\* A namespace without processes goes, and the pair with it.
DeleteNamespace ==
    /\ pc = "unname"
    /\ \/ /\ named' = FALSE
          /\ procs' = IF "inside" \in procs THEN (procs \ {"inside"}) \cup {"unnamed"} ELSE procs
          /\ far' = IF far # "inside" THEN far ELSE IF "inside" \in procs THEN "lost" ELSE "gone"
          /\ IF End = "free" THEN Release ELSE Goto(End) /\ UNCHANGED failed
          /\ UNCHANGED <<recorded, hostEnd, farEnd, faults, strand>>
       \/ /\ named /\ Fails("delete namespace")
          /\ IF op = "teardown" THEN Release ELSE Goto("record") /\ UNCHANGED failed
          /\ UNCHANGED <<recorded, kernel, strand>>

\* forget_iface and save_state
Record ==
    /\ pc = "record"
    /\ recorded' = FALSE /\ Release
    /\ UNCHANGED <<kernel, faults, strand>>

-----------------------------------------------------------------------------
(* The system *)

\* `ip netns exec` enters the namespace, or finds none.
Enter ==
    /\ "starting" \in procs
    /\ procs' = (procs \ {"starting"}) \cup IF named THEN {"inside"} ELSE {}
    /\ UNCHANGED <<recorded, named, far, hostEnd, farEnd, op, pc, failed, faults, strand>>

\* The processes end; a namespace without a name goes with its last one.
Exit(where) ==
    /\ where \in procs /\ procs' = procs \ {where}
    /\ far' = IF where = "unnamed" /\ far = "lost" THEN "gone" ELSE far
    /\ UNCHANGED <<recorded, named, hostEnd, farEnd, op, pc, failed, faults, strand>>

Fault == faults < MaxFaults /\ faults' = faults + 1

\* The helper or the watcher is killed.
Crash ==
    /\ pc # "free" /\ Fault /\ Release
    /\ UNCHANGED <<recorded, kernel, strand>>

Reboot ==
    /\ Fault /\ Release
    /\ named' = FALSE /\ far' = "gone" /\ hostEnd' = FALSE /\ farEnd' = FALSE /\ procs' = {}
    /\ strand' = FALSE /\ UNCHANGED recorded

Next ==
    \/ BindRequest \/ EnsureNamespace \/ AddLink \/ MoveLink \/ SetUpHostEnd \/ SetUpFarEnd
    \/ Launch \/ RollBack
    \/ RemoveRequest("teardown") \/ RemoveRequest("reset") \/ DeleteLink \/ DeleteNamespace \/ Record
    \/ Enter \/ Exit("inside") \/ Exit("unnamed") \/ Crash \/ Reboot

Spec == Init /\ [][Next]_vars

-----------------------------------------------------------------------------
(* What is claimed *)

\* Whatever a crash, a failure or an earlier removal has left, an application is
\* launched only into a namespace whose pair leads to the host and is set up at
\* both ends (ensure_veth: "Idempotent").
LinkedWhenLaunched == pc = "launch" => named /\ far = "inside" /\ hostEnd /\ farEnd

\* The far end is out of reach, so that no bind can succeed until the processes
\* of the nameless namespace end, only if the pair could not be deleted: no
\* crash between two commands brings it there.
LostOnlyByFailure == far = "lost" => strand /\ "unnamed" \in procs

\* What is forgotten after a removal that reports no error is gone: a namespace
\* or a pair that nothing records stays only if a command failed.
ForgottenIsGone == pc = "record" /\ op = "teardown" => ~named /\ far = "gone"

\* engine.py, reset: "A namespace that still holds processes is kept: removing it
\* would strand those apps with no network".
NobodyStranded == "unnamed" \notin procs
=============================================================================
