-------------------------------- MODULE Cli --------------------------------
(***************************************************************************)
(* The command line (cli.py): one command is parsed, resolved, confirmed   *)
(* and sent to the helper; a bind of an application that runs already asks *)
(* what to do and calls again.  Applications start, end, move and vanish   *)
(* between any two steps.  What the helper does is one step here; Bindings *)
(* and Adoption model it, and Helper the call.                             *)
(***************************************************************************)
EXTENDS FiniteSets, Naturals, Sequences

CONSTANTS
    Path,           \* the binaries that the name of the command may stand for
    Findable,       \* those whose processes bear their name or path: no scripts, no wrappers
    Iface,
    Command,        \* the command lines: see Commands
    Input,          \* what is typed, or piped in, until it ends: sequences of lines
    None,
    MaxChanges      \* bound on what others do meanwhile

Bound == {"stop", "restart", "move"}        \* resolved among the bindings of the interface
Named == Bound \cup {"kill", "adopt"}
Guarded == {"remove", "reset"}
Remote == {"release", "verify", "dns", "limit", "reconnect", "teardown-idle"}
Local == {"interfaces", "apps", "status", "check", "report"}
Commands ==
    [cmd : {"bind"} \cup Named \cup Guarded \cup Remote \cup Local,
     iface : Iface \cup {None}, to : Iface \cup {None},
     wellformed : BOOLEAN,                  \* the names of the interfaces, the servers of dns
     flags : SUBSET {"close", "separate", "yes", "kill_apps"}]

VARIABLES
    command, input,
    step,           \* "parse", "resolve", "confirm", "call", "wait", "ask", "report" or "exit"
    path,           \* app_path
    policy,         \* running_policy of the next call
    action,         \* the action of the next call
    reply,          \* what the last call returned or raised
    exit,           \* the exit code
    \* the world
    found,          \* what the name resolves to on PATH and among the menu entries
    running,        \* the user's instances of the applications: [app, at], at "host" or an interface
    records,        \* the bindings on record: [app, at]
    adopted,        \* the adoptions: [app, to]
    changes,
    \* history
    asked,          \* the answers the user gave at a prompt
    sent            \* the calls that were made, and whether each changed anything

world == <<found, running, records, adopted, changes>>
vars == <<command, input, step, path, policy, action, reply, exit, world, asked, sent>>

Places == {"host"} \cup Iface
Instances == [app : Path, at : Places]

Init ==
    /\ command \in Command /\ input \in Input
    /\ step = "parse" /\ path = None /\ policy = None /\ action = None /\ reply = None /\ exit = None
    /\ found \in Path \cup {None}
    /\ running \in SUBSET Instances
    /\ records \in SUBSET [app : Path, at : Iface]
    /\ adopted = {} /\ changes = 0
    /\ asked = <<>> /\ sent = <<>>

Exit(code) == step' = "exit" /\ exit' = code

Kind == command.cmd

\* The commands that need no helper list something, or look for tools and save a
\* report: 1 for what is missing or fails, 2 for an option that makes no sense.
ListingCode == IF Kind = "apps" THEN {0, 2} ELSE {0}
DiagnosisCode == IF Kind = "check" THEN {0, 1} ELSE {0, 1, 2}
LocalCode == IF Kind \in {"check", "report"} THEN DiagnosisCode ELSE ListingCode

\* argparse ends with 2, _check_iface_args and the servers of dns with 1.
Parse ==
    /\ step = "parse"
    /\ IF ~command.wellformed THEN \E code \in {1, 2} : Exit(code)
       ELSE IF Kind \in Local THEN \E code \in LocalCode : Exit(code)
       ELSE /\ step' = IF Kind \in Named \cup {"bind"} THEN "resolve"
                       ELSE IF Kind \in Guarded THEN "confirm" ELSE "call"
            /\ UNCHANGED exit
    /\ action' = Kind
    /\ policy' = IF "close" \in command.flags THEN "close"
                 ELSE IF "separate" \in command.flags THEN "separate" ELSE "ask"
    /\ UNCHANGED <<command, input, path, reply, world, asked, sent>>

\* The recorded bindings of that name, on the interface if the command has one.
Recorded == {r.app : r \in {x \in records : Kind \in Bound => x.at = command.iface}}

\* Mutant: of several recorded paths any is taken.
TakesAny ==
    /\ step = "resolve"
    /\ \/ found # None /\ path' = found /\ step' = "call" /\ UNCHANGED exit
       \/ found = None /\ Kind # "bind" /\ path' \in Recorded /\ step' = "call" /\ UNCHANGED exit
       \/ found = None /\ (Kind = "bind" \/ Recorded = {}) /\ Exit(1) /\ UNCHANGED path
    /\ UNCHANGED <<command, input, policy, action, reply, world, asked, sent>>

\* _resolve_app: the recorded path is used only when the binary is gone, and
\* only when there is one.  bind and a call after a prompt take no record.
Resolve ==
    /\ step = "resolve"
    /\ \/ found # None /\ path' = found /\ step' = "call" /\ UNCHANGED exit
       \/ found = None /\ Kind # "bind" /\ Cardinality(Recorded) = 1
            /\ path' \in Recorded /\ step' = "call" /\ UNCHANGED exit
       \/ found = None /\ (Kind = "bind" \/ Cardinality(Recorded) # 1) /\ Exit(1) /\ UNCHANGED path
    /\ UNCHANGED <<command, input, policy, action, reply, world, asked, sent>>

Read == input # <<>> /\ input' = Tail(input) /\ asked' = Append(asked, Head(input))
EndOfInput == input = <<>> /\ UNCHANGED <<input, asked>>

Word == IF Kind = "reset" THEN {"yes"} ELSE {"y", "yes"}

Confirm ==
    /\ step = "confirm"
    /\ \/ "yes" \in command.flags /\ step' = "call" /\ UNCHANGED <<exit, input, asked>>
       \/ /\ "yes" \notin command.flags
          /\ \/ Read /\ Head(input) \in Word /\ step' = "call" /\ UNCHANGED exit
             \/ Read /\ Head(input) \notin Word /\ Exit(1)
             \/ EndOfInput /\ Exit(1)
    /\ UNCHANGED <<command, path, policy, action, reply, world, sent>>

\* Mutant: the third answer is not the one that cancels.
CancelIsFour ==
    [line \in {"1", "2", "3", "4"} |->
        CASE line = "1" -> <<"bind", "close">> [] line = "2" -> <<"bind", "separate">>
          [] line = "3" -> <<"adopt", None>> [] OTHER -> <<"cancel", None>>]

\* Mutant: adopting is taken for a policy of bind.
PolicyAdopt ==
    [line \in {"1", "2", "3", "4"} |->
        CASE line = "1" -> <<"bind", "close">> [] line = "2" -> <<"bind", "separate">>
          [] line = "3" -> <<"cancel", None>> [] OTHER -> <<"bind", "adopt">>]

\* Mutant: the numbers of two choices are swapped.
Swapped ==
    [line \in {"1", "2", "3", "4"} |->
        CASE line = "1" -> <<"bind", "separate">> [] line = "2" -> <<"bind", "close">>
          [] line = "3" -> <<"cancel", None>> [] OTHER -> <<"adopt", None>>]

\* running_choice_action.
Choice ==
    [line \in {"1", "2", "3", "4"} |->
        CASE line = "1" -> <<"bind", "close">> [] line = "2" -> <<"bind", "separate">>
          [] line = "3" -> <<"cancel", None>> [] OTHER -> <<"adopt", None>>]

\* Mutant: the end of the input is taken for an empty line, and asked again.
AsksForever ==
    /\ step = "ask"
    /\ \/ /\ Read
          /\ IF Head(input) \notin DOMAIN Choice THEN UNCHANGED <<step, exit, action, policy>>
             ELSE IF Choice[Head(input)][1] = "cancel" THEN Exit(0) /\ UNCHANGED <<action, policy>>
             ELSE /\ action' = Choice[Head(input)][1] /\ policy' = Choice[Head(input)][2]
                  /\ step' = "call" /\ UNCHANGED exit
       \/ EndOfInput /\ UNCHANGED <<step, exit, action, policy>>
    /\ UNCHANGED <<command, path, reply, world, sent>>

\* _ask_running_policy: another line is asked for until one of the four is given
\* or the input ends.
Ask ==
    /\ step = "ask"
    /\ \/ /\ Read
          /\ IF Head(input) \notin DOMAIN Choice THEN UNCHANGED <<step, exit, action, policy>>
             ELSE IF Choice[Head(input)][1] = "cancel" THEN Exit(0) /\ UNCHANGED <<action, policy>>
             ELSE /\ action' = Choice[Head(input)][1] /\ policy' = Choice[Head(input)][2]
                  /\ step' = "call" /\ UNCHANGED exit
       \/ EndOfInput /\ Exit(0) /\ UNCHANGED <<action, policy>>
    /\ UNCHANGED <<command, path, reply, world, sent>>

(***************************************************************************)
(* The call: one step of the helper, and its answer.                       *)
(***************************************************************************)
Own == {x \in running : x.app = path}
Inside(instances, ifaces) == {x \in instances : x.at \in ifaces}
Here == [app |-> path, at |-> command.iface]
Replies(code) == reply' = code

\* A part of `those` ends: all of them, or some survive.
Terminates(those) == \E left \in SUBSET those : running' = (running \ those) \cup left
Gone(those) == running' \cap those = {}

\* find_app_procs: what bears the name of the binary, or was started from it.
ByName(app) == {x \in running : x.app = app /\ app \in Findable}

\* _shares_namespace
Shared(r) == \E other \in records : other # r /\ other.at = r.at

\* Mutant: it does not matter who else is bound there.
BoundPids_Shared(r, tree) ==
    LET named == Inside(ByName(r.app) \cup tree, {r.at})
    IN  IF named = {} THEN Inside(running, {r.at}) ELSE named

\* _binding_pids: those of that name and those that descend from the process that
\* was launched, which may be gone; failing these, when no other binding is of that
\* interface, whatever runs in its namespace.
BoundPids(r, tree) ==
    LET named == Inside(ByName(r.app) \cup tree, {r.at})
    IN  IF named = {} /\ ~Shared(r) THEN Inside(running, {r.at}) ELSE named

\* What was found has ended; of an application that is known only by the process
\* that was launched last, an earlier instance in the same place may go on.
Ended(pids, tree) == {running \ pids, running \ (pids \ (tree \ ByName(path)))}

\* What bind takes for the running application.
Instance(tree) == ByName(path) \cup UNION {BoundPids(r, tree) : r \in {x \in records : x.app = path}}

Launches(kept, where) ==
    \/ running' = kept \cup {[app |-> path, at |-> where]} /\ Replies("ok")
    \/ running' = kept /\ Replies("error")

HelperBind ==
    /\ \/ \E tree \in SUBSET Own :
             LET pids == Instance(tree)
             IN  \/ pids # {} /\ policy = "ask" /\ Replies("already_running") /\ UNCHANGED running
                 \/ /\ pids # {} /\ policy = "close"
                    /\ \/ Terminates(pids) /\ ~Gone(pids) /\ Replies("error")
                       \/ \E kept \in Ended(pids, tree) : Launches(kept, command.iface)
                 \/ (pids = {} \/ policy = "separate") /\ Launches(running, command.iface)
       \/ Replies("error") /\ UNCHANGED running      \* not bindable, no such interface
    /\ records' = IF reply' = "ok" THEN records \cup {Here} ELSE records
    /\ UNCHANGED adopted

HelperStop ==
    /\ \/ Here \notin records /\ Replies("error") /\ UNCHANGED running
       \/ /\ Here \in records
          /\ \E tree \in SUBSET Own :
                LET pids == BoundPids(Here, tree)
                IN  \/ Terminates(pids) /\ ~Gone(pids) /\ Replies("left")
                    \/ running' \in Ended(pids, tree) /\ Replies("ok")
    /\ UNCHANGED <<records, adopted>>

\* restart_app and move_app: what survives the stop ends it; a copy that runs
\* elsewhere is not closed, and may keep the application from being started.
HelperAgain(where) ==
    /\ \/ (Here \notin records \/ (where = command.iface /\ action = "move")) /\ Replies("error") /\ UNCHANGED running
       \/ /\ Here \in records /\ (action = "move" => where # command.iface)
          /\ \E tree \in SUBSET Own :
                LET pids == BoundPids(Here, tree)
                IN  \/ Terminates(pids) /\ ~Gone(pids) /\ Replies("error")
                    \/ \E kept \in Ended(pids, tree) : Launches(kept, where)
    /\ records' = IF reply' # "ok" THEN records
                  ELSE (records \ {Here}) \cup {[app |-> path, at |-> where]}
    /\ UNCHANGED adopted

\* What it does not find by name it does not miss.
HelperKill ==
    /\ Terminates(ByName(path)) /\ Replies(IF Gone(ByName(path)) THEN "ok" ELSE "left")
    /\ UNCHANGED <<records, adopted>>

HelperAdopt ==
    /\ IF [app |-> path, at |-> "host"] \in ByName(path)
       THEN adopted' = {a \in adopted : a.app # path} \cup {[app |-> path, to |-> command.iface]} /\ Replies("ok")
       ELSE Replies("error") /\ UNCHANGED adopted
    /\ UNCHANGED <<running, records>>

\* The plumbing of an empty namespace may fail to come off.
HelperRemove ==
    /\ Terminates(Inside(running, {command.iface}))
    /\ IF Inside(running', {command.iface}) = {} THEN Replies("ok") \/ Replies("error") ELSE Replies("left")
    /\ records' = IF reply' = "ok" THEN {r \in records : r.at # command.iface} ELSE records
    /\ UNCHANGED adopted

\* A namespace in use keeps its routing and its bindings. Told are those that were
\* to end and did not (still_running) and the bindings that are kept (kept_apps), not
\* a namespace in use that no binding records (kept_namespaces).
HelperReset ==
    /\ IF "kill_apps" \in command.flags THEN Terminates(Inside(running, Iface)) ELSE UNCHANGED running
    /\ records' = {r \in records : Inside(running', {r.at}) # {}}
    /\ Replies(IF records' = {} /\ ("kill_apps" \in command.flags => Inside(running', Iface) = {})
               THEN "ok" ELSE "left")
    /\ adopted' = {}

HelperRelease ==
    /\ \/ Replies("ok") \/ Replies("left") \/ Replies("error")
    /\ adopted' \in IF reply' = "error" THEN {adopted} ELSE SUBSET adopted
    /\ UNCHANGED <<running, records>>

\* teardown_idle drops the bindings of an empty namespace, and in one that others
\* share those whose launched process has left nobody (_binding_live).
HelperRest ==
    /\ \/ action = "verify" /\ Replies("left")
       \/ Replies("ok") \/ Replies("error")
    /\ LET busy == {r \in records : Inside(running, {r.at}) # {}}
       IN  \E live \in SUBSET busy :
              /\ {r \in busy : ~Shared(r)} \subseteq live
              /\ records' = IF action = "teardown-idle" /\ reply' = "ok" THEN live ELSE records
    /\ UNCHANGED <<running, adopted>>

Engine ==
    \/ action = "bind" /\ HelperBind
    \/ action = "stop" /\ HelperStop
    \/ action = "restart" /\ HelperAgain(command.iface)
    \/ action = "move" /\ HelperAgain(command.to)
    \/ action = "kill" /\ HelperKill
    \/ action = "adopt" /\ HelperAdopt
    \/ action = "remove" /\ HelperRemove
    \/ action = "reset" /\ HelperReset
    \/ action = "release" /\ HelperRelease
    \/ action \in Remote \ {"release"} /\ HelperRest
    \* denied, refused or not started
    \/ Replies("error") /\ UNCHANGED <<running, records, adopted>>

\* Mutant: after the prompt the name is resolved again.
ResolvesAgain ==
    /\ step = "call"
    /\ step' = "wait"
    /\ path' = IF sent # <<>> /\ found # None THEN found ELSE path
    /\ UNCHANGED <<command, input, policy, action, reply, exit, world, asked, sent>>

Call ==
    /\ step = "call"
    /\ step' = "wait"
    /\ UNCHANGED <<command, input, path, policy, action, reply, exit, world, asked, sent>>

Answered ==
    /\ step = "wait"
    /\ Engine
    /\ step' = "report"
    /\ sent' = Append(sent, [action |-> action, path |-> path,
                             changed |-> <<running, records, adopted>>' # <<running, records, adopted>>])
    /\ UNCHANGED <<command, input, path, policy, action, exit, found, changes, asked>>

\* Mutant: what is still running is printed, and the command ends as done.
IgnoresLeft == IF reply = "error" THEN 1 ELSE 0

\* What is left running, or kept, is exit code 1.
ExitCode == IF reply = "ok" THEN 0 ELSE 1

Report ==
    /\ step = "report"
    /\ \/ reply = "already_running" /\ Kind = "bind" /\ Len(sent) = 1 /\ step' = "ask" /\ UNCHANGED exit
       \/ reply = "already_running" /\ Len(sent) > 1 /\ Exit(1)
       \/ reply \in {"ok", "left", "error"} /\ Exit(ExitCode)
    /\ UNCHANGED <<command, input, path, policy, action, reply, world, asked, sent>>

Interrupt ==
    /\ step \notin {"parse", "exit"}
    /\ Exit(130)
    /\ UNCHANGED <<command, input, path, policy, action, reply, world, asked, sent>>

\* The user, package managers and other commands meanwhile.
Meanwhile ==
    /\ step # "exit" /\ changes < MaxChanges
    /\ \/ running' \in SUBSET Instances /\ Cardinality((running' \ running) \cup (running \ running')) = 1
             /\ UNCHANGED <<found, records>>
       \/ found' \in (Path \cup {None}) \ {found} /\ UNCHANGED <<running, records>>
       \/ \E r \in [app : Path, at : Iface] : records' \in {records \cup {r}, records \ {r}}
             /\ UNCHANGED <<found, running>>
    /\ changes' = changes + 1
    /\ UNCHANGED <<command, input, step, path, policy, action, reply, exit, adopted, asked, sent>>

Step == Parse \/ Resolve \/ Confirm \/ Ask \/ Call \/ Answered \/ Report
Next == Step \/ Interrupt \/ Meanwhile
Spec == Init /\ [][Next]_vars
FairSpec == Spec /\ WF_vars(Step)
=============================================================================
