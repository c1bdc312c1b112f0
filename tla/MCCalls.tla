------------------------------ MODULE MCCalls ------------------------------
(* Instances for TLC of the way from a command to the engine: the calls of  *)
(* the helper (Helper), one run of the command line (Cli) and the checks of *)
(* a request (Protocol).  They share no variable, so that a behaviour of    *)
(* all is one of each: here one of them moves, the others stand still.      *)
EXTENDS HelperProps, Protocol, FiniteSetsExt, TLC

CONSTANTS
    Path, Findable, Iface, MaxChanges,          \* of Cli
    CommandLines,                               \* pairs of a command and what is typed at its prompts
    e, f                                        \* two of Iface

VARIABLES
    part,           \* what moves: "helper", "cli" or "protocol"
    command, input, step, path, policy, action, reply, exit,
    found, running, records, adopted, changes, asked, sent

cli == <<command, input, step, path, policy, action, reply, exit,
         found, running, records, adopted, changes, asked, sent>>
all == <<part, vars, checks, cli>>

\* Requests: one of each way through the helper.
Asks(kind, ops) == [kind |-> kind, ops |-> ops, valid |-> TRUE]
Asked ==
    {Asks("batch", <<"a", "b">>), Asks("user", <<"a">>), Asks("status", <<"s">>), Asks("reset", <<"r">>),
     [kind |-> "plain", ops |-> <<"p">>, valid |-> FALSE]}

\* Requests that are checked: every choice of the parameters of every action, and
\* batches of up to three ops.
Values(type) == Accepts[type] \cup {Bad}
ParamsOf(specs) ==
    LET With(name, some) == some \cup {params @@ (name :> v) : params \in some, v \in Values(specs[name].type)}
    IN  FoldSet(With, {<<>>}, DOMAIN specs)
OpsOf(kind) == {[op |-> kind, params |-> params] : params \in ParamsOf(Specs[kind])}
Alone(kind) ==
    {[current |-> TRUE, action |-> kind, params |-> params, ops |-> <<>>] : params \in ParamsOf(Specs[kind])}
Old(kind) == [current |-> FALSE, action |-> kind, params |-> <<>>, ops |-> <<>>]
Batch(ops) == [current |-> TRUE, action |-> "batch", params |-> [ops |-> "ops"], ops |-> ops]
Batches ==
    LET small == OpsOf("adopt") \cup OpsOf("set_limit")
        few == OpsOf("adopt")
    IN  {Batch(<<op>>) : op \in small \cup OpsOf("bind") \cup {[op |-> "stop_app", params |-> <<>>]}}
        \cup {Batch(<<a, b>>) : a, b \in small}
        \cup {Batch(<<a, a, b>>) : a, b \in few} \cup {Batch(<<>>)}
Unknown == [current |-> TRUE, action |-> "status", params |-> [verbose |-> "yes"], ops |-> <<>>]
Every == UNION {Alone(kind) \cup {Old(kind)} : kind \in DOMAIN Specs} \cup Batches \cup {Unknown}
Requests == Every      \* TLC evaluates Every once

\* Command lines, each with what may be typed at its prompt.
Line(cmd, flags) == [cmd |-> cmd, iface |-> e, to |-> f, wellformed |-> TRUE, flags |-> flags]
Numbers == {<<>>, <<"1">>, <<"x", "2">>, <<"3">>, <<"4">>}
Words == {<<>>, <<"yes">>, <<"y">>, <<"n">>}
Prompted ==
    (({Line("bind", {})} \X Numbers) \cup ({Line("remove", {}), Line("reset", {})} \X Words))
Unprompted ==
    {Line("bind", {"close"}), Line("bind", {"separate"}),
     Line("remove", {"yes"}), Line("reset", {"yes", "kill_apps"}),
     [Line("dns", {}) EXCEPT !.wellformed = FALSE]}
    \cup {Line(cmd, {}) : cmd \in {"stop", "restart", "move", "kill", "adopt", "release", "verify",
                                   "teardown-idle", "check", "report", "apps", "status"}}
Typed == Prompted \cup (Unprompted \X {<<>>})
Command == {t[1] : t \in CommandLines}
Input == {t[2] : t \in CommandLines}

C == INSTANCE CliProps

ASSUME ClientsAreClients == Terminal \cup Direct \subseteq Client
ASSUME TwoInterfaces == {e, f} = Iface /\ "host" \notin Iface
\* What launches an application names the interface.
ASSUME CommandsAreCommands ==
    /\ Command \subseteq C!Commands /\ Input \subseteq Seq(STRING)
    /\ \A c \in Command : /\ c.cmd \in {"bind", "restart"} => c.iface \in Iface
                          /\ c.cmd = "move" => c.to \in Iface
ASSUME BoundsAreRight == MaxChanges \in Nat /\ IsFiniteSet(Path)
ASSUME NoneIsNoCode == None \notin {0, 1, 2, 130}

\* The name in a command may stand for two binaries; or two interfaces are in
\* use; or nothing runs, where neither matters.
Start ==
    \/ /\ \E t \in CommandLines : command = t[1] /\ input = t[2]
       /\ command.cmd \in {"bind"} \cup C!Named
       /\ found \in Path \cup {None}
       /\ running \in SUBSET [app : Path, at : {"host", e}]
       /\ records \in SUBSET [app : Path, at : {e}]
    \/ /\ \E t \in CommandLines : command = t[1] /\ input = t[2]
       /\ command.cmd \in C!Bound \cup C!Guarded \cup {"kill"}
       /\ \E app \in Path :
             /\ found \in {app, None}
             /\ running \in SUBSET [app : {app}, at : {"host", e, f}]
             /\ records \in SUBSET [app : {app}, at : {e, f}]
    \/ /\ \E t \in CommandLines : command = t[1] /\ input = t[2]
       /\ command.cmd \in C!Remote \cup C!Local
       /\ found = None /\ running = {} /\ records = {}

CallsInit ==
    /\ part \in {"helper", "cli", "protocol"}
    /\ Init
    /\ IF part = "cli" THEN Start
       ELSE command = Line("status", {}) /\ input = <<>> /\ found = None /\ running = {} /\ records = {}
    /\ C!Init
    /\ part # "protocol" => given = CHOOSE any \in Offered : ~any.current
    /\ ProtocolInit

CallsNext ==
    \/ part = "helper" /\ Next /\ UNCHANGED <<part, cli, checks>>
    \/ part = "cli" /\ C!Next /\ UNCHANGED <<part, vars, checks>>
    \/ part = "protocol" /\ ProtocolNext /\ UNCHANGED <<part, vars, cli>>

\* Fairness is of the helper's calls (none is under way at first), and of the
\* command, where it moves.
CallsSpec ==
    /\ CallsInit /\ [][CallsNext]_all
    /\ Fairness
    /\ WF_cli(part = "cli" /\ C!Step)

-----------------------------------------------------------------------------
(* What is claimed of the parts: see CliProps, HelperProps and Protocol. *)

\* A command does what its user agreed to and says how it went: who says no at a
\* prompt keeps everything (_confirm, _ask_running_policy), an application is
\* closed only by a command or an answer that says so, and with it none that is bound
\* besides; both calls of bind are about the path that was shown, a record stands in
\* for a missing binary only when there is one such record (_resolve_app), and exit
\* code 0 means that nothing was left of what the command found (_report_stop,
\* _cmd_reset: see NoneLeft for what they do not find or do not tell).
DoesAsAgreed ==
    /\ [](C!TypeOK /\ C!CancelledIsHarmless /\ C!OnePath)
    /\ C!ClosedWithConsent
    /\ C!ZeroMeansDone
    /\ C!NoGuessing

\* A client gets an answer or an error though nobody answers the prompt, and a
\* command ends whatever is typed and when the input ends.
EverythingReturns == CallReturns /\ (part = "cli" => C!CommandEnds)
=============================================================================
