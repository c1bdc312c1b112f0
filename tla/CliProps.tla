------------------------------ MODULE CliProps ------------------------------
(* What a command may do to the running applications, and what it says. *)
EXTENDS Cli

TypeOK ==
    /\ command \in Command
    /\ step \in {"parse", "resolve", "confirm", "call", "wait", "ask", "report", "exit"}
    /\ path \in Path \cup {None} /\ policy \in {"ask", "close", "separate", None}
    /\ action \in {"bind"} \cup Named \cup Guarded \cup Remote \cup Local \cup {None}
    /\ reply \in {None, "ok", "left", "error", "already_running"}
    /\ exit \in {None, 0, 1, 2, 130} /\ (exit = None <=> step # "exit")
    /\ running \subseteq Instances /\ Len(sent) <= 2

Said(lines) == asked # <<>> /\ asked[Len(asked)] \in lines

\* What a command about an application may close: its instances, and what runs in a
\* namespace that is on record for it alone (_binding_pids: "If nothing matches and
\* no other binding shares the namespace, every process of uid in the namespace
\* counts").
Belonging ==
    {x \in Instances :
        \/ x.app = path
        \/ /\ \E r \in records : r.at = x.at
           /\ \A r \in records : r.at = x.at => r.app = path}

\* A running application is closed only by a command whose purpose it is, or
\* that was told so by its flag, or by the answer to the question about exactly
\* that application (_cmd_bind and running_choice_action against engine.bind); and
\* no command about one application closes another that is bound.
ClosedWithConsent ==
    [][ running \ running' # {} /\ step = "wait" /\ step' = "report" =>
           \/ /\ \/ Kind \in {"stop", "kill", "restart", "move"}
                 \/ Kind = "bind" /\ ("close" \in command.flags \/ Said({"1"}))
              /\ running \ running' \subseteq Belonging
           \/ Kind \in Guarded /\ ("yes" \in command.flags \/ Said({"y", "yes"})) ]_vars

\* Whoever says no, or nothing, at a prompt keeps everything: no call of the
\* command has changed anything (_confirm, _ask_running_policy).
CancelledIsHarmless ==
    step = "exit" /\ (Kind \in Guarded \cup {"bind"}) /\ exit # 130 /\ Said({"3", "n"}) =>
        \A i \in DOMAIN sent : ~sent[i].changed

\* The question and both calls are about one path, though the name may resolve
\* to another while the question is open; and only the second call changes things.
OnePath == Len(sent) = 2 => sent[1].path = sent[2].path /\ ~sent[1].changed

\* What exit code 0 says right after the call (_report_stop, _cmd_remove, _cmd_reset).
\* stop and kill speak of what they find: an application whose processes do not bear
\* its name may go on, all of it after kill, and after stop what the last launch does
\* not account for.  remove leaves nothing in the namespace.  reset leaves
\* no binding, and with --kill-apps no application; without, an application may go on
\* in a namespace that no binding records, of which the command says nothing.
NoneLeft ==
    CASE Kind = "stop" -> path \in Findable => Here \notin running
      [] Kind = "kill" -> path \in Findable => Own = {}
      [] Kind = "remove" -> Inside(running, {command.iface}) = {} /\ \A r \in records : r.at # command.iface
      [] Kind = "reset" -> records = {} /\ ("kill_apps" \in command.flags => Inside(running, Iface) = {})
      [] OTHER -> TRUE
ZeroMeansDone ==
    [][ step = "report" /\ exit' = 0 /\ changes = 0 => NoneLeft ]_vars

\* A recorded path that stands in for a binary that is gone is the only one on
\* record of that name on that interface (_resolve_app).
NoGuessing ==
    [][ step = "resolve" /\ step' = "call" /\ found = None /\ Kind \in Bound =>
           \A r \in records : r.at = command.iface => r.app = path' ]_vars

\* A command ends, whatever is typed, and when the input is a pipe that ends.
CommandEnds == <>(step = "exit")
=============================================================================
