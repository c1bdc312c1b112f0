------------------------------ MODULE Protocol ------------------------------
(***************************************************************************)
(* The checks a request to the privileged helper goes through              *)
(* (helper/protocol.py), and what the helper then reads of it              *)
(* (helper/server.py).  A value stands for a class of the values that a    *)
(* validator treats alike: "dup" is a list of DNS servers with a repeated  *)
(* one, "half" a limit with one direction left out, "int" a whole number.  *)
(***************************************************************************)
EXTENDS Naturals, Sequences

CONSTANTS
    Bad,            \* a value that no validator accepts
    Required,       \* _REQUIRED: the parameter has no default
    Rejected,       \* ValidationError
    MaxBatchOps,    \* MAX_BATCH_OPS
    Offered         \* the requests that clients send

\* Mutant: _v_limit wants an object.
LimitRequired ==
    [iface |-> {"if"}, app |-> {"path"}, id |-> {"id"}, bool |-> {"yes", "no"},
     policy |-> {"ask", "close", "separate"}, env |-> {"empty", "env"},
     dns |-> {"keep", "auto", "list", "dup"}, dns_set |-> {"auto", "list", "dup"},
     mbit |-> {"null", "int", "float"}, limit |-> {"half", "pair"},
     ops |-> {"ops"}]

\* What each validator accepts.
Accepts ==
    [iface |-> {"if"}, app |-> {"path"}, id |-> {"id"}, bool |-> {"yes", "no"},
     policy |-> {"ask", "close", "separate"}, env |-> {"empty", "env"},
     dns |-> {"keep", "auto", "list", "dup"}, dns_set |-> {"auto", "list", "dup"},
     mbit |-> {"null", "int", "float"}, limit |-> {"null", "half", "pair"},
     ops |-> {"ops"}]

\* Mutant: the servers go on as one text.
Joined(value) ==
    CASE value = "dup" -> "text" [] value = "half" -> "pair" [] value = "int" -> "float" [] OTHER -> value

\* check_servers, check_mbit and _v_limit return another form of the value.
Clean(value) ==
    CASE value = "dup" -> "list" [] value = "half" -> "pair" [] value = "int" -> "float" [] OTHER -> value

Needs(type) == [type |-> type, default |-> Required]
Or(type, default) == [type |-> type, default |-> default]
Placed == [iface |-> Needs("iface"), app |-> Needs("app")]

Specs ==
    [status |-> <<>>, teardown_idle |-> <<>>, reconnect |-> <<>>,
     bind |-> [iface |-> Needs("iface"), app |-> Needs("app"), running_policy |-> Or("policy", "ask"),
               env |-> Or("env", "empty"), dns |-> Or("dns", "keep"), limit |-> Or("limit", "null")],
     stop_app |-> Placed, adopt |-> Placed,
     kill_app |-> [app |-> Needs("app"), force |-> Or("bool", "no")],
     reset |-> [kill_apps |-> Or("bool", "no")],
     verify |-> [iface |-> Needs("iface")], remove_namespace |-> [iface |-> Needs("iface")],
     release_adoption |-> [id |-> Needs("id")],
     set_dns |-> [iface |-> Needs("iface"), dns |-> Needs("dns_set")],
     set_limit |-> [iface |-> Needs("iface"), down |-> Or("mbit", "null"), up |-> Or("mbit", "null")],
     restart_app |-> [iface |-> Needs("iface"), app |-> Needs("app"), env |-> Or("env", "empty")],
     move_app |-> [iface |-> Needs("iface"), app |-> Needs("app"), to |-> Needs("iface"),
                   env |-> Or("env", "empty")],
     batch |-> [ops |-> Needs("ops")]]

BatchOps == {"bind", "adopt", "set_limit"}

\* Mutant: a parameter that is left out is not filled in.
NoDefaults(specs, params) ==
    IF \/ DOMAIN params \ DOMAIN specs # {}
       \/ \E p \in DOMAIN specs : p \notin DOMAIN params /\ specs[p].default = Required
       \/ \E p \in DOMAIN specs \cap DOMAIN params : params[p] \notin Accepts[specs[p].type]
    THEN Rejected
    ELSE [p \in DOMAIN params |-> Clean(params[p])]

ValidateSpec(specs, params) ==
    IF \/ DOMAIN params \ DOMAIN specs # {}
       \/ \E p \in DOMAIN specs : p \notin DOMAIN params /\ specs[p].default = Required
       \/ \E p \in DOMAIN specs \cap DOMAIN params : params[p] \notin Accepts[specs[p].type]
    THEN Rejected
    ELSE [p \in DOMAIN specs |-> IF p \in DOMAIN params THEN Clean(params[p]) ELSE specs[p].default]

\* Mutant: the ops of a batch are looked up, not checked.
OpsUnchecked(ops) ==
    IF Len(ops) \notin 1..MaxBatchOps \/ \E i \in DOMAIN ops : ops[i].op \notin BatchOps THEN Rejected ELSE ops

\* Each op is checked as the action of its own name.
ValidateOps(ops) ==
    LET checked == [i \in DOMAIN ops |->
                       IF ops[i].op \in BatchOps THEN ValidateSpec(Specs[ops[i].op], ops[i].params) ELSE Rejected]
    IN  IF Len(ops) \notin 1..MaxBatchOps \/ \E i \in DOMAIN ops : checked[i] = Rejected THEN Rejected
        ELSE [i \in DOMAIN ops |-> [op |-> ops[i].op, params |-> checked[i]]]

\* A request: "current" says that it has the right version and no unknown field.
ValidateRequest(request) ==
    LET params == ValidateSpec(Specs[request.action], request.params)
        ops == ValidateOps(request.ops)
    IN  IF \/ ~request.current
           \/ request.action \notin DOMAIN Specs
           \/ params = Rejected
           \/ request.action = "batch" /\ ops = Rejected
        THEN Rejected
        ELSE [request EXCEPT !.params = params, !.ops = IF request.action = "batch" THEN ops ELSE @]

(***************************************************************************)
(* What _dispatch takes out of the parameters with params[...], without a  *)
(* default of its own, and _run_batch out of those of an op.               *)
(***************************************************************************)
Reads(action) ==
    CASE action = "bind" -> {"env", "app", "iface", "running_policy", "dns"}
      [] action \in {"stop_app", "adopt"} -> {"iface", "app"}
      [] action = "kill_app" -> {"app", "force"}
      [] action = "reset" -> {"kill_apps"}
      [] action \in {"verify", "remove_namespace"} -> {"iface"}
      [] action = "release_adoption" -> {"id"}
      [] action = "set_dns" -> {"iface", "dns"}
      [] action = "set_limit" -> {"iface", "down", "up"}
      [] action = "restart_app" -> {"iface", "app", "env"}
      [] action = "move_app" -> {"iface", "app", "to", "env"}
      [] action = "batch" -> {"ops"}
      [] OTHER -> {}

BatchReads(op) ==
    CASE op = "set_limit" -> {"iface", "down", "up"}
      [] op = "bind" -> {"app", "iface", "env", "running_policy"}
      [] OTHER -> {"iface", "app"}

(***************************************************************************)
(* A request: whether it has the right version and no unknown field, its   *)
(* action, the parameters, and for a batch the list that stands for "ops". *)
(* What is taken has every parameter of its action.                        *)
(***************************************************************************)
Value == UNION {Accepts[type] : type \in DOMAIN Accepts}
Filled(kind) == [DOMAIN Specs[kind] -> Value]
BatchOp ==
    LET Of(kind) == [op : {kind}, params : Filled(kind)] IN Of("bind") \cup Of("adopt") \cup Of("set_limit")
Taken(kind) == [current : {TRUE}, action : {kind}, params : Filled(kind), ops : Seq(BatchOp)]

ASSUME NothingIsRejected ==
    /\ Required \notin Value
    /\ Rejected \notin Seq(BatchOp)
    /\ \A kind \in DOMAIN Specs : Rejected \notin Filled(kind) /\ Rejected \notin Taken(kind)
ASSUME SomeOpsFit == MaxBatchOps \in Nat \ {0}
\* Nothing is known of the parameters that are sent.
ASSUME OfferedAreRequests ==
    \A request \in Offered :
        /\ DOMAIN request = {"current", "action", "params", "ops"} /\ request.current \in BOOLEAN
        /\ DOMAIN request.ops = 1..Len(request.ops)
        /\ request.action # "batch" => request.ops = <<>>

VARIABLES given, taken      \* a request, and what the helper made of it

checks == <<given, taken>>

ProtocolInit == given \in Offered /\ taken = ValidateRequest(given)

\* A client may send what was taken as the next request.
Again == taken # Rejected /\ given' = taken /\ taken' = ValidateRequest(taken)

ProtocolNext == Again
ProtocolSpec == ProtocolInit /\ [][ProtocolNext]_checks
-----------------------------------------------------------------------------
\* A request that is taken is current and has the parameters of its action, each of
\* them with a value that the rules know.
TakenIsWhole == taken = Rejected \/ \E kind \in DOMAIN Specs : taken \in Taken(kind)

\* Whatever the helper reads of a request it took is there: no action ends with
\* an internal error because a parameter was left out (server._dispatch and
\* _run_batch against protocol._PARAM_SPECS).
ReadsAreThere ==
    taken # Rejected =>
        /\ Reads(taken.action) \subseteq DOMAIN taken.params
        /\ \A i \in DOMAIN taken.ops : BatchReads(taken.ops[i].op) \subseteq DOMAIN taken.ops[i].params

\* Checking what was taken once more changes nothing: the values handed to the
\* engine have one form, and none of the defaults is refused.
TakenIsClean == taken # Rejected => ValidateRequest(taken) = taken

\* An op of a batch is held to the rules of the action of its name
\* (protocol._v_ops): alone it would be taken too, with the same parameters, and
\* a batch that is well formed is refused only for its length or for an op that is
\* refused alone.
SingleRules ==
    given.action = "batch" =>
        LET whole == given.current /\ ValidateSpec(Specs.batch, given.params) # Rejected
            alone(i) == ValidateRequest([current |-> TRUE, action |-> given.ops[i].op,
                                         params |-> given.ops[i].params, ops |-> <<>>])
            fits == Len(given.ops) \in 1..MaxBatchOps /\ \A i \in DOMAIN given.ops : given.ops[i].op \in BatchOps
        IN  /\ taken # Rejected <=> whole /\ fits /\ \A i \in DOMAIN given.ops : alone(i) # Rejected
            /\ taken # Rejected => \A i \in DOMAIN taken.ops : taken.ops[i].params = alone(i).params

\* A request that reaches the engine is one the rules allow, whatever was sent
\* (validate_request): every parameter that the engine reads is there and clean, and
\* an operation that must be alone is not in a batch.
RequestsChecked == TakenIsWhole /\ ReadsAreThere /\ TakenIsClean /\ SingleRules
=============================================================================
