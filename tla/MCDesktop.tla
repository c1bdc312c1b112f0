----------------------------- MODULE MCDesktop -----------------------------
(* Instances of the main window for TLC: its requests and threads (Window) *)
(* and its table (Tables).  The two share no variable, so that a behaviour *)
(* of both is one of each: here one of them moves, the other stands still. *)
EXTENDS WindowProps, TLC

CONSTANTS
    Ifaces, App, Slot,  \* the interfaces, applications and adoptions of the table
    Scenes,             \* the snapshots of the system, in sets of which a behaviour takes one
    a, b                \* two applications, for the scenes below

World == UNION {Scenes[x] : x \in DOMAIN Scenes}

VARIABLES
    part,           \* what moves: the window, or the table in one of its scenes
    snap, rows, kids, item, memo, row, actions, enabled, locked, field, ips

table == <<snap, rows, kids, item, memo, row, actions, enabled, locked, field, ips>>

T == INSTANCE TablesProps WITH selected <- row, busy <- locked

ASSUME IfacesAreNumbered == Ifaces \in Nat
ASSUME WorldIsReal == \A s, t \in World :
    /\ T!Snapshot(s)
    \* An adoption stays on its interface: its id is drawn anew for each.
    /\ \A j \in DOMAIN s.adoptions, k \in DOMAIN t.adoptions :
          s.adoptions[j].id = t.adoptions[k].id => s.adoptions[j] = t.adoptions[k]

DesktopInit == part \in {"window"} \cup DOMAIN Scenes /\ Init /\ T!Init
DesktopNext ==
    \/ part = "window" /\ Next /\ UNCHANGED <<part, table>>
    \/ /\ part \in DOMAIN Scenes
       /\ T!Next /\ snap' \in Scenes[part] \cup {T!Nothing}
       /\ UNCHANGED <<part, vars>>
\* Fairness is of the window; of the table only safety is claimed.
DesktopSpec == DesktopInit /\ [][DesktopNext]_<<part, vars, table>> /\ Fairness

-----------------------------------------------------------------------------
(* The scenes: what is real on two interfaces, of two applications. *)

Orders(S, n) == {q \in UNION {[1..k -> S] : k \in 0..n} : \A j, k \in DOMAIN q : q[j] = q[k] => j = k}
Of(bound, adopted, bare, live, moved, usable) ==
    [bindings |-> bound, adoptions |-> adopted, live |-> live, moved |-> moved, usable |-> usable,
     nets |-> {bound[k].iface : k \in DOMAIN bound} \cup bare]

\* Bindings come, go, change places, stop and start.
Bindings ==
    {Of(q, <<>>, {}, live, {}, {1, 2}) :
        q \in Orders({[iface |-> 1, app |-> a], [iface |-> 1, app |-> b], [iface |-> 2, app |-> a]}, 2),
        live \in {{}, {[iface |-> 1, app |-> a]}}}
\* One binding, while interfaces come and go, with a namespace left over.
Interfaces ==
    {Of(q, <<>>, {2}, {}, {}, usable) :
        q \in Orders({[iface |-> 1, app |-> a]}, 1), usable \in SUBSET {1, 2}}
\* A binding and adopted applications.
Adoptions ==
    {Of(q, ad, {}, {}, moved, {1, 2}) :
        q \in Orders({[iface |-> 1, app |-> a]}, 1),
        ad \in Orders({[id |-> 1, iface |-> 1], [id |-> 2, iface |-> 1]}, 2), moved \in {{}, {1}}}

Whole(s) ==
    /\ s.live \subseteq {s.bindings[k] : k \in DOMAIN s.bindings}
    /\ s.moved \subseteq {s.adoptions[k].id : k \in DOMAIN s.adoptions}
EachScene ==
    [bindings |-> {s \in Bindings : Whole(s)}, interfaces |-> {s \in Interfaces : Whole(s)},
     adoptions |-> {s \in Adoptions : Whole(s)}]
ThreeScenes == EachScene

-----------------------------------------------------------------------------
(* What is claimed of the table: see TablesProps. *)

\* After every refresh (_sync_tree) the table shows the rows of the snapshot, each
\* once and in order, a button that can be pressed applies to the row selected
\* (_update_actions), and a public address is shown only for an interface that
\* carries applications (_render_bindings).
TableIsTrue == T!TypeOK /\ T!ShowsRows /\ T!ButtonsFit /\ T!AddressOfBound

\* A refresh takes no choice away from the user: the selection does not move to
\* another row, and the interface in the form changes only when it can no
\* longer be used.
ChoiceKept == T!SelectionKept /\ T!FieldKept
=============================================================================
