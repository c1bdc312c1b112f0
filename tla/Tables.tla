------------------------------- MODULE Tables -------------------------------
(***************************************************************************)
(* The Bindings table of the main window (ui/app.py): the rows made of a   *)
(* snapshot of the system, the tree widget that is brought to show them in *)
(* place, and what hangs on the row selected in it: the buttons, the       *)
(* interface field and the public addresses that were asked for.           *)
(*                                                                         *)
(* One thread does all of it, so a handler is one step; how snapshots come *)
(* to it is in module Window.  Texts, icons and rates are what they depend *)
(* on.  A row stands under the name the program gives it in the widget.    *)
(***************************************************************************)
EXTENDS Naturals, Sequences, FiniteSets, SequencesExt

CONSTANTS
    Ifaces,         \* how many interfaces there are
    App,            \* applications
    Slot,           \* adoptions of running applications
    None,           \* the null value, and the parent of an interface's row
    World           \* the snapshots that are taken

\* Interfaces are numbered in the order of their names.
Iface == 1..Ifaces

VARIABLES
    snap,           \* the snapshot the window works with
    rows,           \* the rows of the last rendering
    kids,           \* the widget: what stands under each row that has rows under it
    item,           \* the widget: what each row that is there shows
    memo,           \* what each row was last told to show, whether it is still there or not
    selected,       \* the row selected, or None
    actions,        \* the buttons shown under the table
    enabled,        \* those that can be pressed
    busy,           \* a request that changes something is out
    field,          \* the interface in the form, or None
    ips             \* the interfaces whose public address is known

widget == <<kids, item, memo>>
buttons == <<actions, enabled>>
vars == <<snap, rows, widget, selected, buttons, busy, field, ips>>

Binding == [iface : Iface, app : App]
Adoption == [id : Slot, iface : Iface]

\* What the state file, the process table and the cgroups held: bindings and
\* adoptions in their order, the interfaces with a namespace, the applications
\* whose launched process lives in one, the adoptions with a process, and the
\* interfaces that can carry applications.
Snapshot(s) ==
    /\ s.bindings \in Seq(Binding) /\ \A j, k \in DOMAIN s.bindings : s.bindings[j] = s.bindings[k] => j = k
    /\ s.adoptions \in Seq(Adoption) /\ \A j, k \in DOMAIN s.adoptions : s.adoptions[j].id = s.adoptions[k].id => j = k
    /\ s.nets \subseteq Iface /\ \A k \in DOMAIN s.bindings : s.bindings[k].iface \in s.nets
    /\ s.live \subseteq Range(s.bindings)
    /\ s.moved \subseteq {s.adoptions[k].id : k \in DOMAIN s.adoptions}
    /\ s.usable \subseteq Iface

Nothing == [bindings |-> <<>>, adoptions |-> <<>>, nets |-> {}, live |-> {}, moved |-> {},
            usable |-> {}]

IfaceRow(i) == <<"if", i>>
BindRow(b) == <<"b", b.iface, b.app>>
AdoptRow(id) == <<"a", id>>
Iid == {IfaceRow(i) : i \in Iface} \cup {BindRow(b) : b \in Binding} \cup {AdoptRow(id) : id \in Slot}
Parents == {None} \cup {IfaceRow(i) : i \in Iface}

AppActions == {"verify", "restart", "stop", "log", "move", "force", "release"}
IfaceActions == {"dns", "limit", "remove"}

-----------------------------------------------------------------------------
(* The rows: snapshot_rows and active_rows *)

\* A binding "runs" while a process lives in the namespace of its interface.
Runs(s, b) == \E p \in s.live : p.iface = b.iface

\* The processes of a row: the launched one while it lives, all of the
\* namespace otherwise.
Pids(s, b) == IF b \in s.live THEN {b} ELSE {p \in s.live : p.iface = b.iface}

Bound(s) == {s.bindings[k].iface : k \in DOMAIN s.bindings} \cup
            {s.adoptions[k].iface : k \in DOMAIN s.adoptions}

\* monitor.lane_state, rates left aside: an interface that carries applications.
Routes(s, i) == i \in s.usable /\ ((\E k \in DOMAIN s.bindings : s.bindings[k].iface = i /\ Runs(s, s.bindings[k]))
                                   \/ \E k \in DOMAIN s.adoptions : s.adoptions[k].iface = i /\ s.adoptions[k].id \in s.moved)

RowOfIface(s, i, known) ==
    [iid |-> IfaceRow(i), parent |-> None, kind |-> "iface", iface |-> i,
     running |-> \E k \in DOMAIN s.bindings : s.bindings[k].iface = i /\ Runs(s, s.bindings[k]),
     namespace |-> i \in s.nets,
     shows |-> <<Routes(s, i), i \in s.nets, i \in known>>]

RowOfBinding(s, b) ==
    [iid |-> BindRow(b), parent |-> IfaceRow(b.iface), kind |-> "bind", iface |-> b.iface,
     running |-> Runs(s, b), namespace |-> TRUE, shows |-> Pids(s, b)]

RowOfAdoption(s, a) ==
    [iid |-> AdoptRow(a.id), parent |-> IfaceRow(a.iface), kind |-> "adopt", iface |-> a.iface,
     running |-> a.id \in s.moved, namespace |-> a.iface \in s.nets, shows |-> {a.id} \cap s.moved]

\* The elements of a sequence that are in a set, in their order.
Only(q, S) ==
    LET upto[k \in 0..Len(q)] ==
            IF k = 0 THEN <<>>
            ELSE IF q[k] \in S THEN Append(upto[k - 1], q[k]) ELSE upto[k - 1]
    IN  upto[Len(q)]

\* The rows of an interface: its own, then those of its bindings and adoptions.
Group(s, i, known) ==
    LET bound == Only(s.bindings, [iface : {i}, app : App])
        adopted == Only(s.adoptions, [id : Slot, iface : {i}])
    IN  <<RowOfIface(s, i, known)>>
        \o [k \in DOMAIN bound |-> RowOfBinding(s, bound[k])]
        \o [k \in DOMAIN adopted |-> RowOfAdoption(s, adopted[k])]

ActiveRows(s, known) ==
    LET upto[i \in 0..Ifaces] ==
            IF i = 0 THEN <<>>
            ELSE IF i \in Bound(s) THEN upto[i - 1] \o Group(s, i, known) ELSE upto[i - 1]
    IN  upto[Ifaces]

-----------------------------------------------------------------------------
(* The widget: _sync_tree *)

Wanted(new) == {new[k].iid : k \in DOMAIN new}

\* A mutant: the table is emptied and filled again.
Prune_All(new) == [kids |-> [p \in Parents |-> <<>>], memo |-> memo, item |-> [iid \in {} |-> None]]
\* Rows that are not wanted go, and with them what stands under them.
Prune(new) ==
    LET left == [p \in Parents |->
                    IF p \in {None} \cup Wanted(new) THEN Only(kids[p], Wanted(new)) ELSE <<>>]
    IN [kids |-> left, memo |-> memo,
        item |-> [iid \in {x \in DOMAIN item : \E p \in Parents : x \in Range(left[p])} |-> item[iid]]]

\* The place of the k-th row among those under the same one.
Index(new, k) == Cardinality({j \in 1..(k - 1) : new[j].parent = new[k].parent})

\* A mutant: a row that is there stays where it is.
Put_Unmoved(tree, row, index) ==
    IF row.iid \in DOMAIN tree.item
      THEN tree.kids
      ELSE [tree.kids EXCEPT ![row.parent] = InsertAt(@, index + 1, row.iid)]

\* A row is moved to its place unless it is there.  What the widget shows is
\* changed by inserting a row before the one at that place.
Put(tree, row, index) ==
    LET without == [p \in Parents |-> Only(tree.kids[p], Iid \ {row.iid})]
    IN [without EXCEPT ![row.parent] = InsertAt(@, index + 1, row.iid)]

\* A mutant: a row is written once.
Write_Once(tree, row) == IF row.iid \in DOMAIN tree.item THEN tree.item[row.iid] ELSE row.shows
\* A row that is there is written only if it was last told something else.
Write(tree, row) ==
    IF row.iid \in DOMAIN tree.item /\ tree.memo[row.iid] = row.shows
      THEN tree.item[row.iid]
      ELSE row.shows

\* What becomes of the widget with the k-th row.
Place(tree, new, k) ==
    [kids |-> Put(tree, new[k], Index(new, k)),
     item |-> [iid \in DOMAIN tree.item \cup {new[k].iid} |->
                 IF iid = new[k].iid THEN Write(tree, new[k]) ELSE tree.item[iid]],
     memo |-> [tree.memo EXCEPT ![new[k].iid] = new[k].shows]]

SyncTree(new) ==
    LET upto[k \in 0..Len(new)] == IF k = 0 THEN Prune(new) ELSE Place(upto[k - 1], new, k)
    IN  upto[Len(new)]

-----------------------------------------------------------------------------
(* The buttons *)

\* The row of the selection among the rendered ones (_selected_item).
RowOf(new, iid) == new[CHOOSE k \in DOMAIN new : new[k].iid = iid]

VisibleActions(row) ==
    IF row.kind = "bind" THEN AppActions \ {"release"}
    ELSE IF row.kind = "adopt" THEN {"release"}
    ELSE {"verify"} \cup IF row.namespace THEN IfaceActions ELSE {}

\* A mutant: what can be done to a running application is offered always.
RowButtons_Stopped(running) == {"log", "restart", "verify", "stop", "force"}
\* row_button_states
RowButtons(running) == {"log", "restart"} \cup IF running THEN {"verify", "stop", "force"} ELSE {}

\* selection_actions
SelectionActions(row, idle, others) ==
    IF ~idle THEN {}
    ELSE (IF row.kind = "bind" THEN RowButtons(row.running) \cup (IF others # {} THEN {"move"} ELSE {})
          ELSE IF row.kind = "adopt" THEN {"release"}
          ELSE IF row.running THEN {"verify"} ELSE {})
         \cup IF row.namespace THEN IfaceActions ELSE {}

\* _update_buttons, of the window as it is to be: which buttons are shown for the
\* selection, and which of them can be pressed.
Shown(new, iid) == IF iid \in Wanted(new) THEN VisibleActions(RowOf(new, iid)) ELSE {}
Pressable(new, iid, working, s) ==
    IF iid \in Wanted(new)
      THEN SelectionActions(RowOf(new, iid), ~working, s.usable \ {RowOf(new, iid).iface})
      ELSE {}
UpdateButtons(new, iid, working, s) ==
    actions' = Shown(new, iid) /\ enabled' = Pressable(new, iid, working, s)

-----------------------------------------------------------------------------
Init ==
    /\ snap = Nothing /\ rows = <<>>
    /\ kids = [p \in Parents |-> <<>>] /\ item = [iid \in {} |-> None] /\ memo = [iid \in Iid |-> None]
    /\ selected = None /\ actions = {} /\ enabled = {} /\ busy = FALSE
    /\ field = None /\ ips = {}

\* A mutant: an address outlives the bindings of its interface.
Kept_All(s, known) == known
\* Addresses go with the last application of their interface.
Kept(s, known) == known \cap Bound(s)

\* _render_bindings.  The widget drops the selection with a row it removes.
Render(s, known, working) ==
    LET kept == Kept(s, known)
        new == ActiveRows(s, kept)
        tree == SyncTree(new)
    IN /\ rows' = new /\ ips' = kept
       /\ kids' = tree.kids /\ item' = tree.item /\ memo' = tree.memo
       /\ selected' = IF selected \in DOMAIN Prune(new).item THEN selected ELSE None
       /\ UpdateButtons(new, selected', working, s)

\* Mutants: the form goes back to the first interface at each refresh, or its
\* place in the list is taken for an interface.
Chosen_Index(s) == IF field \in s.usable THEN field
                  ELSE IF s.usable = {} THEN 0 ELSE CHOOSE i \in s.usable : TRUE
Chosen_First(s) == IF s.usable = {} THEN None ELSE CHOOSE i \in s.usable : TRUE
\* _apply_interfaces: the interface in the form stays while it can be used;
\* otherwise the first that can.
Chosen(s) == IF field \in s.usable THEN field
             ELSE IF s.usable = {} THEN None ELSE CHOOSE i \in s.usable : TRUE

\* _on_snapshot
Refresh(s) ==
    /\ snap' = s /\ field' = Chosen(s)
    /\ Render(s, ips, busy)
    /\ UNCHANGED busy

\* Every second the rates are read and the table rendered again; addresses
\* found more than five minutes ago are dropped (fresh_public_ip).
Sample ==
    /\ \E fresh \in SUBSET ips : Render(snap, fresh, busy)
    /\ UNCHANGED <<snap, busy, field>>

\* The user selects a row: by a click, on its graph, or for its menu.
Select(iid) ==
    /\ iid \in DOMAIN item
    /\ selected' = iid
    /\ UpdateButtons(rows, iid, busy, snap)
    /\ UNCHANGED <<snap, rows, widget, busy, field, ips>>

ChooseIface(i) ==
    /\ i \in snap.usable /\ field' = i
    /\ UNCHANGED <<snap, rows, widget, selected, buttons, busy, ips>>

\* A button sends its request (_run_mutation) ...
Press ==
    /\ enabled # {} /\ ~busy /\ busy' = TRUE
    /\ UpdateButtons(rows, selected, TRUE, snap)
    /\ UNCHANGED <<snap, rows, widget, selected, field, ips>>

\* ... and it returns.  A check that failed leaves the table as it is, and so does
\* the answer to any other request.
ReturnOther ==
    /\ busy /\ busy' = FALSE
    /\ UpdateButtons(rows, selected, FALSE, snap)
    /\ UNCHANGED <<snap, rows, widget, selected, field, ips>>

\* Of a check of the public address, _on_verify_done notes the outcome for the
\* interface it was asked of, whatever has become of that.
Return(i, found) ==
    /\ busy /\ busy' = FALSE
    /\ Render(snap, IF found THEN ips \cup {i} ELSE ips \ {i}, FALSE)
    /\ UNCHANGED <<snap, field>>

Next ==
    \/ \E s \in World : Refresh(s)
    \/ Sample
    \/ \E iid \in Iid : Select(iid)
    \/ \E i \in Iface : ChooseIface(i)
    \/ Press \/ ReturnOther
    \/ \E i \in Iface, found \in BOOLEAN : Return(i, found)

Spec == Init /\ [][Next]_vars
=============================================================================
