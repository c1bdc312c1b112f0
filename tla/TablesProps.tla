----------------------------- MODULE TablesProps -----------------------------
(* What is claimed of Tables. *)
EXTENDS Tables

\* Every variable holds a value of its kind.
TypeOK ==
    /\ snap \in World \cup {Nothing}
    /\ Wanted(rows) \subseteq Iid
    /\ DOMAIN kids = Parents /\ \A p \in Parents : kids[p] \in Seq(Iid)
    /\ DOMAIN item \subseteq Iid /\ DOMAIN memo = Iid
    /\ selected \in Iid \cup {None}
    /\ actions \subseteq AppActions \cup IfaceActions /\ enabled \subseteq AppActions \cup IfaceActions
    /\ busy \in BOOLEAN /\ field \in Iface \cup {None} /\ ips \subseteq Iface

\* The rows that are due: of each interface that carries applications, of each
\* binding and of each adoption.
Due(s) == {IfaceRow(i) : i \in Bound(s)} \cup {BindRow(s.bindings[k]) : k \in DOMAIN s.bindings}
          \cup {AdoptRow(s.adoptions[k].id) : k \in DOMAIN s.adoptions}

\* The names of rows in their order, and of those that stand under p.
Names(new) == [k \in DOMAIN new |-> new[k].iid]
Children(new, p) == {new[k].iid : k \in {j \in DOMAIN new : new[j].parent = p}}

\* The table shows exactly the rows of the snapshot, each once, in order, and
\* what each says now, although only what changed is written (_sync_tree:
\* "Make tree show exactly rows").
ShowsRows ==
    /\ rows = ActiveRows(snap, ips) /\ Wanted(rows) = Due(snap)
    /\ \A j, k \in DOMAIN rows : rows[j].iid = rows[k].iid => j = k
    /\ \A k \in DOMAIN rows : rows[k].parent \in {None} \cup Wanted(rows)
    /\ \A p \in Parents : kids[p] = Only(Names(rows), Children(rows, p))
    /\ item = [iid \in Wanted(rows) |-> RowOf(rows, iid).shows]

\* "... so selection and scroll survive refreshes": a refresh, a sample or a
\* result takes the selection away only with its row, and never moves it to
\* another binding.
SelectionKept ==
    [][selected' # selected => selected \notin Wanted(rows') \/ (rows' = rows /\ snap' = snap)]_vars

\* A button that can be pressed applies to the application that is selected, as
\* the last snapshot has it: never to one that has gone, never while a request
\* is out, and never one that is not shown, unless the menu of the row has it.
ButtonsFit ==
    /\ enabled # {} => ~busy /\ selected \in DOMAIN item
    /\ enabled \ actions \subseteq IfaceActions
    /\ {"stop", "force"} \cap enabled # {} =>
          \E k \in DOMAIN snap.bindings : BindRow(snap.bindings[k]) = selected /\ Runs(snap, snap.bindings[k])
    /\ "move" \in enabled => \E i \in snap.usable : i # RowOf(rows, selected).iface

\* The interface in the form is one that can be used, and changes under the
\* user's hands only when it no longer can be.
FieldKept == [][field' # field => field' \in snap'.usable \cup {None} /\ (field \notin snap'.usable \/ snap' = snap)]_vars

\* A public address is shown for an interface that carries applications: one
\* that was found before they left is not shown to those that come later.
AddressOfBound == ips \subseteq Bound(snap)

\* README.md: "Each row shows its status, PID".  The processes a row shows are
\* processes of its application.
OwnProcesses ==
    \A k \in DOMAIN snap.bindings : item[BindRow(snap.bindings[k])] \subseteq {snap.bindings[k]}
=============================================================================
