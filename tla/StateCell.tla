----------------------------- MODULE StateCell -----------------------------
(***************************************************************************)
(* What the state file promises to those that use it: one cell of entries. *)
(* Operations on it take effect one at a time, on what the last one left.  *)
(* A power cut may take the cell back to its last durable value, no more.  *)
(***************************************************************************)
CONSTANT Entry

VARIABLES
    cell,       \* the entries recorded
    durable     \* the entries a power cut leaves

cellVars == <<cell, durable>>

CellInit == cell = {} /\ durable = {}

Put(e) == cell' = cell \cup {e} /\ UNCHANGED durable
Remove(e) == cell' = cell \ {e} /\ UNCHANGED durable
Harden == durable' = cell /\ UNCHANGED cell
PowerCut == cell' = durable /\ UNCHANGED durable

CellNext == (\E e \in Entry : Put(e) \/ Remove(e)) \/ Harden \/ PowerCut

CellSpec == CellInit /\ [][CellNext]_cellVars
=============================================================================
