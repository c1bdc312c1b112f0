----------------------------- MODULE MCRouting -----------------------------
(* Small instances of Routing for TLC. *)
EXTENDS RoutingProps, TLC

RoutingSymmetry == Permutations(Gateway) \cup Permutations(Iface)
=============================================================================
