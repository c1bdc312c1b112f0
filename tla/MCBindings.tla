----------------------------- MODULE MCBindings -----------------------------
(* Small instances of Bindings for TLC. *)
EXTENDS BindingsProps, TLC

\* Interfaces and process numbers are interchangeable.
AllSymmetry == Permutations(Iface) \cup Permutations(Pid)
=============================================================================
