----------------------------- MODULE MCAdoption -----------------------------
(* A small instance of Adoption for TLC, with its watcher.                 *)
EXTENDS AdoptionProps
=============================================================================
