-------------------------- MODULE MCEventBindings --------------------------
(* The bindings on two values, for TLC. *)
EXTENDS EventBindings

CONSTANTS x, y

MCLists == {{}, {x}}
=============================================================================
