------------------------------ MODULE MCMemory ------------------------------
(* Memory, small instances. *)
EXTENDS Memory
=============================================================================
