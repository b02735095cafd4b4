------------------------------ MODULE MCWorld ------------------------------
(* Two messages of one conversation. *)
EXTENDS World
=============================================================================
