---------------------------- MODULE MCInteraction ----------------------------
(* Small instances of Interaction for TLC. *)
EXTENDS Interaction
=============================================================================
