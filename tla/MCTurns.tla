------------------------------- MODULE MCTurns -------------------------------
(***************************************************************************)
(* Small instances of Turns for TLC.                                       *)
(***************************************************************************)
EXTENDS Turns, TLC

CONSTANTS m1, m2, s1

\* One student who writes on one channel, or on two.
OneStudent == [c \in Conversations |-> s1]
OneChat == [m \in Messages |-> "c1"]
TwoChats == [m \in Messages |-> IF m = m1 THEN "c1" ELSE "c2"]

\* The worker loops run the same code (no liveness is checked with this).
SameLoops == Permutations(Workers)
=============================================================================
