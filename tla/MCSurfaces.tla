----------------------------- MODULE MCSurfaces -----------------------------
(* Surfaces, small instances: turns and visits are interchangeable. *)
EXTENDS Surfaces, TLC

CONSTANTS t1, t2, v1, v2

Interchangeable == Permutations({t1, t2}) \cup Permutations({v1, v2})
=============================================================================
