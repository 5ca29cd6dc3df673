------------------------- MODULE MCAccountRevocation -------------------------
(* AccountRevocation for TLC: calls are interchangeable, and so are roles.  *)
EXTENDS AccountRevocation, TLC

Symmetry == Permutations(Change) \cup Permutations(Role)
==============================================================================
