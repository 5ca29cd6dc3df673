--------------------------- MODULE MCTokenRotation ---------------------------
(* TokenRotation for TLC: the requests are interchangeable.                 *)
EXTENDS TokenRotation, TLC

Symmetry == Permutations(Request)
==============================================================================
