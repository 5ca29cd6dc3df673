----------------------------- MODULE MCIdentities -----------------------------
(* Identities for TLC.                                                      *)
EXTENDS Identities, TLC
Requests == Permutations(Request)
==============================================================================
