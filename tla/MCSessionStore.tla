---------------------------- MODULE MCSessionStore ----------------------------
(* Symmetry for the runs of SessionStore: sessions are alike, and so are the   *)
(* callers of RevokeAll.                                                       *)
EXTENDS SessionStore, TLC

Symmetry == Permutations(Sid) \cup Permutations(Admin)
===============================================================================
