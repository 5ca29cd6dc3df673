----------------------------- MODULE MCLoginLock -----------------------------
(* LoginLock for TLC. No symmetry: the run has a liveness property.         *)
EXTENDS LoginLock
==============================================================================
