-------------------------- MODULE MCVerificationCode --------------------------
(* VerificationCode for TLC.                                                *)
EXTENDS VerificationCode, TLC
Callers == Permutations(Caller)
==============================================================================
