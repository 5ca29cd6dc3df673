----------------------------- MODULE MCUserAccounts -----------------------------
(* UserAccounts for TLC.                                                    *)
EXTENDS UserAccounts, TLC
Interchangeable == Permutations(User) \cup Permutations(Handler)
==============================================================================
