------------------------------ MODULE IdentityMap ------------------------------
(***************************************************************************)
(* What registration and OAuth login promise of the identities of users:   *)
(* phone numbers, e-mail addresses, accounts of OAuth platforms. A user    *)
(* who has none yet claims free identities at once; they stay his.         *)
(***************************************************************************)
CONSTANTS Identity, User, None
VARIABLE owner

Init == owner = [i \in Identity |-> None]

Claim(u) ==
    /\ \A i \in Identity : owner[i] # u
    /\ \A i \in Identity : owner'[i] = owner[i] \/ (owner[i] = None /\ owner'[i] = u)
    /\ DOMAIN owner' = Identity

Next == \E u \in User : Claim(u)

Spec == Init /\ [][Next]_owner
==============================================================================
