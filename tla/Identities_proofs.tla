---------------------------- MODULE Identities_proofs ----------------------------
(***************************************************************************)
(* For any number of registrations and OAuth logins at the same time, with *)
(* or without the transaction: an identity gets one owner and keeps him.   *)
(***************************************************************************)
EXTENDS Identities, FiniteSetTheorems, TLAPS

Reqs == [at : {"idle", "key", "join", "wait", "reread", "remote", "lookup", "phone",
               "email", "create", "insert", "bind", "commit", "again"},
         want : SUBSET Identity, genuine : BOOLEAN, kid : 0..MaxKeys,
         user : 0..MaxUsers, res : {"none", "ok", "exists", "invalid", "error"}]

Registering == {"phone", "email", "create"}
Trusted == {"lookup", "insert", "bind", "commit", "again"}
LoggingIn == {"key", "join", "wait", "reread", "remote"} \cup Trusted

(* Where a request is says what it presented, and that a token was checked. *)
Tagged ==
    \A h \in Request :
        /\ req[h].at \in Registering => req[h].want \subseteq Contact /\ req[h].genuine
        /\ req[h].at \in LoggingIn => \E i \in Account : req[h].want = {i}
        /\ req[h].at \in Trusted => req[h].genuine \/ devMode
        /\ req[h].at = "again" => Conflict(req[h].want)

(* The user a login has inserted is its own and owns nothing yet; what it   *)
(* is about to commit is free, and nobody else is about to commit it.       *)
Binding(h) == req[h].at \in {"bind", "commit"}
Pending ==
    /\ \A h \in Request : Binding(h) =>
          /\ req[h].user \in 1..inserted
          /\ \A i \in Identity : owner[i] # req[h].user
          /\ IF OAuthTx THEN req[h].user \notin users ELSE req[h].user \in users
    /\ \A g, h \in Request :
          Binding(g) /\ Binding(h) /\ req[g].user = req[h].user => g = h
    /\ \A h \in Request : At(h, "commit") => OAuthTx /\ ~Conflict(req[h].want)
    /\ \A g, h \in Request :
          At(g, "commit") /\ At(h, "commit") /\ req[g].want = req[h].want => g = h

IdInv == IdTypeOK /\ Tagged /\ Pending /\ NoOrphan /\ GetsOwner

LEMMA IdInit == Init => IdInv
<1> SUFFICES ASSUME Init PROVE IdInv
  OBVIOUS
<1> USE IdentityAssumption
<1>1. req \in [Request -> Reqs]
  BY DEF Init, Idle, Reqs
<1>2. devMode \in BOOLEAN /\ ids \in BOOLEAN
  BY DEF Init
<1>3. IdTypeOK
  BY <1>1, <1>2 DEF Init, KeysInit, IdTypeOK, Reqs
<1>4. \A h \in Request : req[h].at = "idle" /\ req[h].res = "none"
  BY DEF Init, Idle
<1>5. Tagged
  BY <1>4 DEF Tagged, Registering, Trusted, LoggingIn
<1>6. Pending
  BY <1>4 DEF Pending, Binding, At
<1>7. NoOrphan /\ GetsOwner
  BY <1>4 DEF Init, NoOrphan, GetsOwner
<1> QED BY <1>3, <1>5, <1>6, <1>7 DEF IdInv

(* The platform of an OAuth login.                                          *)
LEMMA ProviderIs ==
    ASSUME Tagged, NEW h \in Request, req[h].at \in LoggingIn
    PROVE  Provider(h) \in Account /\ req[h].want = {Provider(h)}
<1>1. PICK i \in Account : req[h].want = {i}
  BY DEF Tagged
<1>2. Provider(h) \in Account /\ Provider(h) \in req[h].want
  BY <1>1 DEF Provider
<1> QED BY <1>1, <1>2

(***************************************************************************)
(* Types.                                                                  *)
(***************************************************************************)
LEMMA ResultType ==
    ASSUME IdTypeOK, NEW h \in Request,
           NEW result \in {"none", "ok", "exists", "invalid", "error"},
           NEW u \in 0..MaxUsers
    PROVE  Result(h, result, u) \in Reqs
<1>1. req[h] \in Reqs /\ Idle \in Reqs
  BY IdentityAssumption DEF IdTypeOK, Reqs, Idle
<1>2. [Idle EXCEPT !.res = result] \in Reqs
  BY <1>1 DEF Reqs
<1>3. 0 \in 0..MaxKeys
  BY IdentityAssumption
<1>4. [req[h] EXCEPT !.at = "idle", !.kid = 0, !.res = result, !.user = u] \in Reqs
  BY <1>1, <1>3 DEF Reqs
<1> QED BY <1>2, <1>4 DEF Result

LEMMA EndsType ==
    ASSUME IdTypeOK, NEW h \in Request,
           NEW result \in {"none", "ok", "exists", "invalid", "error"},
           NEW u \in 0..MaxUsers, Ends(h, result, u)
    PROVE  req' \in [Request -> Reqs]
<1>1. Result(h, result, u) \in Reqs
  BY ResultType
<1> QED BY <1>1 DEF IdTypeOK, Reqs, Ends

LEMMA GoesType ==
    ASSUME IdTypeOK, NEW h \in Request,
           NEW label \in {"idle", "key", "join", "wait", "reread", "remote", "lookup", "phone",
               "email", "create", "insert", "bind", "commit", "again"}, Goes(h, label)
    PROVE  req' \in [Request -> Reqs]
BY DEF IdTypeOK, Reqs, Goes

LEMMA OwnersBounded ==
    ASSUME IdTypeOK
    PROVE  /\ \A i \in Identity : owner[i] \in 0..MaxUsers
           /\ 0 \in 0..MaxUsers /\ inserted \in Nat
<1>1. inserted \in Nat /\ inserted <= MaxUsers /\ MaxUsers \in Nat
  BY IdentityAssumption DEF IdTypeOK
<1>2. \A i \in Identity : owner[i] = 0 \/ owner[i] \in 1..inserted
  BY DEF IdTypeOK
<1> QED BY <1>1, <1>2

(* A step of a request types the request, and leaves the rest typed.        *)
LEMMA QuietType ==
    ASSUME IdTypeOK, UNCHANGED <<config, tables>>,
           req' \in [Request -> Reqs], faults' \in 0..MaxFaults, UNCHANGED keys
    PROVE  IdTypeOK'
<1>1. /\ published' \in 1..MaxKeys /\ cached' \in 0..MaxKeys /\ answer' \in 0..MaxKeys
      /\ throttle' \in 0..Interval /\ window' \in 0..Interval /\ extra' \in Nat
      /\ leader' \subseteq Request
  BY DEF keys, IdTypeOK
<1>2. /\ devMode' \in BOOLEAN /\ ids' \in BOOLEAN
      /\ inserted' \in 0..MaxUsers /\ users' \subseteq 1..inserted' /\ anonymous' \subseteq users'
      /\ owner' \in [Identity -> users' \cup {0}]
  BY DEF config, tables, IdTypeOK
<1> QED BY <1>1, <1>2 DEF IdTypeOK, Reqs

LEMMA CheckTypes ==
    ASSUME IdTypeOK, Tagged, NEW h \in Request,
           \/ \E S \in SUBSET Contact : StartRegister(h, S)
           \/ CheckPhone(h) \/ CheckEmail(h) \/ VerifyRemote(h)
           \/ Lookup(h) \/ LookupAgain(h) \/ Fails(h)
    PROVE  IdTypeOK'
<1>1. UNCHANGED <<keys, config, tables>>
  BY DEF StartRegister, CheckPhone, CheckEmail, VerifyRemote, Lookup, LookupAgain, Fails
<1>2. faults' \in 0..MaxFaults
  <2>1. faults' = faults \/ Fault
    BY DEF StartRegister, CheckPhone, CheckEmail, VerifyRemote, Lookup, LookupAgain, Fails
  <2> QED BY <2>1, IdentityAssumption DEF Fault, IdTypeOK
<1>3. req' \in [Request -> Reqs]
  <2>1. ASSUME NEW S \in SUBSET Contact, StartRegister(h, S)
        PROVE  req' \in [Request -> Reqs]
    <3>1. [Idle EXCEPT !.at = "phone", !.want = S] \in Reqs
      <4>1. Idle \in Reqs /\ S \in SUBSET Identity
        BY IdentityAssumption DEF Idle, Reqs, Identity
      <4> QED BY <4>1 DEF Reqs
    <3> QED BY <2>1, <3>1 DEF StartRegister, IdTypeOK, Reqs
  <2>2. CASE CheckPhone(h)
    BY <2>2, EndsType, GoesType, OwnersBounded DEF CheckPhone
  <2>3. CASE CheckEmail(h)
    BY <2>3, EndsType, GoesType, OwnersBounded DEF CheckEmail
  <2>4. CASE VerifyRemote(h)
    BY <2>4, EndsType, GoesType, OwnersBounded DEF VerifyRemote
  <2>5. CASE Lookup(h)
    <3>1. ByOAuth(Provider(h)) \in 0..MaxUsers
      BY <2>5, ProviderIs, OwnersBounded DEF Lookup, At, LoggingIn, Trusted, ByOAuth, Identity
    <3> QED BY <2>5, <3>1, EndsType, GoesType DEF Lookup
  <2>6. CASE LookupAgain(h)
    <3>1. ByOAuth(Provider(h)) \in 0..MaxUsers
      BY <2>6, ProviderIs, OwnersBounded
         DEF LookupAgain, At, LoggingIn, Trusted, ByOAuth, Identity
    <3> QED BY <2>6, <3>1, EndsType, OwnersBounded DEF LookupAgain
  <2>7. CASE Fails(h)
    BY <2>7, EndsType, OwnersBounded DEF Fails
  <2> QED BY <2>1, <2>2, <2>3, <2>4, <2>5, <2>6, <2>7
<1> QED BY <1>1, <1>2, <1>3, QuietType

LEMMA StartOAuthType ==
    ASSUME IdTypeOK, NEW h \in Request, NEW i \in Account, NEW genuine \in BOOLEAN,
           NEW bare \in BOOLEAN, NEW kid \in {0, published},
           StartOAuth(h, i, genuine, bare, kid)
    PROVE  IdTypeOK'
<1> DEFINE begun == [Idle EXCEPT !.want = {i}, !.genuine = genuine, !.kid = kid]
<1>1. /\ [begun EXCEPT !.at = "lookup"] \in Reqs /\ [begun EXCEPT !.at = "key"] \in Reqs
      /\ [begun EXCEPT !.at = "remote"] \in Reqs /\ [Idle EXCEPT !.res = "invalid"] \in Reqs
  <2>1. kid \in 0..MaxKeys /\ {i} \in SUBSET Identity
    BY IdentityAssumption DEF IdTypeOK, Identity
  <2>2. Idle \in Reqs
    BY IdentityAssumption DEF Idle, Reqs
  <2>3. begun \in Reqs
    BY <2>1, <2>2 DEF Reqs
  <2> QED BY <2>2, <2>3 DEF Reqs
<1>2. \E r \in Reqs : req' = [req EXCEPT ![h] = r]
  <2>1. \/ req' = [req EXCEPT ![h] = [begun EXCEPT !.at = "lookup"]]
        \/ req' = [req EXCEPT ![h] = [Idle EXCEPT !.res = "invalid"]]
        \/ req' = [req EXCEPT ![h] = [begun EXCEPT !.at = "key"]]
        \/ req' = [req EXCEPT ![h] = [begun EXCEPT !.at = "remote"]]
    BY DEF StartOAuth
  <2> QED BY <1>1, <2>1
<1>3. req' \in [Request -> Reqs]
  BY <1>2 DEF IdTypeOK, Reqs
<1>4. UNCHANGED <<keys, config, tables>> /\ faults' \in 0..MaxFaults
  BY DEF StartOAuth, IdTypeOK
<1> QED BY <1>3, <1>4, QuietType

(* The steps of the key cache.                                              *)
LEMMA KeyTypes ==
    ASSUME IdTypeOK, UNCHANGED <<config, tables>>,
           KeysNext \/ \E h \in Request : PublicKey(h)
    PROVE  IdTypeOK'
<1>1. faults' \in 0..MaxFaults
  <2>1. faults' = faults \/ Fault
    BY DEF KeysNext, PublicKey, KeyLookup, Join, Reread, AskApple, RefreshFails, Refreshed,
           Rotate, Minute
  <2> QED BY <2>1, IdentityAssumption DEF Fault, IdTypeOK
<1>2. req' \in [Request -> Reqs]
  <2>1. ASSUME NEW h \in Request, KeyLookup(h)
        PROVE  req' \in [Request -> Reqs]
    BY <2>1, EndsType, GoesType, OwnersBounded DEF KeyLookup, Verified
  <2>2. ASSUME NEW h \in Request, Join(h)
        PROVE  req' \in [Request -> Reqs]
    BY <2>2, GoesType DEF Join
  <2>3. ASSUME NEW h \in Request, Reread(h)
        PROVE  req' \in [Request -> Reqs]
    BY <2>3, EndsType, GoesType, OwnersBounded DEF Reread, Verified
  <2>4. CASE RefreshFails
    <3>1. \A h \in Request : Result(h, "invalid", 0) \in Reqs /\ req[h] \in Reqs
      BY ResultType, OwnersBounded DEF IdTypeOK, Reqs
    <3> QED BY <2>4, <3>1 DEF RefreshFails
  <2>5. CASE Refreshed
    <3>1. \A h \in Request : req[h] \in Reqs /\ [req[h] EXCEPT !.at = "reread"] \in Reqs
      BY DEF IdTypeOK, Reqs
    <3> QED BY <2>5, <3>1 DEF Refreshed
  <2>6. CASE AskApple \/ Rotate \/ Minute
    BY <2>6 DEF AskApple, Rotate, Minute, IdTypeOK, Reqs
  <2> QED BY <2>1, <2>2, <2>3, <2>4, <2>5, <2>6 DEF KeysNext, PublicKey
<1>3. /\ published' \in 1..MaxKeys /\ cached' \in 0..MaxKeys /\ answer' \in 0..MaxKeys
      /\ throttle' \in 0..Interval /\ window' \in 0..Interval /\ extra' \in Nat
      /\ leader' \subseteq Request
  <2> USE IdentityAssumption DEF IdTypeOK
  <2>1. CASE \E h \in Request : PublicKey(h)
    BY <2>1 DEF PublicKey, KeyLookup, Join, Reread, keys
  <2>2. CASE AskApple
    BY <2>2 DEF AskApple
  <2>3. CASE RefreshFails
    BY <2>3 DEF RefreshFails
  <2>4. CASE Refreshed
    BY <2>4 DEF Refreshed
  <2>5. CASE Rotate
    BY <2>5 DEF Rotate
  <2>6. CASE Minute
    BY <2>6 DEF Minute
  <2> QED BY <2>1, <2>2, <2>3, <2>4, <2>5, <2>6 DEF KeysNext
<1>4. /\ devMode' \in BOOLEAN /\ ids' \in BOOLEAN
      /\ inserted' \in 0..MaxUsers /\ users' \subseteq 1..inserted' /\ anonymous' \subseteq users'
      /\ owner' \in [Identity -> users' \cup {0}]
  BY DEF config, tables, IdTypeOK
<1> QED BY <1>1, <1>2, <1>3, <1>4 DEF IdTypeOK, Reqs

(* The statements that change the tables.                                   *)
LEMMA TableTypes ==
    ASSUME IdTypeOK, UNCHANGED <<keys, config>>, inserted' \in 0..MaxUsers,
           req' \in [Request -> Reqs], faults' = faults \/ Fault,
           users' \subseteq 1..inserted', anonymous' \subseteq users',
           owner' \in [Identity -> users' \cup {0}]
    PROVE  IdTypeOK'
<1>1. /\ published' \in 1..MaxKeys /\ cached' \in 0..MaxKeys /\ answer' \in 0..MaxKeys
      /\ throttle' \in 0..Interval /\ window' \in 0..Interval /\ extra' \in Nat
      /\ leader' \subseteq Request
  BY DEF keys, IdTypeOK
<1>2. devMode' \in BOOLEAN /\ ids' \in BOOLEAN
  BY DEF config, IdTypeOK
<1>3. faults' \in 0..MaxFaults
  BY IdentityAssumption DEF Fault, IdTypeOK
<1> QED BY <1>1, <1>2, <1>3 DEF IdTypeOK, Reqs

LEMMA RegisterType ==
    ASSUME IdTypeOK, NEW h \in Request, NEW lost \in BOOLEAN, Register(h, lost)
    PROVE  IdTypeOK'
<1>1. CASE Conflict(req[h].want)
  <2>1. UNCHANGED <<keys, config, tables>> /\ faults' = faults /\ Ends(h, "exists", 0)
    BY <1>1 DEF Register
  <2> QED BY <2>1, EndsType, OwnersBounded, QuietType DEF IdTypeOK
<1>2. CASE ~Conflict(req[h].want)
  <2>1. /\ UNCHANGED <<keys, config>> /\ CreateUser(inserted + 1)
        /\ users' = users \cup {inserted + 1} /\ Own(req[h].want, inserted + 1)
        /\ anonymous' = IF req[h].want = {} THEN anonymous \cup {inserted + 1} ELSE anonymous
        /\ faults' = faults \/ Fault
    BY <1>2 DEF Register
  <2>2. inserted' = inserted + 1 /\ inserted' \in 0..MaxUsers /\ inserted \in Nat
    BY <2>1, IdentityAssumption DEF CreateUser, IdTypeOK
  <2>3. req' \in [Request -> Reqs]
    BY <1>2, <2>2, EndsType, OwnersBounded DEF Register
  <2>4. users' \subseteq 1..inserted' /\ anonymous' \subseteq users'
    BY <2>1, <2>2 DEF IdTypeOK
  <2>5. owner' \in [Identity -> users' \cup {0}]
    BY <2>1 DEF Own, IdTypeOK
  <2> QED BY <2>1, <2>2, <2>3, <2>4, <2>5, TableTypes
<1> QED BY <1>1, <1>2

LEMMA CreateOAuthUserType ==
    ASSUME IdTypeOK, NEW h \in Request, CreateOAuthUser(h)
    PROVE  IdTypeOK'
<1>1. /\ UNCHANGED <<keys, faults, config, owner, anonymous>>
      /\ users' = IF OAuthTx THEN users ELSE users \cup {inserted + 1}
  BY DEF CreateOAuthUser
<1>2. inserted' = inserted + 1 /\ inserted' \in 0..MaxUsers /\ inserted \in Nat
  BY IdentityAssumption DEF CreateOAuthUser, CreateUser, IdTypeOK
<1>3. req' \in [Request -> Reqs]
  <2>1. inserted + 1 \in 0..MaxUsers
    BY <1>2
  <2>2. req[h] \in Reqs
    BY DEF IdTypeOK, Reqs
  <2>3. [req[h] EXCEPT !.at = "bind", !.user = inserted + 1] \in Reqs
    BY <2>1, <2>2 DEF Reqs
  <2> QED BY <2>3 DEF CreateOAuthUser, IdTypeOK, Reqs
<1>4. users' \subseteq 1..inserted' /\ anonymous' \subseteq users'
  BY <1>1, <1>2 DEF IdTypeOK
<1>5. owner' \in [Identity -> users' \cup {0}]
  BY <1>1 DEF IdTypeOK
<1> QED BY <1>1, <1>2, <1>3, <1>4, <1>5, TableTypes

LEMMA CreateOAuthType ==
    ASSUME IdTypeOK, Pending, NEW h \in Request, CreateOAuth(h)
    PROVE  IdTypeOK'
<1>1. UNCHANGED <<keys, faults, config, users, inserted, anonymous>>
  BY DEF CreateOAuth
<1>2. req' \in [Request -> Reqs]
  <2>1. \/ Goes(h, "again") \/ Goes(h, "commit") \/ Ends(h, "ok", req[h].user)
    BY DEF CreateOAuth
  <2>2. req[h].user \in 0..MaxUsers
    BY DEF IdTypeOK
  <2> QED BY <2>1, <2>2, EndsType, GoesType
<1>3. owner' \in [Identity -> users' \cup {0}]
  <2>1. owner' = owner \/ (Own(req[h].want, req[h].user) /\ ~OAuthTx)
    BY DEF CreateOAuth
  <2>2. ~OAuthTx => req[h].user \in users
    BY DEF CreateOAuth, Pending, Binding, At
  <2> QED BY <1>1, <2>1, <2>2 DEF Own, IdTypeOK
<1>4. inserted' \in 0..MaxUsers /\ users' \subseteq 1..inserted' /\ anonymous' \subseteq users'
  BY <1>1 DEF IdTypeOK
<1> QED BY <1>1, <1>2, <1>3, <1>4, TableTypes

LEMMA CommitType ==
    ASSUME IdTypeOK, Pending, NEW h \in Request, NEW lost \in BOOLEAN, Commit(h, lost)
    PROVE  IdTypeOK'
<1>1. /\ UNCHANGED <<keys, config, inserted, anonymous>> /\ (faults' = faults \/ Fault)
      /\ users' = users \cup {req[h].user} /\ Own(req[h].want, req[h].user)
  BY DEF Commit
<1>2. req' \in [Request -> Reqs]
  <2>1. Ends(h, "error", 0) \/ Ends(h, "ok", req[h].user)
    BY DEF Commit
  <2>2. req[h].user \in 0..MaxUsers
    BY DEF IdTypeOK
  <2> QED BY <2>1, <2>2, EndsType, OwnersBounded
<1>3. req[h].user \in 1..inserted
  BY DEF Commit, Pending, Binding, At
<1>4. inserted' \in 0..MaxUsers /\ users' \subseteq 1..inserted' /\ anonymous' \subseteq users'
  BY <1>1, <1>3 DEF IdTypeOK
<1>5. owner' \in [Identity -> users' \cup {0}]
  BY <1>1 DEF Own, IdTypeOK
<1> QED BY <1>1, <1>2, <1>4, <1>5, TableTypes

LEMMA IdTypeStep ==
    ASSUME IdTypeOK, Tagged, Pending, [Next]_ivars
    PROVE  IdTypeOK'
<1>1. CASE UNCHANGED ivars
  BY <1>1, QuietType DEF ivars, config, tables, IdTypeOK, Reqs
<1>2. CASE KeysNext /\ UNCHANGED <<config, tables>>
  BY <1>2, KeyTypes
<1>3. ASSUME NEW h \in Request, Step(h)
      PROVE  IdTypeOK'
  BY <1>3, KeyTypes, CheckTypes, StartOAuthType, RegisterType, CreateOAuthUserType,
     CreateOAuthType, CommitType DEF Step
<1> QED BY <1>1, <1>2, <1>3 DEF Next

(***************************************************************************)
(* Steps that leave the tables alone: what they may do with a request.     *)
(***************************************************************************)
Same(h) ==
    /\ req'[h].want = req[h].want /\ req'[h].genuine = req[h].genuine
    /\ req'[h].user = req[h].user

Opens(h) ==
    /\ req[h].at = "idle"
    /\ \/ req'[h].at = "phone" /\ req'[h].want \subseteq Contact /\ req'[h].genuine
       \/ /\ req'[h].at \in {"key", "remote", "lookup"}
          /\ \E i \in Account : req'[h].want = {i}
          /\ req'[h].at = "lookup" => devMode

Moves(h) ==
    /\ Same(h)
    /\ \/ req[h].at \in {"phone", "email"} /\ req'[h].at \in {"email", "create"}
       \/ /\ req[h].at \in {"key", "join", "wait", "reread", "remote"}
          /\ req'[h].at \in {"join", "wait", "reread", "lookup"}
          /\ req'[h].at = "lookup" => req[h].genuine
       \/ req[h].at = "lookup" /\ req'[h].at = "insert"

Closes(h) ==
    /\ req'[h].at = "idle"
    /\ req'[h].res = "ok" =>
          /\ req[h].at \in Trusted /\ req'[h].want = req[h].want
          /\ req'[h].genuine = req[h].genuine
          /\ req'[h].user # 0 /\ \A i \in req[h].want : owner[i] = req'[h].user
          /\ req[h].want \subseteq Account
    /\ req'[h].res = "exists" => req'[h].want = req[h].want /\ Conflict(req[h].want)
    /\ req'[h].res = "error" => faults' > 0

Passes(h) == req'[h] = req[h] \/ Opens(h) \/ Moves(h) \/ Closes(h)

(* Such a step keeps the invariant.                                         *)
LEMMA QuietKeeps ==
    ASSUME IdInv, UNCHANGED <<config, tables>>, faults' = faults \/ faults' = faults + 1,
           \A h \in Request : Passes(h)
    PROVE  Tagged' /\ Pending' /\ NoOrphan' /\ GetsOwner'
<1>1. /\ devMode' = devMode /\ users' = users /\ owner' = owner
      /\ inserted' = inserted /\ anonymous' = anonymous
  BY DEF config, tables
<1>2. faults \in Nat
  BY IdentityAssumption DEF IdInv, IdTypeOK
<1>3. \A S : Conflict(S)' <=> Conflict(S)
  BY <1>1 DEF Conflict
<1>4. Tagged'
  <2> SUFFICES ASSUME NEW h \in Request
               PROVE  /\ req'[h].at \in Registering => req'[h].want \subseteq Contact /\ req'[h].genuine
                      /\ req'[h].at \in LoggingIn => \E i \in Account : req'[h].want = {i}
                      /\ req'[h].at \in Trusted => req'[h].genuine \/ devMode
                      /\ req'[h].at = "again" => Conflict(req'[h].want)
    BY <1>1, <1>3 DEF Tagged
  <2> USE DEF IdInv, Tagged, Registering, LoggingIn, Trusted
  <2>1. CASE req'[h] = req[h]
    BY <2>1
  <2>2. CASE Opens(h)
    BY <2>2 DEF Opens
  <2>3. CASE Moves(h)
    BY <2>3 DEF Moves, Same
  <2>4. CASE Closes(h)
    BY <2>4 DEF Closes
  <2> QED BY <2>1, <2>2, <2>3, <2>4 DEF Passes
<1>5. \A h \in Request : Binding(h)' => Binding(h) /\ req'[h] = req[h]
  BY DEF Binding, Passes, Opens, Moves, Closes
<1>6. Pending'
  BY <1>1, <1>3, <1>5 DEF IdInv, Pending, Binding, At
<1>7. NoOrphan'
  BY <1>1 DEF IdInv, NoOrphan
<1>8. GetsOwner'
  <2> SUFFICES ASSUME NEW h \in Request, req'[h].at = "idle"
               PROVE  /\ req'[h].res = "ok" =>
                            /\ \A i \in req'[h].want : owner[i] = req'[h].user
                            /\ req'[h].user \in users
                            /\ req'[h].genuine \/ devMode
                      /\ req'[h].res = "exists" => Conflict(req'[h].want)
                      /\ req'[h].res = "error" => faults' > 0
    BY <1>1, <1>3 DEF GetsOwner, At
  <2>1. CASE req'[h] = req[h]
    BY <1>2, <2>1 DEF IdInv, GetsOwner, At
  <2>2. CASE Closes(h)
    <3>1. CASE req'[h].res = "ok"
      <4>1. PICK i \in Account : req[h].want = {i}
        BY <2>2, <3>1 DEF Closes, IdInv, Tagged, LoggingIn
      <4>2. i \in Identity /\ owner[i] = req'[h].user /\ req'[h].user # 0
        BY <2>2, <3>1, <4>1 DEF Closes, Identity
      <4>3. req'[h].user \in users
        BY <4>2 DEF IdInv, IdTypeOK
      <4> QED BY <2>2, <3>1, <4>3 DEF Closes, IdInv, Tagged
    <3>2. CASE req'[h].res # "ok"
      BY <2>2, <3>2 DEF Closes
    <3> QED BY <3>1, <3>2
  <2> QED BY <2>1, <2>2 DEF Passes, Opens, Moves
<1> QED BY <1>4, <1>6, <1>7, <1>8

(* How a request ends.                                                      *)
LEMMA EndsResult ==
    ASSUME IdTypeOK, NEW h \in Request, NEW result, NEW u, Ends(h, result, u)
    PROVE  /\ \A g \in Request \ {h} : req'[g] = req[g]
           /\ req'[h].at = "idle" /\ req'[h].res = result
           /\ result \in {"ok", "exists"} =>
                 /\ req'[h].want = req[h].want /\ req'[h].genuine = req[h].genuine
                 /\ req'[h].user = u
<1>1. req' = [req EXCEPT ![h] = Result(h, result, u)] /\ req \in [Request -> Reqs]
  BY DEF Ends, IdTypeOK, Reqs
<1>2. req'[h] = Result(h, result, u) /\ \A g \in Request \ {h} : req'[g] = req[g]
  BY <1>1
<1>3. CASE result \in {"ok", "exists"}
  <2>1. req'[h] = [req[h] EXCEPT !.at = "idle", !.kid = 0, !.res = result, !.user = u]
    BY <1>2, <1>3 DEF Result
  <2> QED BY <1>1, <1>2, <2>1 DEF Reqs
<1>4. CASE result \notin {"ok", "exists"}
  <2>1. req'[h] = [Idle EXCEPT !.res = result]
    BY <1>2, <1>4 DEF Result
  <2> QED BY <1>2, <1>4, <2>1 DEF Idle
<1> QED BY <1>3, <1>4

LEMMA GoesTo ==
    ASSUME IdTypeOK, NEW h \in Request, NEW label, Goes(h, label)
    PROVE  /\ \A g \in Request \ {h} : req'[g] = req[g]
           /\ req'[h].at = label /\ Same(h)
BY DEF Goes, IdTypeOK, Same

LEMMA Closing ==
    ASSUME IdTypeOK, NEW h \in Request, NEW result \in {"exists", "invalid", "error"},
           Ends(h, result, 0), result = "exists" => Conflict(req[h].want),
           result = "error" => faults' > 0
    PROVE  \A g \in Request : Passes(g)
<1>1. /\ \A g \in Request \ {h} : req'[g] = req[g]
      /\ req'[h].at = "idle" /\ req'[h].res = result
      /\ result = "exists" => req'[h].want = req[h].want
  BY EndsResult
<1>2. Closes(h)
  BY <1>1 DEF Closes
<1> QED BY <1>1, <1>2 DEF Passes

(* Every step that leaves the tables alone is such a step.                  *)
LEMMA QuietSteps ==
    ASSUME IdInv, NEW h \in Request,
           \/ \E S \in SUBSET Contact : StartRegister(h, S)
           \/ \E i \in Account, genuine, bare \in BOOLEAN, kid \in {0, published} :
                 StartOAuth(h, i, genuine, bare, kid)
           \/ CheckPhone(h) \/ CheckEmail(h) \/ VerifyRemote(h) \/ Lookup(h)
           \/ LookupAgain(h) \/ Fails(h) \/ (PublicKey(h) /\ UNCHANGED <<config, tables>>)
    PROVE  /\ UNCHANGED <<config, tables>> /\ (faults' = faults \/ faults' = faults + 1)
           /\ \A g \in Request : Passes(g)
<1> USE DEF Passes
<1>0. IdTypeOK /\ Tagged /\ req \in [Request -> Reqs]
  BY DEF IdInv, IdTypeOK, Reqs
<1>1. ASSUME NEW S \in SUBSET Contact, StartRegister(h, S)
      PROVE  \A g \in Request : Passes(g)
  BY <1>0, <1>1 DEF StartRegister, Opens, At, Idle
<1>2. ASSUME NEW i \in Account, NEW genuine \in BOOLEAN, NEW bare \in BOOLEAN,
             NEW kid \in {0, published}, StartOAuth(h, i, genuine, bare, kid)
      PROVE  \A g \in Request : Passes(g)
  <2> DEFINE begun == [Idle EXCEPT !.want = {i}, !.genuine = genuine, !.kid = kid]
  <2>1. \E r : /\ req' = [req EXCEPT ![h] = r]
               /\ \/ r = [begun EXCEPT !.at = "lookup"] /\ devMode
                  \/ r = [Idle EXCEPT !.res = "invalid"]
                  \/ r = [begun EXCEPT !.at = "key"] \/ r = [begun EXCEPT !.at = "remote"]
    BY <1>2 DEF StartOAuth
  <2>2. PICK r : /\ req' = [req EXCEPT ![h] = r]
                 /\ \/ r = [begun EXCEPT !.at = "lookup"] /\ devMode
                    \/ r = [Idle EXCEPT !.res = "invalid"]
                    \/ r = [begun EXCEPT !.at = "key"] \/ r = [begun EXCEPT !.at = "remote"]
    BY <2>1
  <2>3. req'[h] = r /\ \A g \in Request \ {h} : req'[g] = req[g]
    BY <1>0, <2>2
  <2>4. CASE r = [Idle EXCEPT !.res = "invalid"]
    BY <2>3, <2>4 DEF Closes, Idle
  <2>5. CASE r # [Idle EXCEPT !.res = "invalid"]
    <3>1. /\ r.at \in {"key", "remote", "lookup"} /\ r.want = {i}
          /\ r.at = "lookup" => devMode
      BY <2>2, <2>5 DEF Idle
    <3>2. req[h].at = "idle"
      BY <1>2 DEF StartOAuth, At
    <3> QED BY <2>3, <3>1, <3>2 DEF Opens
  <2> QED BY <2>4, <2>5
<1>3. ASSUME CheckPhone(h)
      PROVE  \A g \in Request : Passes(g)
  <2>1. CASE "phone" \in req[h].want /\ ByPhone # 0
    <3>1. Conflict(req[h].want) /\ Ends(h, "exists", 0)
      BY <1>3, <2>1 DEF CheckPhone, Conflict, ByPhone
    <3> QED BY <1>0, <3>1, Closing
  <2>2. CASE ~("phone" \in req[h].want /\ ByPhone # 0)
    BY <1>0, <1>3, <2>2, GoesTo DEF CheckPhone, At, Moves
  <2> QED BY <2>1, <2>2
<1>4. ASSUME CheckEmail(h)
      PROVE  \A g \in Request : Passes(g)
  <2>1. CASE "email" \in req[h].want /\ ByEmail # 0
    <3>1. Conflict(req[h].want) /\ Ends(h, "exists", 0)
      BY <1>4, <2>1 DEF CheckEmail, Conflict, ByEmail
    <3> QED BY <1>0, <3>1, Closing
  <2>2. CASE ~("email" \in req[h].want /\ ByEmail # 0)
    BY <1>0, <1>4, <2>2, GoesTo DEF CheckEmail, At, Moves
  <2> QED BY <2>1, <2>2
<1>5. ASSUME VerifyRemote(h)
      PROVE  \A g \in Request : Passes(g)
  <2>1. CASE req[h].genuine
    BY <1>0, <1>5, <2>1, GoesTo DEF VerifyRemote, At, Moves
  <2>2. CASE ~req[h].genuine
    BY <1>0, <1>5, <2>2, EndsResult DEF VerifyRemote, Closes
  <2> QED BY <2>1, <2>2
<1>6. ASSUME Lookup(h) \/ LookupAgain(h)
      PROVE  \A g \in Request : Passes(g)
  <2>1. /\ req[h].at \in Trusted
        /\ Provider(h) \in Account /\ req[h].want = {Provider(h)}
    BY <1>0, <1>6, ProviderIs DEF Lookup, LookupAgain, At, LoggingIn, Trusted
  <2>2. CASE ByOAuth(Provider(h)) # 0
    <3>1. Ends(h, "ok", owner[Provider(h)]) /\ owner[Provider(h)] # 0
      BY <1>6, <2>2 DEF Lookup, LookupAgain, ByOAuth
    <3> QED BY <1>0, <2>1, <3>1, EndsResult DEF Closes
  <2>3. CASE ByOAuth(Provider(h)) = 0
    <3>1. CASE Lookup(h)
      BY <1>0, <2>3, <3>1, GoesTo DEF Lookup, At, Moves
    <3>2. CASE LookupAgain(h)
      BY <1>0, <2>1, <2>3, <3>2 DEF LookupAgain, At, Tagged, Conflict, ByOAuth
    <3> QED BY <1>6, <3>1, <3>2
  <2> QED BY <2>2, <2>3
<1>7. ASSUME Fails(h)
      PROVE  \A g \in Request : Passes(g)
  <2>1. Ends(h, "error", 0) /\ faults' > 0
    BY <1>0, <1>7, IdentityAssumption DEF Fails, Fault, IdTypeOK
  <2> QED BY <1>0, <2>1, Closing
<1>8. ASSUME PublicKey(h)
      PROVE  \A g \in Request : Passes(g)
  <2>1. CASE Ends(h, "invalid", 0)
    BY <1>0, <2>1, Closing
  <2>2. CASE ~Ends(h, "invalid", 0)
    <3>1. /\ req[h].at \in {"key", "join", "reread"}
          /\ \/ Goes(h, "join") \/ Goes(h, "wait")
             \/ Goes(h, "lookup") /\ req[h].genuine
      BY <1>8, <2>2 DEF PublicKey, KeyLookup, Join, Reread, Verified, At
    <3>2. PICK label \in {"join", "wait", "lookup"} :
                 Goes(h, label) /\ (label = "lookup" => req[h].genuine)
      BY <3>1
    <3>3. /\ \A g \in Request \ {h} : req'[g] = req[g]
          /\ req'[h].at = label /\ Same(h)
      BY <1>0, <3>2, GoesTo
    <3>4. Moves(h)
      BY <3>1, <3>2, <3>3 DEF Moves
    <3> QED BY <3>3, <3>4
  <2> QED BY <2>1, <2>2
<1>9. \A g \in Request : Passes(g)
  BY <1>1, <1>2, <1>3, <1>4, <1>5, <1>6, <1>7, <1>8
<1>10. UNCHANGED <<config, tables>> /\ (faults' = faults \/ faults' = faults + 1)
  BY DEF StartRegister, StartOAuth, CheckPhone, CheckEmail, VerifyRemote, Lookup,
         LookupAgain, Fails, Fault, PublicKey, KeyLookup, Join, Reread
<1> QED BY <1>9, <1>10

LEMMA KeySteps ==
    ASSUME IdInv, KeysNext
    PROVE  /\ faults' = faults \/ faults' = faults + 1
           /\ \A g \in Request : Passes(g)
<1>0. IdTypeOK /\ req \in [Request -> Reqs]
  BY DEF IdInv, IdTypeOK, Reqs
<1>1. faults' = faults \/ faults' = faults + 1
  BY DEF KeysNext, AskApple, RefreshFails, Refreshed, Rotate, Minute, Fault
<1>2. CASE RefreshFails
  <2>1. ASSUME NEW g \in Waiting
        PROVE  Closes(g)
    <3>1. req'[g] = [Idle EXCEPT !.res = "invalid"]
      BY <1>2, <2>1 DEF RefreshFails, Result, Waiting
    <3> QED BY <3>1 DEF Closes, Idle
  <2>2. \A g \in Request : g \notin Waiting => req'[g] = req[g]
    BY <1>2 DEF RefreshFails
  <2>3. ASSUME NEW g \in Request
        PROVE  Passes(g)
    <3>1. CASE g \in Waiting
      BY <2>1, <3>1 DEF Passes
    <3>2. CASE g \notin Waiting
      BY <2>2, <3>2 DEF Passes
    <3> QED BY <3>1, <3>2
  <2> QED BY <1>1, <2>3
<1>3. CASE Refreshed
  <2>1. ASSUME NEW g \in Waiting
        PROVE  Moves(g)
    <3>1. req'[g] = [req[g] EXCEPT !.at = "reread"] /\ req[g] \in Reqs /\ req[g].at = "wait"
      BY <1>0, <1>3, <2>1 DEF Refreshed, Waiting, At
    <3> QED BY <3>1 DEF Moves, Same, Reqs
  <2>2. \A g \in Request : g \notin Waiting => req'[g] = req[g]
    BY <1>3 DEF Refreshed
  <2>3. ASSUME NEW g \in Request
        PROVE  Passes(g)
    <3>1. CASE g \in Waiting
      BY <2>1, <3>1 DEF Passes
    <3>2. CASE g \notin Waiting
      BY <2>2, <3>2 DEF Passes
    <3> QED BY <3>1, <3>2
  <2> QED BY <1>1, <2>3
<1>4. CASE AskApple \/ Rotate \/ Minute
  BY <1>4 DEF AskApple, Rotate, Minute, Passes
<1> QED BY <1>1, <1>2, <1>3, <1>4 DEF KeysNext

(***************************************************************************)
(* The four steps that change the tables.                                  *)
(***************************************************************************)
Tag(h) ==
    /\ req[h].at \in Registering => req[h].want \subseteq Contact /\ req[h].genuine
    /\ req[h].at \in LoggingIn => \E i \in Account : req[h].want = {i}
    /\ req[h].at \in Trusted => req[h].genuine \/ devMode
    /\ req[h].at = "again" => Conflict(req[h].want)
Gets(h) ==
    At(h, "idle") =>
        /\ req[h].res = "ok" =>
              /\ \A i \in req[h].want : owner[i] = req[h].user
              /\ req[h].user \in users
              /\ req[h].genuine \/ devMode
        /\ req[h].res = "exists" => Conflict(req[h].want)
        /\ req[h].res = "error" => faults > 0

(* An identity that has an owner keeps him.                                 *)
OwnersStay == \A i \in Identity : owner[i] # 0 => owner'[i] = owner[i]

LEMMA OthersKeep ==
    ASSUME IdInv, NEW h \in Request, \A g \in Request \ {h} : req'[g] = req[g],
           devMode' = devMode, faults' = faults \/ faults' = faults + 1,
           OwnersStay, users \subseteq users', Tag(h)', Gets(h)'
    PROVE  Tagged' /\ GetsOwner'
<1>1. faults \in Nat /\ owner \in [Identity -> users \cup {0}] /\ 0 \notin users
  BY IdentityAssumption DEF IdInv, IdTypeOK
<1>2. \A S \in SUBSET Identity : Conflict(S) => Conflict(S)'
  BY DEF Conflict, OwnersStay
<1>3. ASSUME NEW g \in Request \ {h}
      PROVE  Tag(g)' /\ Gets(g)'
  <2>1. req'[g] = req[g] /\ req[g].want \in SUBSET Identity
    BY <1>3 DEF IdInv, IdTypeOK
  <2>2. Conflict(req[g].want) => Conflict(req[g].want)'
    BY <2>1 DEF Conflict, OwnersStay
  <2>3. Tag(g)'
    BY <2>1, <2>2 DEF Tag, IdInv, Tagged, Conflict
  <2>4. Gets(g)'
    <3> SUFFICES ASSUME req[g].at = "idle"
                 PROVE  /\ req[g].res = "ok" =>
                              /\ \A i \in req[g].want : owner'[i] = req[g].user
                              /\ req[g].user \in users'
                              /\ req[g].genuine \/ devMode'
                        /\ req[g].res = "exists" => Conflict(req[g].want)'
                        /\ req[g].res = "error" => faults' > 0
      BY <2>1 DEF Gets, At, Conflict
    <3>1. CASE req[g].res = "ok"
      BY <1>1, <2>1, <3>1 DEF IdInv, GetsOwner, At, OwnersStay
    <3>2. CASE req[g].res # "ok"
      BY <1>1, <2>1, <2>2, <3>2 DEF IdInv, GetsOwner, At
    <3> QED BY <3>1, <3>2
  <2> QED BY <2>3, <2>4
<1>4. \A g \in Request : Tag(g)' /\ Gets(g)'
  BY <1>3
<1>5. Tagged'
  BY <1>4 DEF Tagged, Tag
<1>6. GetsOwner'
  BY <1>4 DEF GetsOwner, Gets
<1> QED BY <1>5, <1>6

(* An INSERT that finds the identities free gives them to a user who has    *)
(* none; this is Claim of IdentityMap.                                      *)
LEMMA OwnClaims ==
    ASSUME IdTypeOK, NEW S \in SUBSET Identity, NEW u \in 1..MaxUsers, ~Conflict(S),
           Own(S, u), \A i \in Identity : owner[i] # u
    PROVE  OwnersStay /\ Map!Claim(u)
<1>1. \A i \in Identity : owner'[i] = IF i \in S THEN u ELSE owner[i]
  BY DEF Own
<1>2. \A i \in S : owner[i] = 0
  BY DEF Conflict
<1>3. DOMAIN owner' = Identity
  BY DEF Own
<1> QED BY <1>1, <1>2, <1>3 DEF OwnersStay, Map!Claim

LEMMA NewUser ==
    ASSUME IdInv
    PROVE  /\ inserted \in Nat /\ inserted + 1 \notin users
           /\ \A i \in Identity : owner[i] # inserted + 1
           /\ \A g \in Request : Binding(g) => req[g].user # inserted + 1
           /\ 0 \notin users /\ owner \in [Identity -> users \cup {0}]
<1>1. inserted \in Nat /\ users \subseteq 1..inserted /\ owner \in [Identity -> users \cup {0}]
  BY DEF IdInv, IdTypeOK
<1>2. \A g \in Request : Binding(g) => req[g].user \in 1..inserted
  BY DEF IdInv, Pending
<1> QED BY <1>1, <1>2

LEMMA RegisterKeeps ==
    ASSUME IdInv, NEW h \in Request, NEW lost \in BOOLEAN, Register(h, lost)
    PROVE  /\ Tagged' /\ Pending' /\ NoOrphan' /\ GetsOwner'
           /\ owner' = owner \/ \E u \in 1..MaxUsers : Map!Claim(u)
<1>1. /\ IdTypeOK /\ req[h].at = "create" /\ req[h].want \subseteq Contact
      /\ req[h].genuine /\ devMode' = devMode
  BY DEF IdInv, Tagged, Register, At, Registering, config
<1>2. CASE Conflict(req[h].want)
  <2>1. UNCHANGED <<config, tables>> /\ faults' = faults /\ Ends(h, "exists", 0)
    BY <1>2 DEF Register
  <2>2. \A g \in Request : Passes(g)
    BY <1>1, <1>2, <2>1, Closing
  <2> QED BY <2>1, <2>2, QuietKeeps DEF tables
<1>3. CASE ~Conflict(req[h].want)
  <2>1. /\ CreateUser(inserted + 1)
        /\ users' = users \cup {inserted + 1} /\ Own(req[h].want, inserted + 1)
        /\ anonymous' = IF req[h].want = {} THEN anonymous \cup {inserted + 1} ELSE anonymous
        /\ \/ Fault /\ Ends(h, "error", 0)
           \/ Ends(h, "ok", inserted + 1) /\ UNCHANGED faults
    BY <1>3 DEF Register
  <2>2. inserted' = inserted + 1 /\ inserted + 1 \in 1..MaxUsers
    BY <2>1, NewUser, IdentityAssumption DEF CreateUser
  <2>3. OwnersStay /\ Map!Claim(inserted + 1)
    BY <1>1, <1>3, <2>1, <2>2, NewUser, OwnClaims DEF Identity
  <2>4. /\ \A g \in Request \ {h} : req'[g] = req[g]
        /\ req'[h].at = "idle" /\ (faults' = faults \/ faults' = faults + 1)
        /\ \/ req'[h].res = "error" /\ faults' > 0
           \/ /\ req'[h].res = "ok" /\ req'[h].want = req[h].want
              /\ req'[h].genuine = req[h].genuine /\ req'[h].user = inserted + 1
    <3>1. CASE Fault /\ Ends(h, "error", 0)
      <4>1. faults' = faults + 1 /\ faults' > 0
        BY <1>1, <3>1, IdentityAssumption DEF Fault, IdTypeOK
      <4> QED BY <1>1, <3>1, <4>1, EndsResult
    <3>2. CASE Ends(h, "ok", inserted + 1) /\ UNCHANGED faults
      BY <1>1, <3>2, EndsResult
    <3> QED BY <2>1, <3>1, <3>2
  <2>5. \A i \in Identity : owner'[i] = IF i \in req[h].want THEN inserted + 1 ELSE owner[i]
    BY <2>1 DEF Own
  <2>6. Tag(h)'
    BY <2>4 DEF Tag, Registering, LoggingIn, Trusted
  <2>7. Gets(h)'
    <3>1. \A i \in req[h].want : owner'[i] = inserted + 1
      BY <1>1, <2>5 DEF Identity
    <3>2. inserted + 1 \in users'
      BY <2>1
    <3> QED BY <1>1, <2>4, <3>1, <3>2 DEF Gets, At
  <2>8. Tagged' /\ GetsOwner'
    BY <1>1, <2>1, <2>3, <2>4, <2>6, <2>7, OthersKeep
  <2>9. \A g \in Request : Binding(g)' => g # h /\ Binding(g) /\ req'[g] = req[g]
    BY <2>4 DEF Binding
  <2>10. Pending'
    <3>1. ASSUME NEW g \in Request, Binding(g)'
          PROVE  /\ req'[g].user \in 1..inserted'
                 /\ \A i \in Identity : owner'[i] # req'[g].user
                 /\ IF OAuthTx THEN req'[g].user \notin users' ELSE req'[g].user \in users'
      <4>1. /\ req'[g] = req[g] /\ req[g].user \in 1..inserted
            /\ \A i \in Identity : owner[i] # req[g].user
            /\ IF OAuthTx THEN req[g].user \notin users ELSE req[g].user \in users
        BY <2>9, <3>1 DEF IdInv, Pending
      <4> QED BY <2>1, <2>2, <2>5, <4>1, NewUser
    <3>2. ASSUME NEW g \in Request, At(g, "commit")'
          PROVE  OAuthTx /\ ~Conflict(req[g].want)'
      <4>1. req'[g] = req[g] /\ At(g, "commit")
        BY <2>4, <3>2 DEF At
      <4>2. \E i \in Account : req[g].want = {i}
        BY <4>1 DEF IdInv, Tagged, At, LoggingIn, Trusted
      <4>3. OAuthTx /\ ~Conflict(req[g].want)
        BY <4>1 DEF IdInv, Pending
      <4> QED BY <1>1, <2>5, <4>1, <4>2, <4>3 DEF Conflict, Contact, Account, Identity
    <3>3. \A g \in Request : At(g, "commit")' => req'[g] = req[g] /\ At(g, "commit")
      BY <2>4 DEF At
    <3> QED BY <2>9, <3>1, <3>2, <3>3 DEF IdInv, Pending
  <2>11. NoOrphan'
    <3> SUFFICES ASSUME OAuthTx, NEW u \in users'
                 PROVE  u \in anonymous' \/ \E i \in Identity : owner'[i] = u
      BY DEF NoOrphan
    <3>1. CASE u = inserted + 1
      BY <1>1, <2>1, <2>5, <3>1 DEF Identity
    <3>2. CASE u \in users
      <4>1. u \in anonymous \/ \E i \in Identity : owner[i] = u
        BY <3>2 DEF IdInv, NoOrphan
      <4> QED BY <2>1, <2>3, <3>2, <4>1, NewUser DEF OwnersStay
    <3> QED BY <2>1, <3>1, <3>2
  <2> QED BY <2>2, <2>3, <2>8, <2>10, <2>11
<1> QED BY <1>2, <1>3

LEMMA CreateOAuthUserKeeps ==
    ASSUME IdInv, NEW h \in Request, CreateOAuthUser(h)
    PROVE  Tagged' /\ Pending' /\ NoOrphan' /\ GetsOwner' /\ owner' = owner
<1>1. /\ IdTypeOK /\ req[h].at = "insert" /\ devMode' = devMode
      /\ UNCHANGED <<owner, anonymous, faults>> /\ inserted' = inserted + 1
      /\ users' = IF OAuthTx THEN users ELSE users \cup {inserted + 1}
  BY DEF IdInv, CreateOAuthUser, CreateUser, At, config
<1>2. /\ \A g \in Request \ {h} : req'[g] = req[g]
      /\ req'[h].at = "bind" /\ req'[h].user = inserted + 1
      /\ req'[h].want = req[h].want /\ req'[h].genuine = req[h].genuine
  BY <1>1 DEF CreateOAuthUser, IdTypeOK
<1>3. Tag(h)'
  BY <1>1, <1>2 DEF IdInv, Tagged, Tag, Registering, LoggingIn, Trusted
<1>4. Gets(h)'
  BY <1>2 DEF Gets, At
<1>5. Tagged' /\ GetsOwner'
  BY <1>1, <1>2, <1>3, <1>4, OthersKeep DEF OwnersStay
<1>6. \A g \in Request \ {h} : Binding(g)' => Binding(g) /\ req[g].user # inserted + 1
  BY <1>2, NewUser DEF Binding
<1>7. Pending'
  <2>1. ASSUME NEW g \in Request, Binding(g)'
        PROVE  /\ req'[g].user \in 1..inserted'
               /\ \A i \in Identity : owner'[i] # req'[g].user
               /\ IF OAuthTx THEN req'[g].user \notin users' ELSE req'[g].user \in users'
    <3>1. CASE g = h
      BY <1>1, <1>2, <3>1, NewUser
    <3>2. CASE g # h
      <4>1. /\ req'[g] = req[g] /\ req[g].user \in 1..inserted
            /\ \A i \in Identity : owner[i] # req[g].user
            /\ IF OAuthTx THEN req[g].user \notin users ELSE req[g].user \in users
        BY <1>2, <1>6, <2>1, <3>2 DEF IdInv, Pending
      <4> QED BY <1>1, <4>1, NewUser
    <3> QED BY <3>1, <3>2
  <2>2. \A g, k \in Request :
           Binding(g)' /\ Binding(k)' /\ req'[g].user = req'[k].user => g = k
    BY <1>2, <1>6 DEF IdInv, Pending
  <2>3. \A g \in Request : At(g, "commit")' => At(g, "commit") /\ req'[g] = req[g]
    BY <1>2 DEF At
  <2> QED BY <1>1, <2>1, <2>2, <2>3 DEF IdInv, Pending, Conflict
<1>8. NoOrphan'
  BY <1>1 DEF IdInv, NoOrphan
<1> QED BY <1>1, <1>5, <1>7, <1>8

LEMMA CreateOAuthKeeps ==
    ASSUME IdInv, NEW h \in Request, CreateOAuth(h)
    PROVE  /\ Tagged' /\ Pending' /\ NoOrphan' /\ GetsOwner'
           /\ owner' = owner \/ \E u \in 1..MaxUsers : Map!Claim(u)
<1>1. /\ IdTypeOK /\ Tagged /\ Pending /\ req[h].at = "bind" /\ devMode' = devMode
      /\ UNCHANGED <<users, inserted, anonymous, faults>>
  BY DEF IdInv, CreateOAuth, At, config
<1>2. Provider(h) \in Account /\ req[h].want = {Provider(h)}
  BY <1>1, ProviderIs DEF LoggingIn, Trusted
<1>3. ~Locked(h, Provider(h))
  BY DEF CreateOAuth
<1>4. /\ req[h].user \in 1..inserted /\ req[h].user \in 1..MaxUsers
      /\ \A i \in Identity : owner[i] # req[h].user
      /\ IF OAuthTx THEN req[h].user \notin users ELSE req[h].user \in users
  <2>1. Binding(h)
    BY <1>1 DEF Binding
  <2> QED BY <1>1, <2>1, IdentityAssumption DEF Pending, IdTypeOK
<1>5. CASE owner' = owner /\ (Goes(h, "again") \/ Goes(h, "commit"))
  <2>1. /\ \A g \in Request \ {h} : req'[g] = req[g]
        /\ req'[h].at \in {"again", "commit"} /\ Same(h)
    BY <1>1, <1>5, GoesTo
  <2>2. req'[h].at = "again" => Conflict(req[h].want)
    <3>1. CASE Goes(h, "again") /\ Conflict(req[h].want)
      BY <3>1
    <3>2. CASE Goes(h, "commit") /\ ~Goes(h, "again")
      BY <1>1, <3>2, GoesTo
    <3>3. CASE Goes(h, "again") /\ ~Conflict(req[h].want)
      <4>1. Goes(h, "commit") \/ Ends(h, "ok", req[h].user)
        BY <3>3 DEF CreateOAuth
      <4> QED BY <1>1, <4>1, GoesTo, EndsResult, <3>3
    <3> QED BY <1>5, <3>1, <3>2, <3>3
  <2>3. req'[h].at = "commit" => OAuthTx /\ ~Conflict(req[h].want)
    <3>1. CASE Conflict(req[h].want)
      <4>1. Goes(h, "again")
        BY <3>1 DEF CreateOAuth
      <4> QED BY <1>1, <4>1, GoesTo
    <3>2. CASE ~Conflict(req[h].want) /\ ~OAuthTx
      <4>1. Ends(h, "ok", req[h].user)
        BY <3>2 DEF CreateOAuth
      <4> QED BY <1>1, <4>1, EndsResult
    <3> QED BY <3>1, <3>2
  <2>4. Tag(h)'
    BY <1>1, <1>5, <2>1, <2>2 DEF Tagged, Tag, Same, Registering, LoggingIn, Trusted, Conflict
  <2>5. Gets(h)'
    BY <2>1 DEF Gets, At
  <2>6. Tagged' /\ GetsOwner'
    BY <1>1, <1>5, <2>1, <2>4, <2>5, OthersKeep DEF OwnersStay
  <2>7. \A g \in Request : Binding(g)' => Binding(g) /\ req'[g].user = req[g].user
    BY <1>1, <2>1 DEF Binding, Same
  <2>8. \A g \in Request \ {h} : At(g, "commit") => req[g].want # req[h].want
    BY <1>2, <1>3 DEF Locked
  <2>9. ASSUME NEW g \in Request, At(g, "commit")'
        PROVE  OAuthTx /\ ~Conflict(req[g].want) /\ req'[g].want = req[g].want
    <3>1. CASE g = h
      BY <2>1, <2>3, <2>9, <3>1 DEF At, Same
    <3>2. CASE g # h
      BY <1>1, <2>1, <2>9, <3>2 DEF At, Pending
    <3> QED BY <3>1, <3>2
  <2>10. ASSUME NEW g \in Request, NEW k \in Request, At(g, "commit")', At(k, "commit")',
                req'[g].want = req'[k].want
         PROVE  g = k
    BY <1>1, <2>1, <2>8, <2>9, <2>10 DEF At, Pending, Same
  <2>11. Pending'
    <3>1. \A g \in Request : At(g, "commit")' => OAuthTx /\ ~Conflict(req[g].want)'
      BY <1>5, <2>9 DEF Conflict
    <3>2. \A g \in Request : Binding(g)' =>
             /\ req'[g].user \in 1..inserted'
             /\ \A i \in Identity : owner'[i] # req'[g].user
             /\ IF OAuthTx THEN req'[g].user \notin users' ELSE req'[g].user \in users'
      BY <1>1, <1>5, <2>7 DEF Pending
    <3>3. \A g, k \in Request :
             Binding(g)' /\ Binding(k)' /\ req'[g].user = req'[k].user => g = k
      BY <1>1, <2>7 DEF Pending
    <3> QED BY <2>10, <3>1, <3>2, <3>3 DEF Pending
  <2>12. NoOrphan'
    BY <1>1, <1>5 DEF IdInv, NoOrphan
  <2> QED BY <1>5, <2>6, <2>11, <2>12
<1>6. CASE ~Conflict(req[h].want) /\ ~OAuthTx
  <2>1. Own(req[h].want, req[h].user) /\ Ends(h, "ok", req[h].user)
    BY <1>6 DEF CreateOAuth
  <2>2. OwnersStay /\ Map!Claim(req[h].user)
    BY <1>1, <1>2, <1>4, <1>6, <2>1, OwnClaims DEF Identity
  <2>3. /\ \A g \in Request \ {h} : req'[g] = req[g]
        /\ req'[h].at = "idle" /\ req'[h].res = "ok" /\ req'[h].want = req[h].want
        /\ req'[h].genuine = req[h].genuine /\ req'[h].user = req[h].user
    BY <1>1, <2>1, EndsResult
  <2>4. \A i \in Identity : owner'[i] = IF i \in req[h].want THEN req[h].user ELSE owner[i]
    BY <2>1 DEF Own
  <2>5. Tag(h)'
    BY <2>3 DEF Tag, Registering, LoggingIn, Trusted
  <2>6. Gets(h)'
    BY <1>1, <1>2, <1>4, <1>6, <2>3, <2>4 DEF Gets, At, Tagged, Trusted, Identity
  <2>7. Tagged' /\ GetsOwner'
    BY <1>1, <2>2, <2>3, <2>5, <2>6, OthersKeep
  <2>8. \A g \in Request : Binding(g)' =>
           Binding(g) /\ req'[g] = req[g] /\ req[g].user # req[h].user
    BY <1>1, <2>3 DEF Binding, Pending
  <2>9. \A g \in Request : ~At(g, "commit")'
    BY <1>1, <1>6, <2>3 DEF At, Pending
  <2>10. Pending'
    BY <1>1, <1>6, <2>4, <2>8, <2>9 DEF Pending
  <2>11. NoOrphan'
    BY <1>6 DEF NoOrphan
  <2> QED BY <1>4, <2>2, <2>7, <2>10, <2>11
<1> QED BY <1>5, <1>6 DEF CreateOAuth

LEMMA CommitKeeps ==
    ASSUME IdInv, NEW h \in Request, NEW lost \in BOOLEAN, Commit(h, lost)
    PROVE  /\ Tagged' /\ Pending' /\ NoOrphan' /\ GetsOwner'
           /\ \E u \in 1..MaxUsers : Map!Claim(u)
<1>1. /\ IdTypeOK /\ Tagged /\ Pending /\ At(h, "commit") /\ devMode' = devMode
      /\ UNCHANGED <<inserted, anonymous>> /\ users' = users \cup {req[h].user}
      /\ Own(req[h].want, req[h].user)
  BY DEF IdInv, Commit, config
<1>2. Provider(h) \in Account /\ req[h].want = {Provider(h)}
  BY <1>1, ProviderIs DEF LoggingIn, Trusted, At
<1>3. /\ req[h].user \in 1..inserted /\ req[h].user \in 1..MaxUsers
      /\ \A i \in Identity : owner[i] # req[h].user
      /\ OAuthTx /\ ~Conflict(req[h].want)
  <2>1. Binding(h)
    BY <1>1 DEF Binding, At
  <2> QED BY <1>1, <2>1, IdentityAssumption DEF Pending, IdTypeOK
<1>4. OwnersStay /\ Map!Claim(req[h].user)
  BY <1>1, <1>2, <1>3, OwnClaims DEF Identity
<1>5. \A i \in Identity : owner'[i] = IF i \in req[h].want THEN req[h].user ELSE owner[i]
  BY <1>1 DEF Own
<1>6. /\ \A g \in Request \ {h} : req'[g] = req[g]
      /\ req'[h].at = "idle" /\ (faults' = faults \/ faults' = faults + 1)
      /\ \/ req'[h].res = "error" /\ faults' > 0
         \/ /\ req'[h].res = "ok" /\ req'[h].want = req[h].want
            /\ req'[h].genuine = req[h].genuine /\ req'[h].user = req[h].user
  <2>1. CASE Fault /\ Ends(h, "error", 0)
    <3>1. faults' = faults + 1 /\ faults' > 0
      BY <1>1, <2>1, IdentityAssumption DEF Fault, IdTypeOK
    <3> QED BY <1>1, <2>1, <3>1, EndsResult
  <2>2. CASE Ends(h, "ok", req[h].user) /\ UNCHANGED faults
    BY <1>1, <2>2, EndsResult
  <2> QED BY <2>1, <2>2 DEF Commit
<1>7. Tag(h)'
  BY <1>6 DEF Tag, Registering, LoggingIn, Trusted
<1>8. Gets(h)'
  BY <1>1, <1>2, <1>5, <1>6 DEF Gets, At, Tagged, Trusted, Identity
<1>9. Tagged' /\ GetsOwner'
  BY <1>1, <1>4, <1>6, <1>7, <1>8, OthersKeep
<1>10. \A g \in Request : Binding(g)' =>
          Binding(g) /\ req'[g] = req[g] /\ req[g].user # req[h].user
  BY <1>1, <1>6 DEF Binding, Pending, At
<1>11. \A g \in Request : At(g, "commit")' =>
          At(g, "commit") /\ req'[g] = req[g] /\ req[g].want # req[h].want
  BY <1>1, <1>6 DEF At, Pending
<1>12. Pending'
  <2>1. ASSUME NEW g \in Request, At(g, "commit")'
        PROVE  OAuthTx /\ ~Conflict(req[g].want)'
    <3>1. PICK i \in Account : req[g].want = {i}
      BY <1>1, <1>11, <2>1 DEF Tagged, At, LoggingIn, Trusted
    <3>2. req'[g] = req[g] /\ ~Conflict(req[g].want) /\ i \notin req[h].want
      BY <1>1, <1>2, <1>11, <2>1, <3>1 DEF Pending
    <3> QED BY <1>3, <1>5, <3>1, <3>2 DEF Conflict, Identity
  <2>2. \A g \in Request : Binding(g)' =>
           /\ req'[g].user \in 1..inserted'
           /\ \A i \in Identity : owner'[i] # req'[g].user
           /\ req'[g].user \notin users'
    BY <1>1, <1>3, <1>5, <1>10 DEF Pending
  <2> QED BY <1>1, <1>3, <1>10, <1>11, <2>1, <2>2 DEF Pending
<1>13. NoOrphan'
  <2> SUFFICES ASSUME NEW u \in users'
               PROVE  u \in anonymous' \/ \E i \in Identity : owner'[i] = u
    BY DEF NoOrphan
  <2>1. CASE u = req[h].user
    BY <1>2, <1>5, <2>1 DEF Identity
  <2>2. CASE u \in users
    <3>1. u \in anonymous \/ \E i \in Identity : owner[i] = u
      BY <1>3, <2>2 DEF IdInv, NoOrphan
    <3> QED BY <1>1, <1>4, <2>2, <3>1, NewUser DEF OwnersStay
  <2> QED BY <1>1, <2>1, <2>2
<1> QED BY <1>3, <1>4, <1>9, <1>12, <1>13

(***************************************************************************)
(* The theorems.                                                           *)
(***************************************************************************)
LEMMA IdStep ==
    ASSUME IdInv, [Next]_ivars
    PROVE  /\ IdInv'
           /\ owner' = owner \/ \E u \in 1..MaxUsers : Map!Claim(u)
<1>1. IdTypeOK'
  BY IdTypeStep DEF IdInv
<1>2. /\ Tagged' /\ Pending' /\ NoOrphan' /\ GetsOwner'
      /\ owner' = owner \/ \E u \in 1..MaxUsers : Map!Claim(u)
  <2>1. CASE UNCHANGED ivars
    <3>1. /\ UNCHANGED <<config, tables>> /\ faults' = faults
          /\ \A h \in Request : Passes(h)
      BY <2>1 DEF ivars, Passes, config, tables
    <3> QED BY <3>1, QuietKeeps DEF tables
  <2>2. CASE KeysNext /\ UNCHANGED <<config, tables>>
    BY <2>2, KeySteps, QuietKeeps DEF tables
  <2>3. ASSUME NEW h \in Request, Step(h)
        PROVE  /\ Tagged' /\ Pending' /\ NoOrphan' /\ GetsOwner'
               /\ owner' = owner \/ \E u \in 1..MaxUsers : Map!Claim(u)
    <3>1. CASE \/ \E S \in SUBSET Contact : StartRegister(h, S)
               \/ \E i \in Account, genuine, bare \in BOOLEAN, kid \in {0, published} :
                     StartOAuth(h, i, genuine, bare, kid)
               \/ CheckPhone(h) \/ CheckEmail(h) \/ VerifyRemote(h) \/ Lookup(h)
               \/ LookupAgain(h) \/ Fails(h)
               \/ (PublicKey(h) /\ UNCHANGED <<config, tables>>)
      <4>1. /\ UNCHANGED <<config, tables>> /\ (faults' = faults \/ faults' = faults + 1)
            /\ \A g \in Request : Passes(g)
        BY <3>1, QuietSteps
      <4> QED BY <4>1, QuietKeeps DEF tables
    <3>2. CASE CreateOAuthUser(h)
      BY <3>2, CreateOAuthUserKeeps
    <3>3. CASE CreateOAuth(h)
      BY <3>3, CreateOAuthKeeps
    <3>4. ASSUME NEW lost \in BOOLEAN, Register(h, lost)
          PROVE  /\ Tagged' /\ Pending' /\ NoOrphan' /\ GetsOwner'
                 /\ owner' = owner \/ \E u \in 1..MaxUsers : Map!Claim(u)
      BY <3>4, RegisterKeeps
    <3>5. ASSUME NEW lost \in BOOLEAN, Commit(h, lost)
          PROVE  /\ Tagged' /\ Pending' /\ NoOrphan' /\ GetsOwner'
                 /\ owner' = owner \/ \E u \in 1..MaxUsers : Map!Claim(u)
      BY <3>5, CommitKeeps
    <3> QED BY <2>3, <3>1, <3>2, <3>3, <3>4, <3>5 DEF Step
  <2> QED BY <2>1, <2>2, <2>3 DEF Next
<1> QED BY <1>1, <1>2 DEF IdInv

(* The inductive invariant, of any number of requests at the same time.     *)
THEOREM IdInvariance == Spec => []IdInv
<1>1. IdInv /\ [Next]_ivars => IdInv'
  BY IdStep
<1> QED BY <1>1, IdInit, PTL DEF Spec

(* Every variable stays in its type.                                        *)
THEOREM IdTypes == Spec => []IdTypeOK
BY IdInvariance, PTL DEF IdInv

(* Who succeeds gets the user who owns what he presented.                   *)
THEOREM SuccessIsOwner == Spec => []GetsOwner
BY IdInvariance, PTL DEF IdInv

(* With the transaction no user row is left that nobody can log in as.      *)
THEOREM NobodyOrphaned == Spec => []NoOrphan
BY IdInvariance, PTL DEF IdInv

(* Registration and OAuth login implement IdentityMap: an identity gets one *)
(* owner, at once with the other identities of the request, and keeps him.  *)
THEOREM ImplementsIdentityMap == Spec => OneOwner
<1>1. Init => Map!Init
  BY DEF Init, Map!Init
<1>2. IdInv /\ [Next]_ivars => [Map!Next]_owner
  BY IdStep DEF Map!Next
<1> QED BY <1>1, <1>2, IdInvariance, PTL DEF Spec, OneOwner, Map!Spec

(***************************************************************************)
(* The refreshes of the key cache: after one has succeeded, each request   *)
(* that was on its way to the shared call can still cause one more.        *)
(***************************************************************************)
Joining == {h \in Request : At(h, "join")}
Left == IF leader # {} /\ answer = 0 THEN 1 ELSE 0

FewInv ==
    /\ throttle = window
    /\ window = 0 => extra = 0
    /\ leader \subseteq Waiting
    /\ leader = {} => answer = 0
    /\ window > 0 => extra + Cardinality(Joining) + Left < Cardinality(Request)

LEMMA Counts ==
    /\ IsFiniteSet(Joining) /\ Cardinality(Joining) \in Nat
    /\ IsFiniteSet(Joining') /\ Cardinality(Joining') \in Nat
    /\ Cardinality(Request) \in Nat /\ Cardinality(Request) > 0
    /\ Cardinality(Joining) <= Cardinality(Request)
<1>1. IsFiniteSet(Request) /\ Request # {} /\ Joining \subseteq Request /\ Joining' \subseteq Request
  BY IdentityAssumption DEF Joining
<1>2. Cardinality(Request) # 0
  BY <1>1, FS_EmptySet
<1> QED BY <1>1, <1>2, FS_Subset, FS_CardinalityType

LEMMA FewInit == Init => FewInv
BY DEF Init, KeysInit, FewInv

(* A step elsewhere than at the key cache.                                  *)
LEMMA ElsewhereKeeps ==
    ASSUME FewInv, UNCHANGED keys, NEW h \in Request,
           \A g \in Request \ {h} : req'[g] = req[g],
           req[h].at \notin {"join", "wait"}, req'[h].at # "join"
    PROVE  FewInv'
<1>1. Joining' = Joining /\ Waiting \subseteq Waiting'
  BY DEF Joining, Waiting, At
<1> QED BY <1>1 DEF FewInv, Left, keys

LEMMA ElsewhereSteps ==
    ASSUME IdInv, FewInv, NEW h \in Request,
           \/ \E S \in SUBSET Contact : StartRegister(h, S)
           \/ \E i \in Account, genuine, bare \in BOOLEAN, kid \in {0, published} :
                 StartOAuth(h, i, genuine, bare, kid)
           \/ CheckPhone(h) \/ CheckEmail(h) \/ VerifyRemote(h) \/ Lookup(h)
           \/ CreateOAuthUser(h) \/ CreateOAuth(h) \/ LookupAgain(h) \/ Fails(h)
           \/ \E lost \in BOOLEAN : Register(h, lost) \/ Commit(h, lost)
    PROVE  FewInv'
<1>0. IdTypeOK /\ req \in [Request -> Reqs]
  BY DEF IdInv, IdTypeOK, Reqs
<1>1. UNCHANGED keys
  BY DEF StartRegister, StartOAuth, CheckPhone, CheckEmail, VerifyRemote, Lookup,
         CreateOAuthUser, CreateOAuth, LookupAgain, Fails, Register, Commit
<1>2. req[h].at \notin {"join", "wait"}
  BY DEF StartRegister, StartOAuth, CheckPhone, CheckEmail, VerifyRemote, Lookup,
         CreateOAuthUser, CreateOAuth, LookupAgain, Fails, Register, Commit, At
<1>3. (\A g \in Request \ {h} : req'[g] = req[g]) /\ req'[h].at # "join"
  <2>1. ASSUME NEW result, NEW u, Ends(h, result, u)
        PROVE  (\A g \in Request \ {h} : req'[g] = req[g]) /\ req'[h].at # "join"
    BY <1>0, <2>1, EndsResult
  <2>2. ASSUME NEW label, label # "join", Goes(h, label)
        PROVE  (\A g \in Request \ {h} : req'[g] = req[g]) /\ req'[h].at # "join"
    BY <1>0, <2>2, GoesTo
  <2>3. ASSUME NEW S \in SUBSET Contact, StartRegister(h, S)
        PROVE  (\A g \in Request \ {h} : req'[g] = req[g]) /\ req'[h].at # "join"
    BY <1>0, <2>3 DEF StartRegister, Idle
  <2>4. ASSUME NEW i \in Account, NEW genuine \in BOOLEAN, NEW bare \in BOOLEAN,
               NEW kid \in {0, published}, StartOAuth(h, i, genuine, bare, kid)
        PROVE  (\A g \in Request \ {h} : req'[g] = req[g]) /\ req'[h].at # "join"
    <3> DEFINE begun == [Idle EXCEPT !.want = {i}, !.genuine = genuine, !.kid = kid]
    <3>1. \E r : /\ req' = [req EXCEPT ![h] = r]
                 /\ \/ r = [begun EXCEPT !.at = "lookup"]
                    \/ r = [Idle EXCEPT !.res = "invalid"]
                    \/ r = [begun EXCEPT !.at = "key"] \/ r = [begun EXCEPT !.at = "remote"]
      BY <2>4 DEF StartOAuth
    <3>2. PICK r : req' = [req EXCEPT ![h] = r] /\ r.at # "join"
      BY <3>1 DEF Idle
    <3> QED BY <1>0, <3>2
  <2>5. CASE CheckPhone(h) \/ CheckEmail(h) \/ VerifyRemote(h) \/ Lookup(h)
    BY <2>1, <2>2, <2>5 DEF CheckPhone, CheckEmail, VerifyRemote, Lookup
  <2>6. CASE CreateOAuthUser(h)
    BY <1>0, <2>6 DEF CreateOAuthUser
  <2>7. CASE CreateOAuth(h) \/ LookupAgain(h) \/ Fails(h)
    BY <2>1, <2>2, <2>7 DEF CreateOAuth, LookupAgain, Fails
  <2>8. ASSUME NEW lost \in BOOLEAN, Register(h, lost) \/ Commit(h, lost)
        PROVE  (\A g \in Request \ {h} : req'[g] = req[g]) /\ req'[h].at # "join"
    BY <2>1, <2>8 DEF Register, Commit
  <2> QED BY <2>3, <2>4, <2>5, <2>6, <2>7, <2>8
<1> QED BY <1>1, <1>2, <1>3, ElsewhereKeeps

LEMMA PublicKeyKeeps ==
    ASSUME IdInv, FewInv, NEW h \in Request, PublicKey(h)
    PROVE  FewInv'
<1>0. IdTypeOK /\ extra \in Nat /\ window \in Nat
  BY IdentityAssumption DEF IdInv, IdTypeOK
<1>1. CASE Join(h)
  <2>1. /\ At(h, "join") /\ req'[h].at = "wait"
        /\ \A g \in Request \ {h} : req'[g] = req[g]
    BY <1>0, <1>1, GoesTo DEF Join
  <2>2. /\ UNCHANGED <<throttle, answer, window, extra>>
        /\ leader' = IF leader = {} THEN {h} ELSE leader
    BY <1>1 DEF Join
  <2>3. Joining' = Joining \ {h} /\ h \in Joining /\ Waiting' = Waiting \cup {h}
    BY <2>1 DEF Joining, Waiting, At
  <2>4. Cardinality(Joining') = Cardinality(Joining) - 1
    BY <2>3, Counts, FS_RemoveElement
  <2>5. Left' <= Left + 1
    BY <2>2 DEF Left
  <2>6. leader' \subseteq Waiting'
    BY <2>2, <2>3 DEF FewInv
  <2>7. Left \in 0..1 /\ Left' \in 0..1
    BY DEF Left
  <2>8. leader' # {}
    BY <2>2
  <2>9. window > 0 =>
           extra' + Cardinality(Joining') + Left' < Cardinality(Request)
    BY <1>0, <2>2, <2>4, <2>5, <2>7, Counts DEF FewInv
  <2> QED BY <2>2, <2>6, <2>8, <2>9 DEF FewInv
<1>2. CASE KeyLookup(h) \/ Reread(h)
  <2>1. UNCHANGED keys /\ (At(h, "key") \/ At(h, "reread"))
    BY <1>2 DEF KeyLookup, Reread
  <2>2. \/ Ends(h, "invalid", 0) \/ Goes(h, "lookup")
        \/ Goes(h, "join") /\ window = 0
    BY <1>0, <1>2 DEF KeyLookup, Reread, Verified, FewInv
  <2>3. CASE Ends(h, "invalid", 0)
    BY <1>0, <2>1, <2>3, EndsResult, ElsewhereKeeps DEF At
  <2>4. CASE Goes(h, "lookup")
    BY <1>0, <2>1, <2>4, GoesTo, ElsewhereKeeps DEF At
  <2>5. CASE Goes(h, "join") /\ window = 0
    <3>1. /\ \A g \in Request \ {h} : req'[g] = req[g]
          /\ req'[h].at = "join"
      BY <1>0, <2>5, GoesTo
    <3>2. Waiting \subseteq Waiting'
      BY <2>1, <3>1 DEF Waiting, At
    <3> QED BY <2>1, <2>5, <3>2 DEF FewInv, keys
  <2> QED BY <2>2, <2>3, <2>4, <2>5
<1> QED BY <1>1, <1>2 DEF PublicKey

LEMMA KeysKeep ==
    ASSUME IdInv, FewInv, KeysNext
    PROVE  FewInv'
<1>0. /\ IdTypeOK /\ extra \in Nat /\ window \in Nat /\ Interval \in Nat \ {0}
      /\ published # 0 /\ req \in [Request -> Reqs]
  BY IdentityAssumption DEF IdInv, IdTypeOK, Reqs
<1>1. Left \in 0..1 /\ Left' \in 0..1
  BY DEF Left
<1>2. CASE AskApple
  <2>1. /\ UNCHANGED <<throttle, window, leader, req>> /\ leader # {} /\ answer = 0
        /\ answer' = published /\ extra' = IF window > 0 THEN extra + 1 ELSE extra
    BY <1>2 DEF AskApple
  <2>2. Left = 1 /\ Left' = 0
    BY <1>0, <2>1 DEF Left
  <2>3. Joining' = Joining /\ Waiting' = Waiting
    BY <2>1 DEF Joining, Waiting, At
  <2> QED BY <1>0, <2>1, <2>2, <2>3, Counts DEF FewInv
<1>3. CASE RefreshFails
  <2>1. /\ UNCHANGED <<throttle, window, extra>> /\ leader' = {} /\ answer' = 0
    BY <1>3 DEF RefreshFails
  <2>2. Left' = 0
    BY <2>1 DEF Left
  <2>3. \A g \in Request : req'[g] = req[g] \/ (g \in Waiting /\ req'[g].at = "idle")
    BY <1>3 DEF RefreshFails, Result, Idle
  <2>4. Joining' = Joining
    BY <2>3 DEF Joining, Waiting, At
  <2> QED BY <1>0, <1>1, <2>1, <2>2, <2>4, Counts DEF FewInv
<1>4. CASE Refreshed
  <2>1. /\ leader # {} /\ throttle' = Interval /\ window' = Interval /\ extra' = extra
        /\ leader' = {} /\ answer' = 0
    BY <1>4 DEF Refreshed
  <2>2. Left' = 0
    BY <2>1 DEF Left
  <2>3. \A g \in Request : req'[g] = req[g] \/ (g \in Waiting /\ req'[g].at = "reread")
    BY <1>0, <1>4 DEF Refreshed, Reqs
  <2>4. Joining' = Joining
    BY <2>3 DEF Joining, Waiting, At
  <2>5. Cardinality(Joining) < Cardinality(Request)
    <3>1. PICK h \in leader : h \in Waiting
      BY <2>1 DEF FewInv
    <3>2. Joining \subseteq Request \ {h} /\ h \in Request
      BY <3>1 DEF Joining, Waiting, At
    <3>3. /\ IsFiniteSet(Request \ {h})
          /\ Cardinality(Request \ {h}) = Cardinality(Request) - 1
      BY <3>2, IdentityAssumption, FS_RemoveElement
    <3>4. Cardinality(Joining) <= Cardinality(Request \ {h})
      BY <3>2, <3>3, FS_Subset
    <3> QED BY <3>3, <3>4, Counts
  <2>6. extra + Cardinality(Joining) < Cardinality(Request)
    <3>1. CASE window = 0
      BY <1>0, <2>5, <3>1, Counts DEF FewInv
    <3>2. CASE window > 0
      BY <1>0, <1>1, <3>2, Counts DEF FewInv
    <3> QED BY <1>0, <3>1, <3>2
  <2>7. extra' + Cardinality(Joining') + Left' < Cardinality(Request)
    BY <1>0, <2>1, <2>2, <2>4, <2>6, Counts
  <2> QED BY <1>0, <2>1, <2>7 DEF FewInv
<1>5. CASE Rotate
  <2>1. UNCHANGED <<throttle, window, extra, leader, answer, req>>
    BY <1>5 DEF Rotate
  <2>2. Joining' = Joining /\ Waiting' = Waiting /\ Left' = Left
    BY <2>1 DEF Joining, Waiting, At, Left
  <2> QED BY <2>1, <2>2 DEF FewInv
<1>6. CASE Minute
  <2>1. /\ UNCHANGED <<leader, answer, req>> /\ window > 0 /\ window' = window - 1
        /\ throttle' = window' /\ extra' = IF window = 1 THEN 0 ELSE extra
    BY <1>0, <1>6 DEF Minute, FewInv
  <2>2. Joining' = Joining /\ Waiting' = Waiting /\ Left' = Left
    BY <2>1 DEF Joining, Waiting, At, Left
  <2> QED BY <1>0, <2>1, <2>2 DEF FewInv
<1> QED BY <1>2, <1>3, <1>4, <1>5, <1>6 DEF KeysNext

LEMMA FewStep ==
    ASSUME IdInv, FewInv, [Next]_ivars
    PROVE  FewInv'
<1>1. CASE UNCHANGED ivars
  <2>1. UNCHANGED <<throttle, window, extra, leader, answer, req>>
    BY <1>1 DEF ivars, keys
  <2>2. Joining' = Joining /\ Waiting' = Waiting /\ Left' = Left
    BY <2>1 DEF Joining, Waiting, At, Left
  <2> QED BY <2>1, <2>2 DEF FewInv
<1>2. CASE KeysNext
  BY <1>2, KeysKeep
<1>3. ASSUME NEW h \in Request, Step(h)
      PROVE  FewInv'
  <2>1. CASE PublicKey(h)
    BY <2>1, PublicKeyKeeps
  <2>2. CASE ~PublicKey(h)
    BY <1>3, <2>2, ElsewhereSteps DEF Step
  <2> QED BY <2>1, <2>2
<1> QED BY <1>1, <1>2, <1>3 DEF Next

(* However many requests present unknown key ids, Apple is asked again      *)
(* within an interval less often than there are requests at a time.         *)
THEOREM RefreshesAreFew == Spec => []FewRefreshes
<1>1. Init => IdInv /\ FewInv
  BY IdInit, FewInit
<1>2. IdInv /\ FewInv /\ [Next]_ivars => IdInv' /\ FewInv'
  BY IdStep, FewStep
<1>3. IdInv /\ FewInv => FewRefreshes
  <2> SUFFICES ASSUME IdInv, FewInv PROVE extra < Cardinality(Request)
    BY DEF FewRefreshes
  <2>1. extra \in Nat /\ window \in Nat /\ Left \in 0..1
    BY IdentityAssumption DEF IdInv, IdTypeOK, Left
  <2> QED BY <2>1, Counts DEF FewInv
<1> QED BY <1>1, <1>2, <1>3, PTL DEF Spec

==================================================================================
