------------------------------- MODULE Identities -------------------------------
(***************************************************************************)
(* internal/service/auth/register.go and the OAuth login of login.go, with *)
(* the users and user_oauth tables behind internal/repo/pg: who a phone    *)
(* number, an e-mail address or an account of an OAuth platform belongs    *)
(* to. The code checks first and inserts later; that one identity gets one *)
(* user rests on the UNIQUE constraints and on the transaction.            *)
(*                                                                         *)
(* Users are numbered in the order of their INSERTs, 0 is no user.         *)
(***************************************************************************)
EXTENDS AppleKeys, Configuration

CONSTANTS
    OAuthTx,        \* WithUserOAuthTxRunner was given, as app.New does
    MaxUsers        \* bound: INSERTs into users

ASSUME IdentityAssumption ==
    /\ IsFiniteSet(Request) /\ Request # {}
    /\ Interval \in Nat \ {0} /\ MaxKeys \in Nat \ {0}
    /\ MaxFaults \in Nat /\ MaxUsers \in Nat /\ OAuthTx \in BOOLEAN

Contact == {"phone", "email"}
Account == {"apple", "google"}
Identity == Contact \cup Account

VARIABLES
    devMode, ids,       \* configuration: oauth.dev_mode, client ids are set
    users, owner,       \* committed: ids of users; columns and user_oauth rows
    inserted,           \* INSERTs into users so far
    anonymous           \* history: users registered with neither contact

ivars == <<keys, req, faults, devMode, ids, users, owner, inserted, anonymous>>
config == <<devMode, ids>>
tables == <<users, owner, inserted, anonymous>>

Provider(h) == CHOOSE i \in Account : i \in req[h].want

(***************************************************************************)
(* The statements, as PostgreSQL executes them.                            *)
(***************************************************************************)
ByPhone == owner["phone"]
ByEmail == owner["email"]
ByOAuth(i) == owner[i]
CreateUser(u) == inserted < MaxUsers /\ u = inserted + 1 /\ inserted' = u

\* variant: ON CONFLICT DO UPDATE
NoConflict(S) == FALSE
(* wrapErr: SQLSTATE 23505 becomes ErrAlreadyExists.                        *)
Conflict(S) == \E i \in S : owner[i] # 0

(* A row of user_oauth that another transaction has inserted and not yet    *)
(* committed makes an INSERT of the same key wait.                          *)
Locked(h, i) == \E g \in Request \ {h} : At(g, "commit") /\ i \in req[g].want
Own(S, u) == owner' = [i \in Identity |-> IF i \in S THEN u ELSE owner[i]]

(***************************************************************************)
(* Registration, by password (either contact, or none) or by code.         *)
(***************************************************************************)
StartRegister(h, S) ==
    /\ At(h, "idle")
    /\ req' = [req EXCEPT ![h] = [Idle EXCEPT !.at = "phone", !.want = S]]
    /\ UNCHANGED <<keys, faults, config, tables>>

(* checkAccountExists.                                                      *)
CheckPhone(h) ==
    /\ At(h, "phone")
    /\ IF "phone" \in req[h].want /\ ByPhone # 0
       THEN Ends(h, "exists", 0) ELSE Goes(h, "email")
    /\ UNCHANGED <<keys, faults, config, tables>>

CheckEmail(h) ==
    /\ At(h, "email")
    /\ IF "email" \in req[h].want /\ ByEmail # 0
       THEN Ends(h, "exists", 0) ELSE Goes(h, "create")
    /\ UNCHANGED <<keys, faults, config, tables>>

(* The INSERT commits at once; its answer may be lost.                      *)
Register(h, lost) ==
    /\ At(h, "create")
    /\ IF Conflict(req[h].want)
       THEN Ends(h, "exists", 0) /\ UNCHANGED <<tables, faults>> /\ ~lost
       ELSE /\ CreateUser(inserted + 1)
            /\ users' = users \cup {inserted + 1}
            /\ Own(req[h].want, inserted + 1)
            /\ anonymous' = IF req[h].want = {} THEN anonymous \cup {inserted + 1} ELSE anonymous
            /\ IF lost THEN Fault /\ Ends(h, "error", 0)
                       ELSE Ends(h, "ok", inserted + 1) /\ UNCHANGED faults
    /\ UNCHANGED <<keys, config>>

(***************************************************************************)
(* OAuth login: Router.Verify, lookup, create and bind.                    *)
(***************************************************************************)
(* Dev mode takes the bare open_id; a platform without client id refuses.   *)
(* A forged token may name a key that Apple has.                            *)
StartOAuth(h, i, genuine, bare, kid) ==
    /\ At(h, "idle")
    /\ genuine => ~bare
    /\ IF i = "apple" /\ ~bare THEN genuine => kid # 0 ELSE kid = 0
    /\ LET begun == [Idle EXCEPT !.want = {i}, !.genuine = genuine, !.kid = kid]
       IN  req' = [req EXCEPT ![h] =
             CASE bare /\ devMode -> [begun EXCEPT !.at = "lookup"]
               [] bare /\ ~devMode -> [Idle EXCEPT !.res = "invalid"]
               [] ~bare /\ ~ids -> [Idle EXCEPT !.res = "invalid"]
               [] OTHER -> [begun EXCEPT !.at = IF i = "apple" THEN "key" ELSE "remote"]]
    /\ UNCHANGED <<keys, faults, config, tables>>

(* Google and WeChat are asked about every token.                           *)
VerifyRemote(h) ==
    /\ At(h, "remote")
    /\ IF req[h].genuine THEN Goes(h, "lookup") ELSE Ends(h, "invalid", 0)
    /\ UNCHANGED <<keys, faults, config, tables>>

Lookup(h) ==
    /\ At(h, "lookup")
    /\ IF ByOAuth(Provider(h)) # 0 THEN Ends(h, "ok", ByOAuth(Provider(h)))
                                   ELSE Goes(h, "insert")
    /\ UNCHANGED <<keys, faults, config, tables>>

\* variant: the user is inserted by the pool, not by the transaction
CreateOAuthUserApart(h) ==
    /\ At(h, "insert")
    /\ CreateUser(inserted + 1)
    /\ req' = [req EXCEPT ![h] = [@ EXCEPT !.at = "bind", !.user = inserted + 1]]
    /\ users' = users \cup {inserted + 1}
    /\ UNCHANGED <<keys, faults, config, owner, anonymous>>

(* createOAuthUser: INSERT of the user, in a transaction or committed.      *)
CreateOAuthUser(h) ==
    /\ At(h, "insert")
    /\ CreateUser(inserted + 1)
    /\ req' = [req EXCEPT ![h] = [@ EXCEPT !.at = "bind", !.user = inserted + 1]]
    /\ users' = IF OAuthTx THEN users ELSE users \cup {inserted + 1}
    /\ UNCHANGED <<keys, faults, config, owner, anonymous>>

\* variant: the binding is inserted by the pool, not by the transaction
CreateOAuthApart(h) ==
    /\ At(h, "bind") /\ ~Locked(h, Provider(h))
    /\ IF Conflict(req[h].want) THEN Goes(h, "again") /\ UNCHANGED owner
       ELSE Own(req[h].want, req[h].user) /\ Goes(h, "commit")
    /\ UNCHANGED <<keys, faults, config, users, inserted, anonymous>>

(* INSERT of the binding; after a conflict the deferred Rollback runs.      *)
CreateOAuth(h) ==
    /\ At(h, "bind") /\ ~Locked(h, Provider(h))
    /\ CASE Conflict(req[h].want) -> Goes(h, "again") /\ UNCHANGED owner
         [] ~Conflict(req[h].want) /\ OAuthTx -> Goes(h, "commit") /\ UNCHANGED owner
         [] OTHER -> Own(req[h].want, req[h].user) /\ Ends(h, "ok", req[h].user)
    /\ UNCHANGED <<keys, faults, config, users, inserted, anonymous>>

Commit(h, lost) ==
    /\ At(h, "commit")
    /\ users' = users \cup {req[h].user}
    /\ Own(req[h].want, req[h].user)
    /\ IF lost THEN Fault /\ Ends(h, "error", 0)
               ELSE Ends(h, "ok", req[h].user) /\ UNCHANGED faults
    /\ UNCHANGED <<keys, config, inserted, anonymous>>

\* variant: the conflict is an error
LookupAgainFails(h) ==
    /\ At(h, "again")
    /\ Ends(h, "error", 0)
    /\ UNCHANGED <<keys, faults, config, tables>>

(* Somebody else was first: his user is the one.                            *)
LookupAgain(h) ==
    /\ At(h, "again")
    /\ IF ByOAuth(Provider(h)) # 0 THEN Ends(h, "ok", ByOAuth(Provider(h)))
                                   ELSE Ends(h, "error", 0)
    /\ UNCHANGED <<keys, faults, config, tables>>

(* A statement or call fails, or the client goes: a transaction is rolled   *)
(* back, what was committed stays.                                          *)
Fails(h) ==
    /\ req[h].at \in {"phone", "email", "remote", "lookup", "create",
                     "insert", "bind", "commit", "again"}
    /\ Fault
    /\ Ends(h, "error", 0)
    /\ UNCHANGED <<keys, config, tables>>

Init ==
    /\ KeysInit
    /\ devMode \in BOOLEAN /\ ids \in BOOLEAN  \* Go bools; excludes nothing: SwitchesAreSet
    /\ \E c \in Running : devMode = c.oauthDev /\ ids = c.ids
    /\ users = {} /\ owner = [i \in Identity |-> 0]
    /\ inserted = 0 /\ anonymous = {}
    /\ req = [h \in Request |-> Idle] /\ faults = 0

Step(h) ==
    \/ \E S \in SUBSET Contact : StartRegister(h, S)
    \/ CheckPhone(h) \/ CheckEmail(h)
    \/ \E i \in Account, genuine, bare \in BOOLEAN, kid \in {0, published} :
          StartOAuth(h, i, genuine, bare, kid)
    \/ PublicKey(h) /\ UNCHANGED <<config, tables>>
    \/ VerifyRemote(h) \/ Lookup(h)
    \/ CreateOAuthUser(h) \/ CreateOAuth(h) \/ LookupAgain(h)
    \/ \E lost \in BOOLEAN : Register(h, lost) \/ Commit(h, lost)
    \/ Fails(h)

Next == (\E h \in Request : Step(h)) \/ (KeysNext /\ UNCHANGED <<config, tables>>)

Spec == Init /\ [][Next]_ivars

------------------------------------------------------------------------------
(* The type of every variable.                                              *)
IdTypeOK ==
    /\ published \in 1..MaxKeys /\ cached \in 0..MaxKeys /\ answer \in 0..MaxKeys
    /\ throttle \in 0..Interval /\ window \in 0..Interval /\ extra \in Nat
    /\ leader \subseteq Request /\ faults \in 0..MaxFaults
    /\ req \in [Request ->
          [at : {"idle", "key", "join", "wait", "reread", "remote", "lookup", "phone",
                 "email", "create", "insert", "bind", "commit", "again"},
           want : SUBSET Identity, genuine : BOOLEAN, kid : 0..MaxKeys,
           user : 0..MaxUsers, res : {"none", "ok", "exists", "invalid", "error"}]]
    /\ devMode \in BOOLEAN /\ ids \in BOOLEAN
    /\ inserted \in 0..MaxUsers /\ users \subseteq 1..inserted /\ anonymous \subseteq users
    /\ owner \in [Identity -> users \cup {0}]

(* Registrations and first logins of one identity at the same time make one *)
(* owner; nobody else ever gets it.                                         *)
Map == INSTANCE IdentityMap WITH User <- 1..MaxUsers, None <- 0
OneOwner == Map!Spec

(* A request that succeeded got the user who owns what it presented, with a *)
(* genuine token unless in dev mode; one told "exists" met an owner; one    *)
(* that lost the race for a first login is no error.                        *)
GetsOwner ==
    \A h \in Request : At(h, "idle") =>
        /\ req[h].res = "ok" =>
              /\ \A i \in req[h].want : owner[i] = req[h].user
              /\ req[h].user \in users
              /\ req[h].genuine \/ devMode
        /\ req[h].res = "exists" => Conflict(req[h].want)
        /\ req[h].res = "error" => faults > 0

(* No user is left behind whom nobody can log in as: with the transaction,  *)
(* only those who registered without phone and e-mail.                      *)
NoOrphan ==
    OAuthTx => \A u \in users : u \in anonymous \/ \E i \in Identity : owner[i] = u
==============================================================================
