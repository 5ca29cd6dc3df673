------------------------------ MODULE UserAccounts ------------------------------
(***************************************************************************)
(* internal/service/admin, internal/service/user and cmd/seed: the columns *)
(* of the users table that administrators and the users themselves change, *)
(* behind the Auth and RequireRole middleware. A handler reads, decides    *)
(* and updates in separate statements, and the role that lets it in is the *)
(* one its token was signed with.                                          *)
(*                                                                         *)
(* How a token is revoked is the matter of AccountRevocation; here it is   *)
(* one step. A column of 0 is NULL or empty.                               *)
(***************************************************************************)
EXTENDS Naturals, FiniteSets

CONSTANTS
    User,
    Handler,        \* requests at the same time; each begins anew
    MaxStarts,      \* bound: requests
    MaxFaults       \* bound: failing statements and revocations

ASSUME AccountsAssumption == MaxStarts \in Nat /\ MaxFaults \in Nat

VARIABLES
    row,            \* the users table; role "none" = no such row
    token,          \* the roles in the live access tokens of a user
    req, starts, faults,
    seeded,         \* history: the seed command has run
    raced           \* history: kinds of requests of which two that concern
                    \* one user were in flight at once

uvars == <<row, token, req, starts, faults, seeded, raced>>

Columns == [role |-> "user", status |-> "active", password |-> 1, nick |-> 1, avatar |-> 1]
NoRow == [Columns EXCEPT !.role = "none"]
Assign(r, columns) == [c \in DOMAIN r |-> IF c \in DOMAIN columns THEN columns[c] ELSE r[c]]

Idle == [at |-> "idle", kind |-> "none", concerns |-> {}, of |-> {}, ask |-> <<>>,
         set |-> <<>>, old |-> 0]
At(h, label) == req[h].at = label
Ends(h) == req' = [req EXCEPT ![h] = Idle]
Of(h) == CHOOSE u \in req[h].of : TRUE
Fault == faults < MaxFaults /\ faults' = faults + 1

(* A request of a kind begins, on behalf of one user and about another.     *)
Begins(h, who, r) ==
    /\ At(h, "idle") /\ starts < MaxStarts
    /\ starts' = starts + 1
    /\ req' = [req EXCEPT ![h] = [r EXCEPT !.concerns = r.of \cup {who}]]
    /\ raced' = IF \E g \in Handler \ {h} :
                      req[g].kind = r.kind /\ req[g].concerns \cap (r.of \cup {who}) # {}
                THEN raced \cup {r.kind} ELSE raced

(***************************************************************************)
(* Rows come from registration and from the seed command.                  *)
(***************************************************************************)
Register(u, password) ==
    /\ row[u] = NoRow
    /\ row' = [row EXCEPT ![u] = [Columns EXCEPT !.password = password]]
    /\ UNCHANGED <<token, req, starts, faults, seeded, raced>>

Seed(u) ==
    /\ row[u] = NoRow
    /\ row' = [row EXCEPT ![u] = [Columns EXCEPT !.role = "admin"]]
    /\ seeded' = TRUE
    /\ UNCHANGED <<token, req, starts, faults, raced>>

(***************************************************************************)
(* A login reads the row, and signs a token from what it read.             *)
(***************************************************************************)
LoginRead(h, u) ==
    /\ row[u].role # "none" /\ row[u].status = "active"
    /\ Begins(h, u, [Idle EXCEPT !.at = "sign", !.kind = "role", !.of = {u},
                                 !.set = [role |-> row[u].role]])
    /\ UNCHANGED <<row, token, faults, seeded>>

LoginSign(h) ==
    /\ At(h, "sign")
    /\ token' = [token EXCEPT ![Of(h)] = @ \cup {req[h].set.role}]
    /\ Ends(h)
    /\ UNCHANGED <<row, starts, faults, seeded, raced>>

(***************************************************************************)
(* The administrator's requests.                                           *)
(***************************************************************************)
UpdateUserRole(v) == [role |-> v]
UpdateUserStatus(v) == [status |-> v]

\* variant: an administrator may modify himself
AnyTarget(actor, target, columns) == TRUE
(* Not one's own role, and nobody disables himself.                         *)
MayModify(actor, target, columns) ==
    actor = target => "status" \in DOMAIN columns /\ columns.status = "active"

RequireRole(actor, role) == role \in token[actor]

Administer(h, actor, target, columns) ==
    /\ RequireRole(actor, "admin")
    /\ MayModify(actor, target, columns)
    /\ Begins(h, actor, [Idle EXCEPT !.at = "update", !.kind = "role", !.of = {target},
                                     !.ask = columns, !.set = columns])
    /\ UNCHANGED <<row, token, faults, seeded>>

(***************************************************************************)
(* The user's own requests.                                                *)
(***************************************************************************)
\* variant: a field that is not given is emptied
ReplaceProfile(r, ask) ==
    [nick |-> IF "nick" \in DOMAIN ask THEN ask.nick ELSE 0,
     avatar |-> IF "avatar" \in DOMAIN ask THEN ask.avatar ELSE 0]

(* The statement writes both columns: what is not asked for, as it was read.*)
UpdateUserProfile(r, ask) ==
    [nick |-> IF "nick" \in DOMAIN ask THEN ask.nick ELSE r.nick,
     avatar |-> IF "avatar" \in DOMAIN ask THEN ask.avatar ELSE r.avatar]

UpdateProfile(h, u, ask) ==
    /\ token[u] # {} /\ ask # <<>>
    /\ Begins(h, u, [Idle EXCEPT !.at = "update", !.kind = "profile", !.of = {u},
                                 !.ask = ask, !.set = UpdateUserProfile(row[u], ask)])
    /\ UNCHANGED <<row, token, faults, seeded>>

UpdateUserPassword(new) == [password |-> new]

(* The hash is compared here, and updated later without looking again. A    *)
(* user from an OAuth platform has none.                                    *)
ChangePassword(h, u, old, new) ==
    /\ token[u] # {}
    /\ row[u].password # 0 /\ old = row[u].password /\ new # old
    /\ Begins(h, u, [Idle EXCEPT !.at = "update", !.kind = "password", !.of = {u},
                                 !.ask = UpdateUserPassword(new),
                                 !.set = UpdateUserPassword(new), !.old = old])
    /\ UNCHANGED <<row, token, faults, seeded>>

(***************************************************************************)
(* The UPDATE, whose answer may be lost, and what follows it.              *)
(***************************************************************************)
Revokes(h) ==
    \/ req[h].kind = "password"
    \/ "role" \in DOMAIN req[h].set
    \/ "status" \in DOMAIN req[h].set /\ req[h].set.status = "disabled"

Update(h, lost) ==
    /\ At(h, "update")
    /\ IF row[Of(h)].role = "none" THEN UNCHANGED row
       ELSE row' = [row EXCEPT ![Of(h)] = Assign(@, req[h].set)]
    /\ IF lost THEN Fault ELSE UNCHANGED faults
    /\ IF Revokes(h) /\ ~lost /\ row[Of(h)].role # "none"
       THEN req' = [req EXCEPT ![h].at = "revoke"] ELSE Ends(h)
    /\ UNCHANGED <<token, starts, seeded, raced>>

UpdateFails(h) ==
    /\ At(h, "update")
    /\ Fault /\ Ends(h)
    /\ UNCHANGED <<row, token, starts, seeded, raced>>

(* A revocation that fails is only logged.                                  *)
RevokeAccessTokens(h, fails) ==
    /\ At(h, "revoke")
    /\ IF fails THEN Fault /\ UNCHANGED token
       ELSE token' = [token EXCEPT ![Of(h)] = {}] /\ UNCHANGED faults
    /\ Ends(h)
    /\ UNCHANGED <<row, starts, seeded, raced>>

Init ==
    /\ row = [u \in User |-> NoRow] /\ token = [u \in User |-> {}]
    /\ req = [h \in Handler |-> Idle]
    /\ starts = 0 /\ faults = 0 /\ seeded = FALSE /\ raced = {}

Changes ==
    {UpdateUserRole(v) : v \in {"admin", "user"}}
        \cup {UpdateUserStatus(v) : v \in {"active", "disabled"}}
Asks == [{"nick"} -> 1..2] \cup [{"avatar"} -> 1..2] \cup [{"nick", "avatar"} -> 1..2]

Request(h, u) ==
    \/ LoginRead(h, u)
    \/ \E target \in User, columns \in Changes : Administer(h, u, target, columns)
    \/ \E ask \in Asks : UpdateProfile(h, u, ask)
    \/ \E old, new \in 1..2 : ChangePassword(h, u, old, new)

Step(h) ==
    \/ LoginSign(h) \/ UpdateFails(h)
    \/ \E bad \in BOOLEAN : Update(h, bad) \/ RevokeAccessTokens(h, bad)

Next ==
    \/ \E u \in User : Seed(u) \/ \E password \in 0..1 : Register(u, password)
    \/ \E h \in Handler : Step(h) \/ \E u \in User : Request(h, u)

Spec == Init /\ [][Next]_uvars

------------------------------------------------------------------------------
(* Once there is an active administrator, the administrators cannot lock    *)
(* everybody out: none is lost unless two requests overlap that concern one *)
(* user's role or a command fails.                                          *)
AdminRemains ==
    seeded /\ "role" \notin raced /\ faults = 0 =>
        \E u \in User : row[u].role = "admin" /\ row[u].status = "active"

(* A column changes only to what a request asked for, a password only for   *)
(* one who gave the password of that moment: nothing else is undone or      *)
(* emptied, unless two requests of the same kind overlap.                   *)
KindOf(c) ==
    CASE c \in {"role", "status"} -> "role"
      [] c \in {"nick", "avatar"} -> "profile"
      [] OTHER -> "password"
Asked(u, c) ==
    \E h \in Handler :
        /\ At(h, "update") /\ u \in req[h].of
        /\ c \in DOMAIN req[h].ask /\ row'[u][c] = req[h].ask[c]
        /\ c = "password" => req[h].old = row[u].password
OnlyAsked ==
    [][\A u \in User : row[u].role # "none" =>
          \A c \in DOMAIN Columns :
             row'[u][c] # row[u][c] => KindOf(c) \in raced \/ Asked(u, c)]_uvars
==============================================================================
