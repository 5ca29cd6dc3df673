-------------------------- MODULE AccountRevocation --------------------------
(***************************************************************************)
(* One account: its row in PostgreSQL, the logins, refreshes and requests  *)
(* of its user, and the changes that are to take access away: a new        *)
(* password, a new role, a disabled account. A change updates the row,     *)
(* calls RevokeAll and writes revoke:uid:{uid}; errors of these two are    *)
(* only logged. Sessions are those of SessionRegistry; that a session has  *)
(* one usable refresh token at a time is shown in TokenRotation.           *)
(***************************************************************************)
EXTENDS SessionRegistry, Naturals, FiniteSets

CONSTANTS
    Role,           \* the roles
    NoRole,         \* before a login
    Change,         \* calls of ChangePassword, UpdateRole and SetStatus
    AccessTTL,      \* JWT_ACCESS_TTL, in seconds like the others
    MaxLag,         \* bound: seconds from reading the row to signing a token
    MaxNow,         \* bound: the clock
    MaxTokens,      \* bound: access tokens handed out
    MaxFaults       \* bound: errors, lost answers, abandoned handlers

ASSUME AccountAssumption ==
    /\ AccessTTL \in Nat \ {0} /\ NoRole \notin Role
    /\ MaxLag \in Nat /\ MaxNow \in Nat /\ MaxTokens \in Nat /\ MaxFaults \in Nat

VARIABLES
    now,                        \* seconds
    status, role,               \* the row
    epoch,                      \* history: UPDATEs of the row so far
    disabledAt,                 \* history: when the row was last disabled
    op, since,                  \* the login or refresh of a session; its row read
    claims,                     \* role in the tokens of a session
    access,                     \* access tokens handed out
    key,                        \* revoke:uid:{uid}: its value and when it expires
    step, kind, stamp,          \* the changes: control, what they do, their Unix()
    made, scope, before,        \* history: epoch of the UPDATE, sessions granted
                                \* when RevokeAll began, changes done before it
    missed, unset,              \* history: changes whose RevokeAll, whose SET failed
    faults

session == <<op, since, claims>>
row == <<status, role, epoch, disabledAt>>
changes == <<step, kind, stamp, made, scope, before, missed, unset>>
avars == <<rvars, now, row, session, access, key, changes, faults>>

Kind == {"password", "role", "disable", "enable"}
Reply == {"ok", "refused", "unanswered"}
Answer(r) ==
    /\ r # "ok" => faults < MaxFaults
    /\ faults' = IF r = "ok" THEN faults ELSE faults + 1

(* An access token; made is the epoch of the row when it was signed.        *)
Token == [sid : Sid, iat : 0..MaxNow, made : Nat]

\* variant: iat and exp are swapped
SignAtExpiry(s) ==
    /\ Cardinality(access) < MaxTokens
    /\ access' = access \cup {[sid |-> s, iat |-> now + AccessTTL, made |-> epoch]}

Sign(s) ==
    /\ Cardinality(access) < MaxTokens
    /\ access' = access \cup {[sid |-> s, iat |-> now, made |-> epoch]}

Exp(t) == t.iat + AccessTTL
Done == {c \in Change : step[c] = "done"}

OpAt(s, label) == op' = [op EXCEPT ![s] = label]
Rests(s, label) == OpAt(s, label) /\ since' = [since EXCEPT ![s] = 0]
StepAt(c, label) == step' = [step EXCEPT ![c] = label]

(***************************************************************************)
(* Login: read the row, check the credentials and the status, Register a   *)
(* new session and sign its first tokens. A disabled account gets no        *)
(* further than the row.                                                   *)
(***************************************************************************)
LoginRead(s) ==
    /\ op[s] = "new" /\ status = "active"
    /\ OpAt(s, "read")
    /\ since' = [since EXCEPT ![s] = now]
    /\ claims' = [claims EXCEPT ![s] = role]
    /\ UNCHANGED <<rvars, now, row, access, key, changes, faults>>

LoginRegister(s) ==
    /\ op[s] = "read"
    /\ Grant(s)
    /\ OpAt(s, "registered")
    /\ UNCHANGED <<now, row, since, claims, access, key, changes, faults>>

LoginSign(s) ==
    /\ op[s] = "registered"
    /\ Sign(s)
    /\ Rests(s, "in")
    /\ UNCHANGED <<rvars, now, row, claims, key, changes, faults>>

(***************************************************************************)
(* Refresh: read the row and look at its status, Validate the session, win *)
(* the SETNX, sign tokens with the role of the OLD token.                  *)
(***************************************************************************)
\* variant: the status of the row is not looked at
RefreshAnyStatus(s) ==
    /\ op[s] = "in"
    /\ OpAt(s, "found")
    /\ since' = [since EXCEPT ![s] = now]
    /\ UNCHANGED <<rvars, now, row, claims, access, key, changes, faults>>

RefreshRead(s) ==
    /\ op[s] = "in" /\ status = "active"
    /\ OpAt(s, "found")
    /\ since' = [since EXCEPT ![s] = now]
    /\ UNCHANGED <<rvars, now, row, claims, access, key, changes, faults>>

(* After a Redis error the answer is failOpen, one way or the other.         *)
RefreshValidate(s, r) ==
    /\ op[s] = "found"
    /\ Answer(r)
    /\ \/ (r = "ok" => s \in live) /\ OpAt(s, "validated") /\ UNCHANGED since
       \/ (r = "ok" => s \notin live) /\ Rests(s, "in")
    /\ UNCHANGED <<rvars, now, row, claims, access, key, changes>>

RefreshSign(s) ==
    /\ op[s] = "validated"
    /\ Sign(s)
    /\ Rests(s, "in")
    /\ UNCHANGED <<rvars, now, row, claims, key, changes, faults>>

(* A login fails or dies, a refresh loses the SETNX or dies.                *)
Abandon(s) ==
    /\ op[s] \in {"read", "registered", "found", "validated"}
    /\ Rests(s, IF op[s] \in {"read", "registered"} THEN "over" ELSE "in")
    /\ UNCHANGED <<rvars, now, row, claims, access, key,
                   changes, faults>>

(* A logout, a login elsewhere in single device mode, the session TTL.      *)
SessionEnds(s) ==
    /\ s \in live
    /\ Doom({s}) /\ s \notin live'
    /\ UNCHANGED <<now, row, session, access, key, changes, faults>>

(***************************************************************************)
(* The changes. A call that fails before or in its UPDATE has done nothing *)
(* and may be made again; if only the answer of the UPDATE is lost, the     *)
(* caller gets an error and nothing is revoked.                            *)
(***************************************************************************)
ChangeRow(c, k, newRole, r) ==
    /\ step[c] = "idle" /\ r # "refused"
    /\ Answer(r)
    /\ kind' = [kind EXCEPT ![c] = k]
    /\ status' = CASE k = "disable" -> "disabled"
                    [] k = "enable"  -> "active"
                    [] OTHER         -> status
    /\ k = "role" => newRole # role     \* the same role: a step as for a password
    /\ role' = IF k = "role" THEN newRole ELSE role
    /\ epoch' = epoch + 1
    /\ disabledAt' = IF k = "disable" THEN now ELSE disabledAt
    /\ made' = [made EXCEPT ![c] = epoch + 1]
    /\ before' = [before EXCEPT ![c] = Done]
    /\ StepAt(c, IF r # "ok" THEN "failed"
                 ELSE IF k = "enable" THEN "done" ELSE "revokeAll")
    /\ UNCHANGED <<rvars, now, session, access, key, stamp, scope, missed, unset>>

RevokeAllStart(c) ==
    /\ step[c] = "revokeAll"
    /\ StepAt(c, "revoking")
    /\ scope' = [scope EXCEPT ![c] = granted]
    /\ UNCHANGED <<rvars, now, row, session, access, key, kind, stamp, made,
                   before, missed, unset, faults>>

(* RevokeAll ends every session granted before it began, unless a command   *)
(* fails or an earlier race has hidden one (SessionStore): then some. Its    *)
(* error is only logged. A login under way may be hit as well. Then the      *)
(* second of the key is taken.                                              *)
RevokeAllEnd(c, r) ==
    /\ step[c] = "revoking"
    /\ Answer(r)
    /\ Doom(granted \cup {s \in Sid : op[s] = "read"})
    /\ r = "ok" => scope[c] \cap live' = {}
    /\ StepAt(c, "set")
    /\ stamp' = [stamp EXCEPT ![c] = now]
    /\ missed' = IF r = "ok" THEN missed ELSE missed \cup {c}
    /\ UNCHANGED <<now, row, session, access, key, kind, made, scope, before, unset>>

\* variant: the key expires before the tokens it revokes
SetKeyShort(c, r) ==
    /\ step[c] = "set"
    /\ Answer(r)
    /\ key' = IF r = "refused" THEN key ELSE [at |-> stamp[c], exp |-> now + AccessTTL - 1]
    /\ StepAt(c, "done")
    /\ unset' = IF r = "ok" THEN unset ELSE unset \cup {c}
    /\ UNCHANGED <<rvars, now, row, session, access, kind, stamp, made, scope,
                   before, missed>>

(* The SET is executed later than time.Now().Unix(), which it carries.       *)
SetKey(c, r) ==
    /\ step[c] = "set"
    /\ Answer(r)
    /\ key' = IF r = "refused" THEN key ELSE [at |-> stamp[c], exp |-> now + AccessTTL]
    /\ StepAt(c, "done")
    /\ unset' = IF r = "ok" THEN unset ELSE unset \cup {c}
    /\ UNCHANGED <<rvars, now, row, session, access, kind, stamp, made, scope,
                   before, missed>>

(* The client sends the SET again when the answer is late.                   *)
ResendKey(c) ==
    /\ step[c] = "set"
    /\ Answer("unanswered")
    /\ key' = [at |-> stamp[c], exp |-> now + AccessTTL]
    /\ UNCHANGED <<rvars, now, row, session, access, changes>>

ChangeDies(c) ==
    /\ step[c] \notin {"idle", "done", "failed"}
    /\ Answer("refused")
    /\ StepAt(c, "failed")
    /\ UNCHANGED <<rvars, now, row, session, access, key, kind, stamp, made,
                   scope, before, missed, unset>>

(***************************************************************************)
(* The Auth middleware: parse the token, GET the revoke key, Validate the  *)
(* session. It only reads; this is what it finds when Redis answers.       *)
(***************************************************************************)
\* variant: a token of the second of the change is taken for a later one
RevokedStrict(t) == key.exp > now /\ t.iat < key.at
Revoked(t) == key.exp > now /\ t.iat <= key.at

\* variant: the session is not validated
AdmittedBySignature(t) == now < Exp(t) /\ ~Revoked(t)
Admitted(t) == now < Exp(t) /\ ~Revoked(t) /\ t.sid \in live

(* A second passes. Nobody holds what was read of the row longer than MaxLag. *)
Tick ==
    /\ now < MaxNow
    /\ \A s \in Sid : op[s] \notin {"new", "in", "over"} => now < since[s] + MaxLag
    /\ now' = now + 1
    /\ UNCHANGED <<rvars, row, session, access, key, changes, faults>>

AInit ==
    /\ RInit
    /\ now = 0
    /\ status = "active" /\ role \in Role /\ epoch = 0 /\ disabledAt = 0
    /\ op = [s \in Sid |-> "new"] /\ since = [s \in Sid |-> 0]
    /\ claims = [s \in Sid |-> NoRole]
    /\ access = {} /\ key = [at |-> 0, exp |-> 0]
    /\ step = [c \in Change |-> "idle"] /\ kind = [c \in Change |-> "none"]
    /\ stamp = [c \in Change |-> 0] /\ made = [c \in Change |-> 0]
    /\ scope = [c \in Change |-> {}] /\ before = [c \in Change |-> {}]
    /\ missed = {} /\ unset = {} /\ faults = 0

Login(s) == LoginRead(s) \/ LoginRegister(s) \/ LoginSign(s)
Refresh(s) ==
    RefreshRead(s) \/ (\E r \in Reply : RefreshValidate(s, r)) \/ RefreshSign(s)
ChangeCall(c) ==
    \/ RevokeAllStart(c) \/ ResendKey(c) \/ ChangeDies(c)
    \/ \E r \in Reply : \/ RevokeAllEnd(c, r) \/ SetKey(c, r)
                        \/ \E k \in Kind, new \in Role : ChangeRow(c, k, new, r)
ANext ==
    \/ \E s \in Sid : Login(s) \/ Refresh(s) \/ Abandon(s) \/ SessionEnds(s)
    \/ \E c \in Change : ChangeCall(c)
    \/ Tick

ASpec == AInit /\ [][ANext]_avars

------------------------------------------------------------------------------
(* The type of every variable.                                              *)
AccountTypeOK ==
    /\ granted \subseteq Sid /\ doomed \subseteq Sid /\ live \subseteq granted
    /\ now \in 0..MaxNow
    /\ status \in {"active", "disabled"} /\ role \in Role
    /\ epoch \in Nat /\ disabledAt \in 0..MaxNow
    /\ op \in [Sid -> {"new", "read", "registered", "in", "found", "validated", "over"}]
    /\ since \in [Sid -> 0..MaxNow] /\ claims \in [Sid -> Role \cup {NoRole}]
    /\ access \subseteq Token
    /\ key \in [at : 0..MaxNow, exp : 0..(MaxNow + AccessTTL)]
    /\ step \in [Change -> {"idle", "revokeAll", "revoking", "set",
                            "done", "failed"}]
    /\ kind \in [Change -> Kind \cup {"none"}] /\ stamp \in [Change -> 0..MaxNow]
    /\ made \in [Change -> Nat]
    /\ scope \in [Change -> SUBSET Sid] /\ before \in [Change -> SUBSET Change]
    /\ missed \subseteq Change /\ unset \subseteq Change
    /\ faults \in 0..MaxFaults

(* After an account is disabled its access ends for good, whatever Redis    *)
(* does: Refresh and login look at the row, so the last access token is     *)
(* signed at most MaxLag seconds after the UPDATE, and it runs out.         *)
DisabledFadesOut ==
    status = "disabled" => \A t \in access : t.iat <= disabledAt + MaxLag

(* Changes that have returned and were to take access away.                 *)
Revokers == {c \in Done : kind[c] # "enable"}
Overlap(c, d) ==
    /\ c # d /\ step[c] # "idle" /\ step[d] # "idle"
    /\ c \notin before[d] /\ d \notin before[c]

(* A token signed before the row changed is not admitted after the change   *)
(* returned, even if one of its two revocations failed: RevokeAll and the   *)
(* key cover for each other, unless another change overlaps (its key, with  *)
(* an older second, may overwrite this one).                                *)
OldTokensDie ==
    \A c \in Revokers, t \in access :
        Admitted(t) /\ t.made < made[c] =>
            /\ c \in missed
            /\ c \in unset \/ \E d \in Change : Overlap(c, d)

(* If RevokeAll did its work, a token that is admitted after the change     *)
(* returned belongs to a session registered after RevokeAll began, however  *)
(* often the session was refreshed meanwhile.                               *)
OnlyLaterSessions ==
    \A c \in Revokers, t \in access :
        Admitted(t) => c \in missed \/ t.sid \notin scope[c]

(* A token the middleware has rejected is never let in later, so it does    *)
(* not matter that the middleware reads twice, and when: only the key of an *)
(* overlapping change, with an older second, can undo a revocation.         *)
NoComeback ==
    [][\A t \in access :
          ~Admitted(t) /\ Admitted(t)' => \E c, d \in Change : Overlap(c, d)]_avars

(* What the comment at admin/service.go:168-170 says: after UpdateRole has  *)
(* returned, no request passes with the old role.                           *)
RoleTakesEffect ==
    (\A c \in Change : kind[c] = "role" => step[c] = "done")
        => \A t \in access : Admitted(t) => claims[t.sid] = role
==============================================================================
