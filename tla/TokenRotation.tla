---------------------------- MODULE TokenRotation ----------------------------
(***************************************************************************)
(* Refresh and Logout of internal/service/auth/token.go: refresh tokens    *)
(* rotate, a used one is blacklisted in Redis. The sessions are those of   *)
(* SessionRegistry, which SessionStore implements. A JWT carries no unique *)
(* id and its times are whole seconds, so a token IS its claims: two       *)
(* tokens of one session issued in the same second are the same string.    *)
(***************************************************************************)
EXTENDS SessionRegistry, Naturals, FiniteSets

CONSTANTS
    Request,        \* concurrent Refresh and Logout requests
    RefreshTTL,     \* JWT_REFRESH_TTL, in seconds like the others
    BlacklistTTL,   \* refreshBlacklistTTL
    MaxNow,         \* bound: the clock
    MaxFaults       \* bound: Redis errors and abandoned requests

ASSUME RotationAssumption ==
    /\ Sid # {}
    /\ RefreshTTL \in Nat \ {0} /\ BlacklistTTL \in Nat \ {0}
    /\ MaxNow \in Nat /\ MaxFaults \in Nat

VARIABLES
    now,            \* seconds
    failOpen,       \* session checks pass when Redis fails
    tokens,         \* refresh tokens handed to clients
    black,          \* blacklist:refresh:{hash}: when the key expires, 0 = never set
    at, tok, since, \* the requests: control, their token, when it was parsed
    blackErr,       \* Logout's SET failed
    spent,          \* history: until when a token that won a SETNX is blacklisted
    loggedOut,      \* history: the same of a token whose Logout returned nil
    replayed,       \* history: sessions of which a token won the SETNX twice
    faults

requests == <<at, tok, since, blackErr>>
history == <<spent, loggedOut, replayed>>
tvars == <<rvars, now, failOpen, tokens, black, requests, history, faults>>

Token == [sid : Sid, iat : 0..MaxNow]
Label == {"idle", "lookup", "validate", "claim", "issue", "blacklist", "revoke"}
NoToken == CHOOSE t \in Token : TRUE     \* what an idle request holds
SignedNow(s) == [sid |-> s, iat |-> now]
Exp(t) == t.iat + RefreshTTL
Blacklisted(t) == black[t] > now
Usable(t) == now < Exp(t) /\ ~Blacklisted(t)

(* Redis answers, refuses, or executes a command whose answer is lost.      *)
Reply == {"ok", "refused", "unanswered"}
Answer(r) ==
    /\ r # "ok" => faults < MaxFaults
    /\ faults' = IF r = "ok" THEN faults ELSE faults + 1
SetBlack(t, r) ==
    black' = IF r = "refused" THEN black
             ELSE [black EXCEPT ![t] = now + BlacklistTTL]

(* A Refresh has used a token, perhaps for the second time.                 *)
Spend(t) ==
    /\ spent' = [spent EXCEPT ![t] = now + BlacklistTTL]
    /\ replayed' = IF spent[t] = 0 THEN replayed ELSE replayed \cup {t.sid}
Unspent == UNCHANGED <<spent, replayed>>

Goes(h, label) == at' = [at EXCEPT ![h] = label]
Receives(h, t, label) ==
    /\ at[h] = "idle" /\ t \in tokens
    /\ Goes(h, label)
    /\ tok' = [tok EXCEPT ![h] = t]
    /\ since' = [since EXCEPT ![h] = now]
    /\ blackErr' = blackErr
Keeps == UNCHANGED <<tok, since, blackErr>>
Ends(h) ==
    /\ Goes(h, "idle")
    /\ tok' = [tok EXCEPT ![h] = NoToken]
    /\ since' = [since EXCEPT ![h] = 0]
    /\ blackErr' = [blackErr EXCEPT ![h] = FALSE]
Continues(h, condition, label) ==
    IF condition THEN Goes(h, label) /\ Keeps ELSE Ends(h)

(* A login: Register a new session, then sign the first pair of tokens.     *)
Login(s) ==
    /\ Grant(s)
    /\ tokens' = tokens \cup {SignedNow(s)}
    /\ UNCHANGED <<now, failOpen, black, requests, history, faults>>

(***************************************************************************)
(* Refresh: parse, look the user up, Validate, SETNX, sign.                *)
(***************************************************************************)
RefreshStart(h, t) ==
    /\ now < Exp(t)
    /\ Receives(h, t, "lookup")
    /\ UNCHANGED <<rvars, now, failOpen, tokens, black, history, faults>>

(* The row may be gone or disabled, or the query may fail: nothing is claimed. *)
RefreshLookup(h) ==
    /\ at[h] = "lookup"
    /\ \E found \in BOOLEAN : Continues(h, found, "validate")
    /\ UNCHANGED <<rvars, now, failOpen, tokens, black, history, faults>>

RefreshValidate(h, r) ==
    /\ at[h] = "validate"
    /\ Answer(r)
    /\ Continues(h, IF r = "ok" THEN tok[h].sid \in live ELSE failOpen, "claim")
    /\ UNCHANGED <<rvars, now, failOpen, tokens, black, history>>

\* variant: a plain SET after a look that was made earlier
ClaimWithoutNX(h, r) ==
    /\ at[h] = "claim"
    /\ Answer(r)
    /\ SetBlack(tok[h], r)
    /\ Continues(h, r = "ok", "issue")
    /\ IF r = "ok" THEN Spend(tok[h]) ELSE Unspent
    /\ UNCHANGED <<rvars, now, failOpen, tokens, loggedOut>>

\* variant: an error of the blacklist does not stop the rotation
ClaimFailOpen(h, r) ==
    /\ at[h] = "claim"
    /\ Answer(r)
    /\ IF Blacklisted(tok[h]) /\ r = "ok"
         THEN Ends(h) /\ Unspent /\ UNCHANGED black
         ELSE /\ SetBlack(tok[h], r)
              /\ Continues(h, TRUE, "issue")
              /\ IF r = "ok" THEN Spend(tok[h]) ELSE Unspent
    /\ UNCHANGED <<rvars, now, failOpen, tokens, loggedOut>>

RefreshClaim(h, r) ==
    /\ at[h] = "claim"
    /\ Answer(r)
    /\ IF Blacklisted(tok[h])
         THEN Ends(h) /\ Unspent /\ UNCHANGED black
         ELSE /\ SetBlack(tok[h], r)
              /\ Continues(h, r = "ok", "issue")
              /\ IF r = "ok" THEN Spend(tok[h]) ELSE Unspent
    /\ UNCHANGED <<rvars, now, failOpen, tokens, loggedOut>>

\* variant: the new token takes over the times of the old one
IssueSameTimes(h) ==
    /\ at[h] = "issue"
    /\ tokens' = tokens \cup {tok[h]}
    /\ Ends(h)
    /\ UNCHANGED <<rvars, now, failOpen, black, history, faults>>

\* variant: the new token starts where the old one ends
IssueFromExpiry(h) ==
    /\ at[h] = "issue"
    /\ tokens' = tokens \cup {[sid |-> tok[h].sid, iat |-> Exp(tok[h])]}
    /\ Ends(h)
    /\ UNCHANGED <<rvars, now, failOpen, black, history, faults>>

RefreshIssue(h) ==
    /\ at[h] = "issue"
    /\ tokens' = tokens \cup {SignedNow(tok[h].sid)}
    /\ Ends(h)
    /\ UNCHANGED <<rvars, now, failOpen, black, history, faults>>

(***************************************************************************)
(* Logout: SET the blacklist key, whatever the token; if the token could   *)
(* be parsed, Revoke its session. The first error does not stop the second. *)
(***************************************************************************)
LogoutStart(h, t) ==
    /\ Receives(h, t, "blacklist")
    /\ UNCHANGED <<rvars, now, failOpen, tokens, black, history, faults>>

LogoutReturn(h, err) ==
    /\ Ends(h)
    /\ loggedOut' = IF err THEN loggedOut
                    ELSE [loggedOut EXCEPT ![tok[h]] = since[h] + BlacklistTTL]

\* variant: only the session counts, a failure of the blacklist is forgotten
LogoutForgetsError(h, r) ==
    /\ at[h] = "blacklist"
    /\ Answer(r)
    /\ SetBlack(tok[h], r)
    /\ Goes(h, "revoke") /\ Keeps
    /\ UNCHANGED <<rvars, now, failOpen, tokens, history>>

LogoutBlacklist(h, r) ==
    /\ at[h] = "blacklist"
    /\ Answer(r)
    /\ SetBlack(tok[h], r)
    /\ IF since[h] < Exp(tok[h])
         THEN /\ Goes(h, "revoke")
              /\ blackErr' = [blackErr EXCEPT ![h] = (r # "ok")]
              /\ UNCHANGED <<tok, since, loggedOut>>
         ELSE LogoutReturn(h, r # "ok")
    /\ UNCHANGED <<rvars, now, failOpen, tokens, spent, replayed>>

LogoutRevoke(h, r) ==
    /\ at[h] = "revoke"
    /\ Answer(r)
    /\ Doom({tok[h].sid})
    /\ r = "ok" => tok[h].sid \notin live'
    /\ LogoutReturn(h, blackErr[h] \/ r # "ok")
    /\ UNCHANGED <<now, failOpen, tokens, black, spent, replayed>>

(* The Redis client sends a SET or SETNX again when its answer is late. A    *)
(* Refresh may then find the token taken by itself.                         *)
ResendBlack(h) ==
    /\ at[h] = "blacklist" \/ (at[h] = "claim" /\ ~Blacklisted(tok[h]))
    /\ Answer("unanswered")
    /\ SetBlack(tok[h], "unanswered")
    /\ UNCHANGED <<rvars, now, failOpen, tokens, requests, history>>

(* A request dies with its server, or signing fails.                        *)
Abandon(h) ==
    /\ at[h] # "idle"
    /\ Answer("refused")
    /\ Ends(h)
    /\ UNCHANGED <<rvars, now, failOpen, tokens, black, history>>

(* Another login, a password change, a disabled account or the TTL.         *)
SessionEnds(s) ==
    /\ s \in live
    /\ Doom({s}) /\ s \notin live'
    /\ UNCHANGED <<now, failOpen, tokens, black, requests, history, faults>>

(* A second passes, whatever is in flight.                                  *)
Tick ==
    /\ now < MaxNow
    /\ now' = now + 1
    /\ UNCHANGED <<rvars, failOpen, tokens, black, requests, history, faults>>

TInit ==
    /\ RInit
    /\ now = 0 /\ failOpen \in BOOLEAN
    /\ tokens = {} /\ black = [t \in Token |-> 0]
    /\ at = [h \in Request |-> "idle"]
    /\ tok = [h \in Request |-> NoToken]
    /\ since = [h \in Request |-> 0] /\ blackErr = [h \in Request |-> FALSE]
    /\ spent = [t \in Token |-> 0] /\ loggedOut = [t \in Token |-> 0]
    /\ replayed = {} /\ faults = 0

Refresh(h) ==
    \/ \E t \in tokens : RefreshStart(h, t)
    \/ RefreshLookup(h) \/ RefreshIssue(h)
    \/ \E r \in Reply : RefreshValidate(h, r) \/ RefreshClaim(h, r)

Logout(h) ==
    \/ \E t \in tokens : LogoutStart(h, t)
    \/ \E r \in Reply : LogoutBlacklist(h, r) \/ LogoutRevoke(h, r)

TNext ==
    \/ \E h \in Request : Refresh(h) \/ Logout(h) \/ ResendBlack(h) \/ Abandon(h)
    \/ \E s \in Sid : Login(s) \/ SessionEnds(s)
    \/ Tick

TSpec == TInit /\ [][TNext]_tvars

------------------------------------------------------------------------------
(* The type of every variable; no token is signed in the future.            *)
TokenTypeOK ==
    /\ granted \subseteq Sid /\ doomed \subseteq Sid /\ live \subseteq granted
    /\ now \in 0..MaxNow /\ failOpen \in BOOLEAN
    /\ tokens \subseteq Token /\ \A t \in tokens : t.iat <= now
    /\ black \in [Token -> 0..(MaxNow + BlacklistTTL)]
    /\ at \in [Request -> Label]
    /\ tok \in [Request -> Token] /\ since \in [Request -> 0..MaxNow]
    /\ blackErr \in [Request -> BOOLEAN]
    /\ spent \in [Token -> 0..(MaxNow + BlacklistTTL)]
    /\ loggedOut \in [Token -> 0..(MaxNow + BlacklistTTL)]
    /\ replayed \subseteq Sid
    /\ faults \in 0..MaxFaults

Claims(h) == at[h] = "claim" /\ at'[h] = "issue"

(* A blacklisted token is out until its entry ends. By then it has expired, *)
(* unless it was parsed as long before as the entry is shorter than the     *)
(* token: not at all for a longer token, a moment ago for the default.      *)
EntryEnded(h, until) ==
    /\ until[tok[h]] <= now
    /\ until[tok[h]] > 0 => since[h] + BlacklistTTL < now + RefreshTTL

(* Of the Refresh calls with one token a second one can succeed only after  *)
(* the whole BlacklistTTL, and only by a token that outlives its entry or a *)
(* call that took longer than the entry outlives the token (token.go:47-58). *)
SingleUse ==
    [][\A h \in Request : Claims(h) => EntryEnded(h, spent)]_tvars

(* The same of a token whose Logout returned nil, even when the session     *)
(* check fails open.                                                        *)
NoRefreshAfterLogout ==
    [][\A h \in Request : Claims(h) => EntryEnded(h, loggedOut)]_tvars

(* A refresh token is exchanged once, as docs/redis-keys.md:55 has it: the  *)
(* entry lives as long as the token (the code: seven days, token.go:17).    *)
UsedOnce == [][\A h \in Request : Claims(h) => spent[tok[h]] = 0]_tvars

(* A used token that has not expired when its blacklist entry ends.         *)
LeftOver(t) == spent[t] > 0 /\ spent[t] <= now /\ spent[t] < Exp(t)

(* Rotation: a session never has two refresh tokens that could be used,     *)
(* unless one of them has outlived its entry.                               *)
OneUsable ==
    \A t, u \in tokens :
        t.sid = u.sid /\ Usable(t) /\ Usable(u) =>
            t = u \/ LeftOver(t) \/ LeftOver(u) \/ t.sid \in replayed

Issues(h) == at[h] = "issue" /\ at'[h] = "idle" /\ faults' = faults

(* The refresh token a Refresh returns can be used, if the one it replaces  *)
(* was signed in an earlier second and none was used twice.                 *)
RotationWorks ==
    [][\A h \in Request : Issues(h) /\ tok[h].iat < now /\ tok[h].sid \notin replayed
          => SignedNow(tok[h].sid) \in tokens' /\ Usable(SignedNow(tok[h].sid))]_tvars

(* The same for every Refresh: the pair it returns is a working pair.       *)
EveryRotationWorks ==
    [][\A h \in Request : Issues(h) => Usable(SignedNow(tok[h].sid))]_tvars
==============================================================================
