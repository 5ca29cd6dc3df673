----------------------------- MODULE SessionStore -----------------------------
(***************************************************************************)
(* internal/session: the sessions of ONE user in Redis. All keys carry the *)
(* user id or a fresh session id, so users do not interact. Every Redis    *)
(* command is one step: the handlers of concurrent requests, and of        *)
(* several instances of the server, interleave between commands.           *)
(***************************************************************************)
EXTENDS Naturals, FiniteSets

CONSTANTS
    Sid,            \* session ids, one per login
    NoSid,          \* the active_session key does not exist
    Admin,          \* callers of RevokeAll: change password, disable, new role
    SessionTTL,     \* the lifetime of the keys, in ticks
    MaxFaults       \* bound: Redis errors and abandoned handlers

ASSUME SessionAssumption ==
    /\ NoSid \notin Sid
    /\ Sid \cap Admin = {}
    /\ SessionTTL \in Nat \ {0}
    /\ MaxFaults \in Nat

(* Only finitely many calls are ever made: InFlight below counts them.       *)
ASSUME FiniteCallers == IsFiniteSet(Sid) /\ IsFiniteSet(Admin)

VARIABLES
    multiDevice, failOpen,      \* configuration, fixed when the server starts
    sessTTL,                    \* session:{sid}: ticks left, 0 = no such key
    members, setTTL,            \* sessions:uid:{uid}; setTTL 0 = never expires
    active, activeTTL,          \* active_session:uid:{uid}
    register,                   \* control of Register(s)
    revoke, revokeErr,          \* control of Revoke(s), and its errs
    revokeAll, ids, todo, allErr, \* control of RevokeAll, its ids and errs
    check,                      \* a Validate in flight
    faults,                     \* errors so far
    ended,                      \* history: sessions somebody set out to end
    revoked,                    \* history: granted sessions a nil result called ended
    dropped,                    \* history: an error of GET active was dropped
    orphaned,                   \* history: DEL session:{sid} was refused, and the
                                \* call went on to untrack the session
    overlap                     \* history: calls were not Apart, see below

config  == <<multiDevice, failOpen>>
setKey  == <<members, setTTL>>
activeKey == <<active, activeTTL>>
redis   == <<sessTTL, members, setTTL, active, activeTTL>>
revokeVars == <<revoke, revokeErr>>
allVars == <<revokeAll, ids, todo, allErr>>
losses == <<dropped, orphaned>>
history == <<ended, revoked, losses>>
vars == <<config, redis, register, revokeVars, allVars, check, faults, history, overlap>>

Caller == Sid \cup Admin        \* a single device Register calls RevokeAll too
Granted == {s \in Sid : register[s] = "in"}     \* tokens were issued for these

(***************************************************************************)
(* Redis. A command is answered, refused (an error and no effect), or      *)
(* executed without the answer arriving (an error all the same). A command *)
(* without an answer may also be sent once more: see Resend below.         *)
(***************************************************************************)
Reply == {"ok", "refused", "unanswered"}

Answer(r) ==
    /\ r # "ok" => faults < MaxFaults
    /\ faults' = IF r = "ok" THEN faults ELSE faults + 1

Executed(r) == r # "refused"

\* variant: a logout deletes every session key of the user
DelEverySession(S) == sessTTL' = [s \in Sid |-> 0]
DelSession(S) == sessTTL' = [s \in Sid |-> IF s \in S THEN 0 ELSE sessTTL[s]]

SetMembers(S) ==
    /\ members' = S
    /\ setTTL' = IF S = {} \/ members = {} THEN 0 ELSE setTTL

SetActive(s) ==
    /\ active' = s
    /\ activeTTL' = IF s = NoSid THEN 0 ELSE SessionTTL

(* What Validate computes when nothing changes under it.                    *)
Tracked(s) == IF multiDevice THEN s \in members ELSE active = s
Valid(s) == Tracked(s) \/ sessTTL[s] > 0

(***************************************************************************)
(* Register: called by every successful login with a new session id.       *)
(***************************************************************************)
RegisterAt(s, at) == register' = [register EXCEPT ![s] = at]

\* variant: single device mode forgets to end the old session
RegisterStartKeepsOld(s) ==
    /\ register[s] = "idle"
    /\ RegisterAt(s, "setSession")
    /\ UNCHANGED <<config, redis, revokeVars, allVars, check, faults, history>>

RegisterStart(s) ==
    /\ register[s] = "idle"
    /\ IF multiDevice
         THEN RegisterAt(s, "setSession") /\ UNCHANGED revokeAll
         ELSE /\ RegisterAt(s, "revokeAll")
              /\ revokeAll' = [revokeAll EXCEPT ![s] = "getActive"]
    /\ UNCHANGED <<config, redis, revokeVars, ids, todo, allErr, check, faults,
                   history>>

RegisterSet(s, r) ==
    /\ register[s] = "setSession"
    /\ Answer(r)
    /\ sessTTL' = [sessTTL EXCEPT ![s] = IF Executed(r) THEN SessionTTL ELSE @]
    /\ RegisterAt(s, IF r # "ok" THEN "failed"
                     ELSE IF multiDevice THEN "sAdd" ELSE "setActive")
    /\ UNCHANGED <<config, setKey, activeKey, revokeVars, allVars, check, history>>

RegisterSAdd(s, r) ==
    /\ register[s] = "sAdd"
    /\ Answer(r)
    /\ IF Executed(r) THEN SetMembers(members \cup {s}) ELSE UNCHANGED setKey
    /\ RegisterAt(s, IF r = "ok" THEN "expire" ELSE "failed")
    /\ UNCHANGED <<config, sessTTL, activeKey, revokeVars, allVars, check, history>>

\* variant: the set of sessions is left without a TTL
RegisterNoExpire(s, r) ==
    /\ register[s] = "expire" /\ r = "ok"
    /\ RegisterAt(s, "in")
    /\ UNCHANGED <<config, redis, revokeVars, allVars, check, faults, history>>

RegisterExpire(s, r) ==
    /\ register[s] = "expire"
    /\ Answer(r)
    /\ setTTL' = IF Executed(r) /\ members # {} THEN SessionTTL ELSE setTTL
    /\ RegisterAt(s, IF r = "ok" THEN "in" ELSE "failed")
    /\ UNCHANGED <<config, sessTTL, members, activeKey, revokeVars, allVars,
                   check, history>>

RegisterActive(s, r) ==
    /\ register[s] = "setActive"
    /\ Answer(r)
    /\ IF Executed(r) THEN SetActive(s) ELSE UNCHANGED activeKey
    /\ RegisterAt(s, IF r = "ok" THEN "in" ELSE "failed")
    /\ UNCHANGED <<config, sessTTL, setKey, revokeVars, allVars, check, history>>

(***************************************************************************)
(* Revoke: a logout of session s. The client can only name a session it    *)
(* got tokens for, and may log out again at any time.                      *)
(***************************************************************************)
RevokeStart(s) ==
    /\ register[s] = "in" /\ revoke[s] = "idle"
    /\ revoke' = [revoke EXCEPT ![s] = "delSession"]
    /\ revokeErr' = [revokeErr EXCEPT ![s] = FALSE]
    /\ ended' = ended \cup {s}
    /\ UNCHANGED <<config, redis, register, allVars, check, faults, revoked, losses>>

RevokeDel(s, r) ==
    /\ revoke[s] = "delSession"
    /\ Answer(r)
    /\ IF Executed(r) THEN DelSession({s}) ELSE UNCHANGED sessTTL
    /\ revokeErr' = [revokeErr EXCEPT ![s] = (r # "ok")]
    /\ revoke' = [revoke EXCEPT ![s] = IF multiDevice THEN "sRem" ELSE "getActive"]
    /\ orphaned' = (orphaned \/ r = "refused")
    /\ UNCHANGED <<config, setKey, activeKey, register, allVars, check, ended,
                   revoked, dropped>>

\* variant: errors are logged and nil is returned
RevokeReturnNil(s, err) ==
    /\ revoke' = [revoke EXCEPT ![s] = "idle"]
    /\ revokeErr' = [revokeErr EXCEPT ![s] = FALSE]
    /\ revoked' = revoked \cup {s}

RevokeReturn(s, err) ==
    /\ revoke' = [revoke EXCEPT ![s] = "idle"]
    /\ revokeErr' = [revokeErr EXCEPT ![s] = FALSE]
    /\ revoked' = IF err THEN revoked ELSE revoked \cup {s}

RevokeSRem(s, r) ==
    /\ revoke[s] = "sRem"
    /\ Answer(r)
    /\ IF Executed(r) THEN SetMembers(members \ {s}) ELSE UNCHANGED setKey
    /\ RevokeReturn(s, revokeErr[s] \/ r # "ok")
    /\ UNCHANGED <<config, sessTTL, activeKey, register, allVars, check, ended, losses>>

\* variant: the pointer is deleted without comparing it with s
RevokeAnyActive(s, r) ==
    /\ revoke[s] = "getActive"
    /\ Answer(r)
    /\ IF r = "ok"
         THEN /\ revoke' = [revoke EXCEPT ![s] = "delActive"]
              /\ UNCHANGED <<revokeErr, revoked>>
         ELSE RevokeReturn(s, revokeErr[s])
    /\ dropped' = (dropped \/ r # "ok")
    /\ UNCHANGED <<config, redis, register, allVars, check, ended, orphaned>>

(* An error of this GET is dropped: Revoke returns as if active were another. *)
RevokeGetActive(s, r) ==
    /\ revoke[s] = "getActive"
    /\ Answer(r)
    /\ IF r = "ok" /\ active = s
         THEN /\ revoke' = [revoke EXCEPT ![s] = "delActive"]
              /\ UNCHANGED <<revokeErr, revoked>>
         ELSE RevokeReturn(s, revokeErr[s])
    /\ dropped' = (dropped \/ r # "ok")
    /\ UNCHANGED <<config, redis, register, allVars, check, ended, orphaned>>

RevokeDelActive(s, r) ==
    /\ revoke[s] = "delActive"
    /\ Answer(r)
    /\ IF Executed(r) THEN SetActive(NoSid) ELSE UNCHANGED activeKey
    /\ RevokeReturn(s, revokeErr[s] \/ r # "ok")
    /\ UNCHANGED <<config, sessTTL, setKey, register, allVars, check, ended, losses>>

(***************************************************************************)
(* RevokeAll: by an Admin caller, or inside Register in single device mode. *)
(***************************************************************************)
AllAt(c, at) == revokeAll' = [revokeAll EXCEPT ![c] = at]

RevokeAllStart(c) ==
    /\ c \in Admin /\ revokeAll[c] = "idle"
    /\ AllAt(c, IF multiDevice THEN "sMembers" ELSE "getActive")
    /\ UNCHANGED <<config, redis, register, revokeVars, ids, todo, allErr, check,
                   faults, history>>

AllReturn(c, err, S) ==
    /\ AllAt(c, "idle")
    /\ ids' = [ids EXCEPT ![c] = {}]
    /\ todo' = [todo EXCEPT ![c] = {}]
    /\ allErr' = [allErr EXCEPT ![c] = FALSE]
    /\ revoked' = IF err THEN revoked ELSE revoked \cup (S \cap Granted)
    /\ register' = IF c \in Sid
                     THEN [register EXCEPT ![c] = IF err THEN "failed" ELSE "setSession"]
                     ELSE register

AllSMembers(c, r) ==
    /\ revokeAll[c] = "sMembers"
    /\ Answer(r)
    /\ IF r = "ok"
         THEN /\ ids' = [ids EXCEPT ![c] = members]
              /\ todo' = [todo EXCEPT ![c] = members]
              /\ AllAt(c, IF members = {} THEN "delSet" ELSE "delSession")
              /\ ended' = ended \cup members
              /\ UNCHANGED <<register, allErr, revoked>>
         ELSE AllReturn(c, TRUE, {}) /\ UNCHANGED ended
    /\ UNCHANGED <<config, redis, revokeVars, check, losses>>

AllDelSession(c, s, r) ==
    /\ revokeAll[c] = "delSession" /\ s \in todo[c]
    /\ Answer(r)
    /\ IF Executed(r) THEN DelSession({s}) ELSE UNCHANGED sessTTL
    /\ todo' = [todo EXCEPT ![c] = @ \ {s}]
    /\ allErr' = [allErr EXCEPT ![c] = @ \/ r # "ok"]
    /\ orphaned' = (orphaned \/ r = "refused")
    /\ AllAt(c, IF todo[c] = {s} THEN "delSet" ELSE "delSession")
    /\ UNCHANGED <<config, setKey, activeKey, register, revokeVars, ids, check,
                   ended, revoked, dropped>>

\* variant: the set itself is not deleted
AllKeepSet(c, r) ==
    /\ revokeAll[c] = "delSet" /\ r = "ok"
    /\ AllReturn(c, allErr[c], ids[c])
    /\ UNCHANGED <<config, redis, revokeVars, check, faults, ended, losses>>

AllDelSet(c, r) ==
    /\ revokeAll[c] = "delSet"
    /\ Answer(r)
    /\ IF Executed(r) THEN SetMembers({}) ELSE UNCHANGED setKey
    /\ AllReturn(c, allErr[c] \/ r # "ok", ids[c])
    /\ UNCHANGED <<config, sessTTL, activeKey, revokeVars, check, ended, losses>>

(* An error of this GET is dropped too: RevokeAll returns nil.               *)
AllGetActive(c, r) ==
    /\ revokeAll[c] = "getActive"
    /\ Answer(r)
    /\ IF r = "ok" /\ active # NoSid
         THEN /\ ids' = [ids EXCEPT ![c] = {active}]
              /\ AllAt(c, "delActive")
              /\ ended' = ended \cup {active}
              /\ UNCHANGED <<register, todo, allErr, revoked>>
         ELSE AllReturn(c, FALSE, {}) /\ UNCHANGED ended
    /\ dropped' = (dropped \/ r # "ok")
    /\ UNCHANGED <<config, redis, revokeVars, check, orphaned>>

\* variant: the session deleted is the one active now, not the one that was read
AllDelCurrent(c, r) ==
    /\ revokeAll[c] = "delActive"
    /\ Answer(r)
    /\ IF Executed(r)
         THEN DelSession({active}) /\ SetActive(NoSid)
         ELSE UNCHANGED <<sessTTL, activeKey>>
    /\ AllReturn(c, r # "ok", ids[c])
    /\ UNCHANGED <<config, setKey, revokeVars, check, ended, losses>>

AllDelActive(c, r) ==
    /\ revokeAll[c] = "delActive"
    /\ Answer(r)
    /\ IF Executed(r)
         THEN DelSession(ids[c]) /\ SetActive(NoSid)
         ELSE UNCHANGED <<sessTTL, activeKey>>
    /\ AllReturn(c, r # "ok", ids[c])
    /\ UNCHANGED <<config, setKey, revokeVars, check, ended, losses>>

(***************************************************************************)
(* The Redis client is built with its defaults and sends a command again   *)
(* when the answer is late: the command is executed, and the handler is    *)
(* still where it was. To read twice is the same as to read late.          *)
(***************************************************************************)
ResendRegister(s) ==
    /\ Answer("unanswered")
    /\ \/ /\ register[s] = "setSession"
          /\ sessTTL' = [sessTTL EXCEPT ![s] = SessionTTL]
          /\ UNCHANGED <<setKey, activeKey>>
       \/ /\ register[s] = "sAdd"
          /\ SetMembers(members \cup {s})
          /\ UNCHANGED <<sessTTL, activeKey>>
       \/ /\ register[s] = "expire" /\ members # {}
          /\ setTTL' = SessionTTL
          /\ UNCHANGED <<sessTTL, members, activeKey>>
       \/ /\ register[s] = "setActive"
          /\ SetActive(s)
          /\ UNCHANGED <<sessTTL, setKey>>
    /\ UNCHANGED <<config, register, revokeVars, allVars, check, history>>

ResendRevoke(s) ==
    /\ Answer("unanswered")
    /\ \/ /\ revoke[s] = "delSession"
          /\ DelSession({s})
          /\ UNCHANGED <<setKey, activeKey>>
       \/ /\ revoke[s] = "sRem"
          /\ SetMembers(members \ {s})
          /\ UNCHANGED <<sessTTL, activeKey>>
       \/ /\ revoke[s] = "delActive"
          /\ SetActive(NoSid)
          /\ UNCHANGED <<sessTTL, setKey>>
    /\ UNCHANGED <<config, register, revokeVars, allVars, check, history>>

ResendRevokeAll(c) ==
    /\ Answer("unanswered")
    /\ \/ /\ revokeAll[c] = "delSession"
          /\ \E s \in todo[c] : DelSession({s})
          /\ UNCHANGED <<setKey, activeKey>>
       \/ /\ revokeAll[c] = "delSet"
          /\ SetMembers({})
          /\ UNCHANGED <<sessTTL, activeKey>>
       \/ /\ revokeAll[c] = "delActive"
          /\ DelSession(ids[c]) /\ SetActive(NoSid)
          /\ UNCHANGED setKey
    /\ UNCHANGED <<config, register, revokeVars, allVars, check, history>>

(***************************************************************************)
(* A handler disappears: its server dies between two commands.             *)
(***************************************************************************)
AbandonRegister(s) ==
    /\ register[s] \notin {"idle", "in", "failed"}
    /\ Answer("refused")
    /\ RegisterAt(s, "failed")
    /\ AllAt(s, "idle") /\ ids' = [ids EXCEPT ![s] = {}]
    /\ UNCHANGED <<config, redis, revokeVars, todo, allErr, check, history>>

AbandonRevoke(s) ==
    /\ revoke[s] # "idle"
    /\ Answer("refused")
    /\ RevokeReturn(s, TRUE)
    /\ UNCHANGED <<config, redis, register, allVars, check, ended, losses>>

AbandonRevokeAll(c) ==
    /\ c \in Admin /\ revokeAll[c] # "idle"
    /\ Answer("refused")
    /\ AllReturn(c, TRUE, {})
    /\ UNCHANGED <<config, redis, revokeVars, check, ended, losses>>

(***************************************************************************)
(* Validate: two reads. Validates do not influence one another, so one in  *)
(* flight stands for any number. "promised" remembers that the session was *)
(* already reported as ended when the call began.                          *)
(***************************************************************************)
Checks == [at : {"idle", "tracked", "fallback", "accepted", "rejected"},
           sid : Sid \cup {NoSid}, err : BOOLEAN, promised : BOOLEAN]

NoCheck == [at |-> "idle", sid |-> NoSid, err |-> FALSE, promised |-> FALSE]

ValidateStart(s) ==
    /\ check.at = "idle" /\ register[s] = "in"
    /\ check' = [at |-> "tracked", sid |-> s, err |-> FALSE,
                 promised |-> s \in revoked]
    /\ UNCHANGED <<config, redis, register, revokeVars, allVars, faults, history>>

ValidateTracked(r) ==
    /\ check.at = "tracked"
    /\ Answer(r)
    /\ check' = [check EXCEPT
                   !.at = IF r = "ok" /\ Tracked(check.sid) THEN "accepted"
                                                            ELSE "fallback",
                   !.err = (r # "ok")]
    /\ UNCHANGED <<config, redis, register, revokeVars, allVars, history>>

\* variant: an error is let through although failOpen is off
FallbackAlwaysOpen(r) ==
    /\ check.at = "fallback"
    /\ Answer(r)
    /\ check' = [check EXCEPT
                   !.at = IF r = "ok" /\ sessTTL[check.sid] = 0 /\ ~check.err
                            THEN "rejected" ELSE "accepted",
                   !.err = @ \/ r # "ok"]
    /\ UNCHANGED <<config, redis, register, revokeVars, allVars, history>>

\* variant: no look at the session key, only at the set or the active pointer
NoFallback(r) ==
    /\ check.at = "fallback"
    /\ Answer(r)
    /\ LET err == check.err \/ r # "ok"
       IN  check' = [check EXCEPT !.at = IF err /\ failOpen THEN "accepted"
                                                            ELSE "rejected",
                                  !.err = err]
    /\ UNCHANGED <<config, redis, register, revokeVars, allVars, history>>

ValidateFallback(r) ==
    /\ check.at = "fallback"
    /\ Answer(r)
    /\ LET found == r = "ok" /\ sessTTL[check.sid] > 0
           err   == check.err \/ r # "ok"
       IN  check' = [check EXCEPT
                       !.at = IF found \/ (err /\ failOpen) THEN "accepted"
                                                            ELSE "rejected",
                       !.err = err]
    /\ UNCHANGED <<config, redis, register, revokeVars, allVars, history>>

ValidateEnd ==
    /\ check.at \in {"accepted", "rejected"}
    /\ check' = NoCheck
    /\ UNCHANGED <<config, redis, register, revokeVars, allVars, faults, history>>

(***************************************************************************)
(* Time: every key counts down together; at zero it is gone.               *)
(***************************************************************************)
\* variant: counts on below zero
LessUnguarded(n) == n - 1
Less(n) == IF n = 0 THEN 0 ELSE n - 1

Tick ==
    /\ sessTTL' = [s \in Sid |-> Less(sessTTL[s])]
    /\ setTTL' = Less(setTTL)
    /\ members' = IF setTTL = 1 THEN {} ELSE members
    /\ activeTTL' = Less(activeTTL)
    /\ active' = IF activeTTL = 1 THEN NoSid ELSE active
    /\ ended' = ended \cup {s \in Sid : sessTTL[s] = 1}
    /\ UNCHANGED <<config, register, revokeVars, allVars, check, faults, revoked,
                   losses>>

Init ==
    /\ multiDevice \in BOOLEAN /\ failOpen \in BOOLEAN
    /\ sessTTL = [s \in Sid |-> 0]
    /\ members = {} /\ setTTL = 0
    /\ active = NoSid /\ activeTTL = 0
    /\ register = [s \in Sid |-> "idle"]
    /\ revoke = [s \in Sid |-> "idle"]
    /\ revokeErr = [s \in Sid |-> FALSE]
    /\ revokeAll = [c \in Caller |-> "idle"]
    /\ ids = [c \in Caller |-> {}] /\ todo = [c \in Caller |-> {}]
    /\ allErr = [c \in Caller |-> FALSE]
    /\ check = NoCheck
    /\ faults = 0
    /\ ended = {} /\ revoked = {} /\ dropped = FALSE /\ orphaned = FALSE
    /\ overlap = FALSE

Register(s) ==
    \/ RegisterStart(s)
    \/ \E r \in Reply : \/ RegisterSet(s, r) \/ RegisterSAdd(s, r)
                        \/ RegisterExpire(s, r) \/ RegisterActive(s, r)

Revoke(s) ==
    \/ RevokeStart(s)
    \/ \E r \in Reply : \/ RevokeDel(s, r) \/ RevokeSRem(s, r)
                        \/ RevokeGetActive(s, r) \/ RevokeDelActive(s, r)

RevokeAll(c) ==
    \/ RevokeAllStart(c)
    \/ \E r \in Reply :
         \/ AllSMembers(c, r) \/ AllDelSet(c, r)
         \/ AllGetActive(c, r) \/ AllDelActive(c, r)
         \/ \E s \in Sid : AllDelSession(c, s, r)

Validate ==
    \/ \E s \in Sid : ValidateStart(s)
    \/ \E r \in Reply : ValidateTracked(r) \/ ValidateFallback(r)
    \/ ValidateEnd

Abandon ==
    \/ \E s \in Sid : AbandonRegister(s) \/ AbandonRevoke(s)
    \/ \E c \in Admin : AbandonRevokeAll(c)

Resend ==
    \/ \E s \in Sid : ResendRegister(s) \/ ResendRevoke(s)
    \/ \E c \in Caller : ResendRevokeAll(c)

Write ==
    \/ \E s \in Sid : Register(s) \/ Revoke(s)
    \/ \E c \in Caller : RevokeAll(c)
    \/ Abandon \/ Resend

(***************************************************************************)
(* Apart: nothing overlaps a RevokeAll, which is part of every login in    *)
(* single device mode, so there calls come one at a time, and no call is   *)
(* in flight when time passes. In multi device mode logins and logouts     *)
(* overlap as they like. (A Validate only reads and overlaps anything.)    *)
(***************************************************************************)
Registering == {s \in Sid : register[s] \notin {"idle", "in", "failed"}}
InFlight == Cardinality(Registering)
            + Cardinality({s \in Sid : revoke[s] # "idle"})
            + Cardinality({c \in Admin : revokeAll[c] # "idle"})
NoAll == \A c \in Caller : revokeAll[c] = "idle"
Apart == InFlight <= 1 \/ (multiDevice /\ NoAll)

Next ==
    \/ (Write \/ Validate) /\ overlap' = (overlap \/ ~Apart')
    \/ Tick /\ overlap' = (overlap \/ InFlight > 0)

Spec == Init /\ [][Next]_vars

-------------------------------------------------------------------------------
Live    == {s \in Granted : Valid(s)}
Lossy   == dropped \/ orphaned

(* Every variable stays in its type.                                        *)
TypeOK ==
    /\ multiDevice \in BOOLEAN /\ failOpen \in BOOLEAN
    /\ sessTTL \in [Sid -> 0..SessionTTL]
    /\ members \subseteq Sid /\ setTTL \in 0..SessionTTL
    /\ active \in Sid \cup {NoSid} /\ activeTTL \in 0..SessionTTL
    /\ register \in [Sid -> {"idle", "revokeAll", "setSession", "sAdd", "expire",
                             "setActive", "in", "failed"}]
    /\ revoke \in [Sid -> {"idle", "delSession", "sRem", "getActive", "delActive"}]
    /\ revokeErr \in [Sid -> BOOLEAN]
    /\ revokeAll \in [Caller -> {"idle", "sMembers", "delSession", "delSet",
                                 "getActive", "delActive"}]
    /\ ids \in [Caller -> SUBSET Sid] /\ todo \in [Caller -> SUBSET Sid]
    /\ allErr \in [Caller -> BOOLEAN]
    /\ check \in Checks
    /\ faults \in 0..MaxFaults
    /\ ended \subseteq Sid /\ revoked \subseteq Sid /\ dropped \in BOOLEAN
    /\ orphaned \in BOOLEAN /\ overlap \in BOOLEAN

(* A granted session that Revoke or RevokeAll reported as ended (nil) is     *)
(* never valid again, whatever runs or is sent twice beside it: nothing      *)
(* writes it back. (A session still being registered may be: its SADD or SET *)
(* may be sent again.) In single device mode this needs that no error of     *)
(* GET active was dropped.                                                   *)
RevokedStaysDead == \A s \in revoked : multiDevice \/ ~dropped => ~Valid(s)

(* A session for which tokens were issued keeps its session key until a     *)
(* logout of this session, a revoke-all that read it or its TTL ends it:    *)
(* other logins, logouts and failures of the same user do not log it out.   *)
LoginSurvives == \A s \in Granted \ ended : sessTTL[s] > 0

(* Validate, two reads apart in time, does not accept a session that was    *)
(* reported as ended before the call, unless a Redis error met failOpen.    *)
NoLateAccept ==
    check.at = "accepted" /\ check.promised /\ (multiDevice \/ ~dropped)
        => check.err /\ failOpen

(* Validate rejects only sessions that were to end, or fails closed.        *)
NoFalseReject ==
    check.at = "rejected" => check.sid \in ended \/ (check.err /\ ~failOpen)

(* Whatever runs concurrently and fails: no session ends unasked, and none  *)
(* that ended comes back.                                                   *)
Registry == INSTANCE SessionRegistry WITH
    granted <- Granted, doomed <- ended, live <- Live
OneWayLife == Registry!RSpec

(* Single device mode: a granted login leaves no other session of the user  *)
(* valid (errors of GET active apart). Package doc line 4, docs/session.md:20. *)
SingleDevice ==
    ~multiDevice /\ ~Lossy => Cardinality(Live) <= 1

(* It holds as long as the calls have come one at a time.                   *)
OneDevice == ~overlap => SingleDevice

(* Unless a RevokeAll was overlapped, what RevokeAll looks up names every   *)
(* valid session, so none can hide from the next one, however logins and    *)
(* logouts of several devices overlap. Failed commands keep this, except    *)
(* for the two kinds that make Lossy true.                                  *)
EverySessionTracked == ~overlap /\ ~Lossy => \A s \in Live : Tracked(s)

(* A RevokeAll that nothing overlaps and that returns nil leaves the user   *)
(* without a valid session.                                                 *)
LeavesNone ==
    \A c \in Admin :
        /\ revokeAll[c] # "idle" /\ revokeAll'[c] = "idle"
        /\ faults' = faults /\ ~allErr[c] /\ ~Lossy' /\ ~overlap'
        => Live' = {}
RevokeAllLeavesNone == [][LeavesNone]_vars

(* How long Validate will go on accepting s. A set without a TTL, which the *)
(* set is between SADD and EXPIRE, never ends.                              *)
TrackedFor(s) ==
    IF ~Tracked(s) THEN 0
    ELSE IF ~multiDevice THEN activeTTL
    ELSE IF setTTL = 0 THEN SessionTTL + 1 ELSE setTTL
Left(s) == IF sessTTL[s] > TrackedFor(s) THEN sessTTL[s] ELSE TrackedFor(s)

(* Time ends every session: it never has more than the TTL left, whatever   *)
(* failed or died between SADD and EXPIRE, and a tick takes one off. Only   *)
(* the EXPIRE of another login of the user puts something back: it renews   *)
(* the set with all its members (session.go:71, :96).                       *)
LapsesStep ==
    /\ \A s \in Granted' : Left(s)' <= SessionTTL
    /\ \A s \in Granted :
          /\ Tick => Left(s)' = Less(Left(s))
          /\ \/ Left(s)' <= Left(s)
             \/ multiDevice /\ \E t \in Sid \ {s} : register[t] = "expire"
OnlyLoginsRenew == [][LapsesStep]_vars
===============================================================================
