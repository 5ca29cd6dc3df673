------------------------------- MODULE AppleKeys -------------------------------
(***************************************************************************)
(* internal/oauth/apple.go: the cache of Apple's signing keys. A request   *)
(* with an unknown key id refreshes it, unless the last success is younger *)
(* than an interval; requests that refresh at the same time share one HTTP *)
(* call, made with the context of the one that began it.                   *)
(*                                                                         *)
(* A key is known by the number of its rotation; 0 is an id Apple never    *)
(* used.                                                                   *)
(***************************************************************************)
EXTENDS Naturals, FiniteSets

CONSTANTS
    Request,        \* requests at the same time; each begins anew
    Interval,       \* jwksRefreshMinInterval, in ticks
    MaxKeys,        \* bound: keys Apple uses one after the other
    MaxFaults       \* bound: failing calls and statements

VARIABLES
    published,      \* the key Apple signs with and publishes
    cached,         \* AppleProvider.jwks: the key in the cache, 0 = none
    throttle,       \* lastRefresh: ticks until a refresh is allowed again
    leader,         \* singleflight: the requests that runs the shared call
    answer,         \* the key in Apple's answer to it, 0 = not asked yet
    window, extra,  \* history: what is left of the interval since the last
                    \* success; calls to Apple within one since the first one
    req, faults

keys == <<published, cached, throttle, leader, answer, window, extra>>

Idle == [at |-> "idle", want |-> {}, genuine |-> TRUE, kid |-> 0, user |-> 0, res |-> "none"]
Goes(h, label) == req' = [req EXCEPT ![h].at = label]

(* A request that has ended keeps its result until it begins anew; what it  *)
(* presented is kept only with a result that is about it.                   *)
Result(h, result, user) ==
    IF result \in {"ok", "exists"}
    THEN [req[h] EXCEPT !.at = "idle", !.kid = 0, !.res = result, !.user = user]
    ELSE [Idle EXCEPT !.res = result]
Ends(h, result, user) == req' = [req EXCEPT ![h] = Result(h, result, user)]
At(h, label) == req[h].at = label
(* The key is known: with it the signature is checked.                      *)
Knows(h) == cached # 0 /\ req[h].kid = cached
Verified(h) == IF req[h].genuine THEN Goes(h, "lookup") ELSE Ends(h, "invalid", 0)
Fault == faults < MaxFaults /\ faults' = faults + 1

\* variant: the throttle is not looked at
LookupImpatient(h) ==
    /\ At(h, "key")
    /\ IF Knows(h) THEN Verified(h) ELSE Goes(h, "join")
    /\ UNCHANGED <<keys, faults>>

(* publicKey under the read lock: the key, and whether to refresh.          *)
KeyLookup(h) ==
    /\ At(h, "key")
    /\ CASE Knows(h) -> Verified(h)
         [] ~Knows(h) /\ throttle > 0 -> Ends(h, "invalid", 0)
         [] OTHER -> Goes(h, "join")
    /\ UNCHANGED <<keys, faults>>

(* singleflight.Do: run the call, or wait for the one that is running.      *)
Join(h) ==
    /\ At(h, "join")
    /\ leader' = IF leader = {} THEN {h} ELSE leader
    /\ Goes(h, "wait")
    /\ UNCHANGED <<published, cached, throttle, answer, window, extra, faults>>

(* refreshJWKS asks Apple.                                                  *)
AskApple ==
    /\ leader # {} /\ answer = 0
    /\ answer' = published
    /\ extra' = IF window > 0 THEN extra + 1 ELSE extra
    /\ UNCHANGED <<published, cached, throttle, leader, window, req, faults>>

Waiting == {h \in Request : At(h, "wait")}

(* The call fails, or its leader's client has gone: all that wait fail, and *)
(* their tokens count as invalid.                                           *)
RefreshFails ==
    /\ leader # {}
    /\ Fault
    /\ leader' = {} /\ answer' = 0
    /\ req' = [h \in Request |->
                 IF h \in Waiting THEN Result(h, "invalid", 0) ELSE req[h]]
    /\ UNCHANGED <<published, cached, throttle, window, extra>>

(* The answer replaces the cache, and only now the throttle begins.         *)
Refreshed ==
    /\ leader # {} /\ answer # 0
    /\ cached' = answer /\ throttle' = Interval /\ window' = Interval
    /\ leader' = {} /\ answer' = 0
    /\ req' = [h \in Request |->
                 IF h \in Waiting THEN [req[h] EXCEPT !.at = "reread"] ELSE req[h]]
    /\ UNCHANGED <<published, extra, faults>>

Reread(h) ==
    /\ At(h, "reread")
    /\ IF Knows(h) THEN Verified(h) ELSE Ends(h, "invalid", 0)
    /\ UNCHANGED <<keys, faults>>

Rotate ==
    /\ published < MaxKeys
    /\ published' = published + 1
    /\ UNCHANGED <<cached, throttle, leader, answer, window, extra, req, faults>>

Minute ==
    /\ window > 0
    /\ window' = window - 1
    /\ throttle' = IF throttle = 0 THEN 0 ELSE throttle - 1
    /\ extra' = IF window = 1 THEN 0 ELSE extra
    /\ UNCHANGED <<published, cached, leader, answer, req, faults>>

KeysInit ==
    /\ published = 1 /\ cached = 0 /\ throttle = 0
    /\ leader = {} /\ answer = 0 /\ window = 0 /\ extra = 0

PublicKey(h) == KeyLookup(h) \/ Join(h) \/ Reread(h)
KeysNext == AskApple \/ RefreshFails \/ Refreshed \/ Rotate \/ Minute

(* After a refresh has succeeded, only requests that were already on their  *)
(* way ask Apple again within the interval, whatever key ids are presented. *)
FewRefreshes == extra < Cardinality(Request)
==============================================================================
