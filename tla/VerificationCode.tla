---------------------------- MODULE VerificationCode ----------------------------
(***************************************************************************)
(* internal/service/auth/sendcode.go and internal/sender: the verification *)
(* code of ONE target (a phone number or an e-mail address), its cooldown, *)
(* the providers that deliver it, and the requests that check a code.      *)
(*                                                                         *)
(* A SendCode call that wins the cooldown gets a number; its code is known *)
(* by that number, 0 is no code. In mock mode all codes are one string.    *)
(***************************************************************************)
EXTENDS Configuration, FiniteSets

CONSTANTS
    Caller,         \* SendCode requests at the same time; each begins anew
    Cooldown,       \* codeSendCooldown, in ticks
    Expiry,         \* codeExpiry, in ticks
    MaxCalls,       \* bound: calls that win the cooldown
    MaxFaults       \* bound: Redis errors, dying handlers

ASSUME CodeAssumption ==
    /\ Cooldown \in Nat \ {0} /\ Expiry \in Nat \ {0}
    /\ MaxCalls \in Nat /\ MaxFaults \in Nat
    /\ Cooldown <= Expiry

VARIABLES
    route, mock,        \* configuration, fixed when the server starts
    key, codeTTL,       \* the stored code; ticks the last stored one has left
    last,               \* the code stored last
    coolTTL,            \* the cooldown key: ticks left, 0 = no key
    call,               \* the SendCode requests
    calls,              \* calls that have won the cooldown
    received, reported, \* history: codes of which a message went out; codes
                        \* whose SendCode returned nil
    spent, uses,        \* history: codes taken out of Redis by a check; number
                        \* of checks that accepted a code
    okLeft,             \* history: what is left of the cooldown of the last
                        \* SendCode that returned nil
    blocked,            \* history: a cooldown stands although its call failed
    late,               \* history: a call wrote or deleted after its cooldown,
                        \* or its deletion was executed twice
                        \* had lapsed, or a deletion was executed twice
    faults

store == <<key, codeTTL, last, coolTTL>>
hist == <<received, reported, spent, uses, okLeft, blocked, late>>
cvars == <<route, mock, key, codeTTL, last, coolTTL, call, calls, received, reported,
           spent, uses, okLeft, blocked, late, faults>>

Reply == {"ok", "refused", "unanswered"}
Answer(r) ==
    /\ r # "ok" => faults < MaxFaults
    /\ faults' = IF r = "ok" THEN faults ELSE faults + 1

At(h, label) == call[h].at = label
Goes(h, label) == call' = [call EXCEPT ![h].at = label]
Idle == [at |-> "idle", id |-> 0, tried |-> 0, left |-> 0]
Ends(h) == call' = [call EXCEPT ![h] = Idle]

(***************************************************************************)
(* SendCode: SETNX of the cooldown, SET of the code, delivery, roll-back.  *)
(***************************************************************************)
\* variant: the cooldown is set whether it exists or not
ClaimAnyway(h, r) ==
    /\ At(h, "idle") /\ calls < MaxCalls
    /\ Answer(r)
    /\ coolTTL' = IF r # "refused" THEN Cooldown ELSE coolTTL
    /\ IF r = "ok"
       THEN /\ call' = [call EXCEPT ![h] = [at |-> "generate", id |-> calls + 1,
                                            tried |-> 0, left |-> Cooldown]]
            /\ calls' = calls + 1
       ELSE UNCHANGED <<call, calls>>
    /\ blocked' = (blocked \/ r = "unanswered")
    /\ UNCHANGED <<route, mock, key, codeTTL, last, received, reported, spent, uses,
                   okLeft, late>>

(* If the answer is lost, or the command sent again, the key stands and the *)
(* caller is told of an error or to wait.                                   *)
Claim(h, r) ==
    /\ At(h, "idle") /\ coolTTL = 0 /\ calls < MaxCalls
    /\ Answer(r)
    /\ coolTTL' = IF r = "refused" THEN 0 ELSE Cooldown
    /\ IF r = "ok"
       THEN /\ call' = [call EXCEPT ![h] = [at |-> "generate", id |-> calls + 1,
                                            tried |-> 0, left |-> Cooldown]]
            /\ calls' = calls + 1
       ELSE UNCHANGED <<call, calls>>
    /\ blocked' = (blocked \/ r = "unanswered")
    /\ UNCHANGED <<route, mock, key, codeTTL, last, received, reported, spent, uses,
                   okLeft, late>>

\* variant: the cooldown is not given back
GenerateForgets(h, r) ==
    /\ At(h, "generate") /\ r # "unanswered"
    /\ Answer(r)
    /\ IF r = "ok" THEN Goes(h, "store") ELSE Ends(h)
    /\ UNCHANGED <<route, mock, store, calls, hist>>

(* generateCode; "refused" when the random source fails.                    *)
Generate(h, r) ==
    /\ At(h, "generate") /\ r # "unanswered" /\ (mock => r = "ok")
    /\ Answer(r)
    /\ Goes(h, IF r = "ok" THEN "store" ELSE "unclaim")
    /\ UNCHANGED <<route, mock, store, calls, hist>>

Store(h) ==
    /\ key' = call[h].id /\ last' = call[h].id /\ codeTTL' = Expiry
    /\ late' = (late \/ call[h].left = 0)
    /\ UNCHANGED coolTTL

StoreCode(h, r) ==
    /\ At(h, "store")
    /\ Answer(r)
    /\ IF r = "refused" THEN UNCHANGED <<store, late>> ELSE Store(h)
    /\ Goes(h, IF r = "ok" THEN "send" ELSE "unclaim")
    /\ UNCHANGED <<route, mock, calls, received, reported, spent, uses, okLeft, blocked>>

(* Router.Send: the next provider delivers, fails, or delivers and reports  *)
(* an error; the mock only logs and cannot fail.                            *)
Send(h, outcome) ==
    /\ At(h, "send") /\ call[h].tried < Len(route)
    /\ route[call[h].tried + 1] = "mock" => outcome = "sent"
    /\ received' = IF outcome = "failed" THEN received ELSE received \cup {call[h].id}
    /\ IF outcome = "sent"
       THEN /\ Ends(h)
            /\ reported' = reported \cup {call[h].id}
            /\ okLeft' = IF call[h].left > okLeft THEN call[h].left ELSE okLeft
       ELSE /\ call' = [call EXCEPT ![h].tried = @ + 1]
            /\ UNCHANGED <<reported, okLeft>>
    /\ UNCHANGED <<route, mock, store, calls, spent, uses, blocked, late, faults>>

(* ErrNoProvider, or all have failed.                                       *)
SendFails(h) ==
    /\ At(h, "send") /\ call[h].tried = Len(route)
    /\ Goes(h, "undo")
    /\ UNCHANGED <<route, mock, store, calls, hist, faults>>

\* variant: every roll-back deletes the code
DeleteBoth(h) ==
    /\ coolTTL' = 0 /\ key' = 0
    /\ late' = (late \/ call[h].left = 0)
    /\ UNCHANGED <<codeTTL, last>>

Delete(h) ==
    /\ coolTTL' = 0
    /\ key' = IF At(h, "undo") THEN 0 ELSE key
    /\ late' = (late \/ call[h].left = 0)
    /\ UNCHANGED <<codeTTL, last>>

(* The error of the deletion is dropped: then the cooldown stands.          *)
RollBack(h, r) ==
    /\ At(h, "unclaim") \/ At(h, "undo")
    /\ Answer(r)
    /\ IF r = "refused" THEN UNCHANGED <<store, late>> ELSE Delete(h)
    /\ blocked' = (r = "refused" /\ (blocked \/ coolTTL > 0))
    /\ Ends(h)
    /\ UNCHANGED <<route, mock, calls, received, reported, spent, uses, okLeft>>

SendCode(h) ==
    \/ \E r \in Reply : Claim(h, r) \/ Generate(h, r) \/ StoreCode(h, r) \/ RollBack(h, r)
    \/ \E outcome \in {"sent", "failed", "late"} : Send(h, outcome)
    \/ SendFails(h)

(* The Redis client sends a command again whose answer is late.             *)
Resend(h) ==
    /\ Answer("unanswered")
    /\ \/ At(h, "store") /\ Store(h) /\ UNCHANGED blocked
       \/ /\ At(h, "unclaim") \/ At(h, "undo")
          /\ coolTTL' = 0 /\ blocked' = FALSE /\ late' = TRUE
          /\ key' = IF At(h, "undo") THEN 0 ELSE key
          /\ UNCHANGED <<codeTTL, last>>
    /\ UNCHANGED <<route, mock, call, calls, received, reported, spent, uses, okLeft>>

(* The process exits, or the handler's panic is recovered.                  *)
Abandon(h) ==
    /\ ~At(h, "idle")
    /\ Answer("refused")
    /\ Ends(h)
    /\ blocked' = TRUE
    /\ UNCHANGED <<route, mock, store, calls, received, reported, spent, uses, okLeft, late>>

(***************************************************************************)
(* verifyCode: one script. What the request does with a code that passed   *)
(* may fail; the code stays used. Nobody knows a code he did not receive,  *)
(* except in mock mode.                                                    *)
(***************************************************************************)
\* variant: the script does not delete
TakeNothing(c) ==
    /\ uses' = [uses EXCEPT ![c] = @ + 1]
    /\ UNCHANGED <<key, spent>>

Take(c) ==
    /\ key' = 0 /\ spent' = spent \cup {key}
    /\ uses' = [uses EXCEPT ![c] = @ + 1]

Matches(c) == key # 0 /\ (mock \/ key = c)

(* In mock mode the code passes without a key, too: nothing changes.        *)
VerifyCode(c, r) ==
    /\ Matches(c)
    /\ Answer(r)
    /\ CASE r = "ok" -> Take(c)
         [] r = "refused" -> UNCHANGED <<key, spent, uses>>
         [] r = "unanswered" -> key' = 0 /\ spent' = spent \cup {key} /\ UNCHANGED uses
    /\ UNCHANGED <<route, mock, codeTTL, last, coolTTL, call, calls, received, reported,
                   okLeft, blocked, late>>

------------------------------------------------------------------------------
\* variant: counts on below zero
LessUnguarded(n) == n - 1
Less(n) == IF n = 0 THEN 0 ELSE n - 1

Tick ==
    /\ codeTTL > 0 \/ coolTTL > 0 \/ okLeft > 0 \/ \E h \in Caller : call[h].left > 0
    /\ codeTTL' = Less(codeTTL) /\ coolTTL' = Less(coolTTL) /\ okLeft' = Less(okLeft)
    /\ key' = IF codeTTL <= 1 THEN 0 ELSE key
    /\ call' = [h \in Caller |-> [call[h] EXCEPT !.left = Less(@)]]
    /\ blocked' = (blocked /\ coolTTL > 1)
    /\ UNCHANGED <<route, mock, last, calls, received, reported, spent, uses, late, faults>>

Init ==
    /\ \E c \in Running, channel \in {"sms", "email"} :
          route = Route(c, channel) /\ mock = c.mock
    /\ key = 0 /\ codeTTL = 0 /\ last = 0 /\ coolTTL = 0
    /\ call = [h \in Caller |-> Idle] /\ calls = 0
    /\ received = {} /\ reported = {} /\ spent = {}
    /\ uses = [c \in 1..MaxCalls |-> 0]
    /\ okLeft = 0 /\ blocked = FALSE /\ late = FALSE /\ faults = 0

Next ==
    \/ Tick
    \/ \E h \in Caller : SendCode(h) \/ Resend(h) \/ Abandon(h)
    \/ \E c \in (IF mock THEN 1..calls ELSE received), r \in Reply : VerifyCode(c, r)

Spec == Init /\ [][Next]_cvars

------------------------------------------------------------------------------
(* The type of every variable.                                              *)
CodeTypeOK ==
    /\ route \in Seq({"smtp", "mock"}) /\ mock \in BOOLEAN
    /\ key \in 0..calls /\ last \in 0..calls /\ calls \in 0..MaxCalls
    /\ codeTTL \in 0..Expiry /\ coolTTL \in 0..Cooldown /\ okLeft \in 0..Cooldown
    /\ call \in [Caller ->
          [at : {"idle", "generate", "store", "send", "unclaim", "undo"},
           id : 0..MaxCalls, tried : Nat, left : 0..Cooldown]]
    /\ received \subseteq 1..calls /\ reported \subseteq received
    /\ spent \subseteq 1..calls /\ uses \in [1..MaxCalls -> Nat]
    /\ blocked \in BOOLEAN /\ late \in BOOLEAN /\ faults \in 0..MaxFaults

(* A code is accepted once, however many requests present it, however often *)
(* it was delivered and its commands were executed.                         *)
CodeOnce == ~mock => \A c \in 1..calls : uses[c] <= 1

(* The code a user was told is on its way has gone out and is in Redis      *)
(* until it expires, a check takes it or a newer one is stored: a failing   *)
(* call beside it does not take it away, unless one acts after its cooldown *)
(* or its deletion is executed twice.                                       *)
LiveCode ==
    last \in reported =>
        /\ last \in received
        /\ key = last \/ last \in spent \/ codeTTL = 0 \/ late

(* Within one cooldown at most one call sends, failed ones apart, as long   *)
(* as no call acts after its own cooldown or deletes twice.                 *)
Sending == {h \in Caller : call[h].at \in {"generate", "store", "send"} /\ call[h].left > 0}
OnePerCooldown ==
    \/ late
    \/ Cardinality(Sending) + (IF okLeft > 0 THEN 1 ELSE 0) <= 1

(* A user whose SendCode failed can try again at once: when nobody is       *)
(* sending, a cooldown stands only for a code that was sent, or because a   *)
(* command failed or a handler died on the way.                             *)
RetryAfterFailure ==
    (\A h \in Caller : At(h, "idle")) /\ coolTTL > 0 => okLeft > 0 \/ blocked
==============================================================================
