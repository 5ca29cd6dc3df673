------------------------- MODULE VerificationCode_proofs -------------------------
(***************************************************************************)
(* The properties of VerificationCode for any number of concurrent calls,  *)
(* any cooldown and expiry, and every configuration a server runs with.    *)
(***************************************************************************)
EXTENDS VerificationCode, SequenceTheorems, FiniteSetTheorems, TLAPS

-------------------------------------------------------------------------------
(***************************************************************************)
(* The configuration the router and the stored code depend on.             *)
(***************************************************************************)
LEMMA MergeGives ==
    ASSUME NEW low, NEW high, NEW k, k \in DOMAIN low \cup DOMAIN high
    PROVE  Merge(low, high)[k] = IF k \in DOMAIN high THEN high[k] ELSE low[k]
BY DEF Merge

LEMMA MergeDomain ==
    ASSUME NEW low, NEW high
    PROVE  DOMAIN Merge(low, high) = DOMAIN low \cup DOMAIN high
BY DEF Merge

LEMMA MergeKeeps ==
    ASSUME NEW low, NEW high, NEW K, K \subseteq DOMAIN low
    PROVE  K \subseteq DOMAIN Merge(low, high)
BY MergeDomain

(* A layer sets a switch on or off, if it sets it.                          *)
Switches == {"mock", "oauthDev", "smtp", "ids"}
Layer(f) == \A k \in Switches \cap DOMAIN f : f[k] \in BOOLEAN

LEMMA LayerByKey ==
    ASSUME NEW f,
           "mock" \in DOMAIN f => f["mock"] \in BOOLEAN,
           "oauthDev" \in DOMAIN f => f["oauthDev"] \in BOOLEAN,
           "smtp" \in DOMAIN f => f["smtp"] \in BOOLEAN,
           "ids" \in DOMAIN f => f["ids"] \in BOOLEAN
    PROVE  Layer(f)
BY Zenon DEF Layer, Switches

LEMMA MergedLayer ==
    ASSUME NEW low, NEW high, Layer(low), Layer(high)
    PROVE  Layer(Merge(low, high))
<1> SUFFICES ASSUME NEW k \in Switches, k \in DOMAIN low \cup DOMAIN high
             PROVE  Merge(low, high)[k] \in BOOLEAN
  BY MergeDomain DEF Layer
<1>1. Merge(low, high)[k] = IF k \in DOMAIN high THEN high[k] ELSE low[k]
  BY MergeGives
<1>2. CASE k \in DOMAIN high
  BY <1>1, <1>2 DEF Layer
<1>3. CASE k \notin DOMAIN high
  BY <1>1, <1>3 DEF Layer
<1> QED BY <1>2, <1>3

LEMMA SettingsLayer ==
    ASSUME NEW s, \A k \in Switches \cap DOMAIN s : s[k] \subseteq BOOLEAN
    PROVE  Layer(LayerOf(s))
<1> SUFFICES ASSUME NEW k \in Switches \cap DOMAIN LayerOf(s)
             PROVE  LayerOf(s)[k] \in BOOLEAN
  BY DEF Layer
<1>1. k \in DOMAIN s /\ s[k] # {} /\ LayerOf(s)[k] = CHOOSE v \in s[k] : TRUE
  BY DEF LayerOf
<1>2. (CHOOSE v \in s[k] : TRUE) \in s[k]
  BY <1>1
<1> QED BY <1>1, <1>2

LEMMA LocalLayer == ASSUME NEW l \in Locals PROVE Layer(l)
<1>1. PICK e : l = LayerOf([env |-> e])
  BY DEF Locals
<1>2. Switches \cap DOMAIN [env |-> e] = {}
  BY DEF Switches
<1> QED BY <1>1, <1>2, SettingsLayer

LEMMA EnvironLayer == ASSUME NEW v \in Environs PROVE Layer(v)
<1>1. PICK s \in Settings : v = LayerOf(s)
  BY DEF Environs
<1>2. /\ s["mock"] \in Maybe(BOOLEAN) /\ s["oauthDev"] \in Maybe(BOOLEAN)
      /\ s["smtp"] \in Maybe({TRUE}) /\ s["ids"] \in Maybe({TRUE})
  BY DEF Settings
<1>3. \A k \in Switches : s[k] \subseteq BOOLEAN
  BY <1>2 DEF Maybe, Switches
<1> QED BY <1>1, <1>3, SettingsLayer

LEMMA FileLayer == ASSUME NEW env PROVE Layer(EnvFile(env))
<1>1. CASE env = "development"
  <2>1. EnvFile(env) = [env |-> "development"]
    BY <1>1 DEF EnvFile
  <2>2. DOMAIN EnvFile(env) = {"env"}
    BY <2>1
  <2> QED BY <2>2, LayerByKey
<1>2. CASE env = "production"
  <2>1. EnvFile(env) =
            [env |-> "production", ssl |-> "require", mock |-> FALSE,
             oauthDev |-> FALSE, ids |-> FALSE, metrics |-> TRUE,
             token |-> FALSE, origins |-> FALSE]
    BY <1>2 DEF EnvFile
  <2>2. /\ EnvFile(env)["mock"] = FALSE /\ EnvFile(env)["oauthDev"] = FALSE
        /\ EnvFile(env)["ids"] = FALSE /\ "smtp" \notin DOMAIN EnvFile(env)
    BY <2>1
  <2> QED BY <2>2, LayerByKey
<1>3. CASE env # "development" /\ env # "production"
  <2>1. EnvFile(env) = [none \in {} |-> ""]
    BY <1>3 DEF EnvFile
  <2> QED BY <2>1 DEF Layer
<1> QED BY <1>1, <1>2, <1>3

LEMMA BaseLayer == Layer(Base) /\ Switches \subseteq DOMAIN Base
<1>1. DOMAIN Base = {"env", "url", "ssl", "secret", "mock", "oauthDev", "smtp", "ids",
                    "metrics", "token", "origins"}
  BY DEF Base
<1>2. /\ Base["mock"] = TRUE /\ Base["oauthDev"] = TRUE
      /\ Base["smtp"] = FALSE /\ Base["ids"] = FALSE
  BY DEF Base
<1> QED BY <1>1, <1>2, LayerByKey DEF Switches

(* The switches of every configuration are on or off.                       *)
THEOREM SwitchesAreSet ==
    ASSUME NEW l \in Locals, NEW v \in Environs
    PROVE  /\ Load(l, v).mock \in BOOLEAN /\ Load(l, v).oauthDev \in BOOLEAN
           /\ Load(l, v).smtp \in BOOLEAN /\ Load(l, v).ids \in BOOLEAN
<1> DEFINE picked == IF "env" \in DOMAIN v THEN v.env ELSE Base.env
           w == LoadViper(l, v)
<1>1. w = Merge(Merge(Merge(Base, EnvFile(picked)), l), v)
  BY DEF LoadViper
<1>2. Layer(w)
  BY <1>1, BaseLayer, FileLayer, LocalLayer, EnvironLayer, MergedLayer
<1>3. Switches \subseteq DOMAIN w
  <2>1. Switches \subseteq DOMAIN Merge(Base, EnvFile(picked))
    BY BaseLayer, MergeKeeps
  <2>2. Switches \subseteq DOMAIN Merge(Merge(Base, EnvFile(picked)), l)
    BY <2>1, MergeKeeps, Zenon
  <2>3. Switches \subseteq DOMAIN Merge(Merge(Merge(Base, EnvFile(picked)), l), v)
    BY <2>2, MergeKeeps, Zenon
  <2> QED BY <1>1, <2>3, Zenon
<1>4. \A k \in Switches : Load(l, v)[k] = w[k]
  <2> SUFFICES ASSUME NEW k \in Switches PROVE Load(l, v)[k] = w[k]
    OBVIOUS
  <2>1. k \in DOMAIN w /\ k # "url"
    BY <1>3 DEF Switches
  <2> HIDE DEF w
  <2>2. [w EXCEPT !.url = IF @ # "" THEN @ ELSE BuildDatabaseURL(w)][k] = w[k]
    BY <2>1
  <2> QED BY <2>2 DEF Load, w
<1>5. \A k \in Switches : Load(l, v)[k] \in BOOLEAN
  BY <1>2, <1>3, <1>4 DEF Layer
<1> QED BY <1>5 DEF Switches

COROLLARY RunningSwitches ==
    ASSUME NEW c \in Running
    PROVE  /\ c.mock \in BOOLEAN /\ c.oauthDev \in BOOLEAN
           /\ c.smtp \in BOOLEAN /\ c.ids \in BOOLEAN
<1>1. PICK l \in Locals, v \in Environs : c = Load(l, v)
  BY DEF Running, Loaded
<1> QED BY <1>1, SwitchesAreSet

(* A message has only providers of the router, each at most once.           *)
THEOREM RouteIsShort ==
    ASSUME NEW c, NEW channel
    PROVE  /\ Route(c, channel) \in Seq({"smtp", "mock"})
           /\ Len(Route(c, channel)) \in 0..2
<1> DEFINE S == {"smtp", "mock"}
           a == IF c.smtp /\ channel = "email" THEN <<"smtp">> ELSE <<>>
           b == IF c.mock \/ ~c.smtp THEN <<"mock">> ELSE <<>>
<1>1. a \in Seq(S) /\ Len(a) \in 0..1
  <2>1. a = <<"smtp">> \/ a = <<>>
    BY Zenon
  <2> HIDE DEF a
  <2>2. CASE a = <<"smtp">>
    BY <2>2
  <2>3. CASE a = <<>>
    BY <2>3
  <2> QED BY <2>1, <2>2, <2>3
<1>2. b \in Seq(S) /\ Len(b) \in 0..1
  <2>1. b = <<"mock">> \/ b = <<>>
    BY Zenon
  <2> HIDE DEF b
  <2>2. CASE b = <<"mock">>
    BY <2>2
  <2>3. CASE b = <<>>
    BY <2>3
  <2> QED BY <2>1, <2>2, <2>3
<1> HIDE DEF a, b
<1>3. a \o b \in Seq(S) /\ Len(a \o b) = Len(a) + Len(b)
  BY <1>1, <1>2, ConcatProperties
<1>4. Route(c, channel) = a \o b
  BY DEF Route, a, b
<1> QED BY <1>1, <1>2, <1>3, <1>4

(* In production no code is a fixed one, no open_id is taken on its word,   *)
(* an e-mail goes to the mail server and to nothing else, and a message by  *)
(* SMS has no provider at all: SendCode answers it with an error.           *)
THEOREM Production ==
    ASSUME NEW c \in Running, IsProd(c)
    PROVE  /\ ~c.mock /\ ~c.oauthDev
           /\ Route(c, "email") = <<"smtp">> /\ Route(c, "sms") = <<>>
<1>1. ~c.mock /\ ~c.oauthDev
  BY DEF Running, Valid
<1>2. c.smtp
  BY <1>1 DEF Running, HasSender
<1>3. Route(c, "email") = <<"smtp">>
  <2>1. Route(c, "email") = <<"smtp">> \o <<>>
    BY <1>1, <1>2 DEF Route
  <2>2. <<"smtp">> \in Seq({"smtp"})
    OBVIOUS
  <2> QED BY <2>1, <2>2, ConcatEmptySeq
<1>4. Route(c, "sms") = <<>>
  BY <1>1, <1>2 DEF Route
<1> QED BY <1>1, <1>3, <1>4

-------------------------------------------------------------------------------
(***************************************************************************)
(* Codes.                                                                  *)
(***************************************************************************)

Active(h) == call[h].at # "idle"
Holder(h) == Active(h) /\ call[h].left > 0

(* A call has a number of its own, nobody was told of it while it runs, and *)
(* nobody has received its code before it sends it.                         *)
Fresh ==
    /\ \A h \in Caller : Active(h) =>
          /\ call[h].id \in 1..calls /\ call[h].id \notin reported
          /\ call[h].at \in {"generate", "store"} => call[h].id \notin received
    /\ \A g, h \in Caller :
          Active(g) /\ Active(h) /\ call[g].id = call[h].id => g = h

(* A code that was accepted was received, and is not in Redis any more.     *)
Once ==
    ~mock => \A c \in 1..MaxCalls :
                uses[c] <= 1 /\ (uses[c] = 1 => c \in received /\ key # c)

(* As long as no call acts late, the cooldown belongs to one call, or to    *)
(* the last one that succeeded.                                             *)
OneHolder ==
    ~late =>
        /\ okLeft > 0 => coolTTL = okLeft
        /\ \A h \in Caller : Holder(h) =>
              /\ coolTTL = call[h].left /\ okLeft = 0
              /\ \A g \in Caller : Holder(g) => g = h
              /\ call[h].at \in {"send", "undo"} => last = call[h].id

(* The code stored last stays until it ends, from before it is sent.        *)
Kept ==
    last \in reported \/ (\E h \in Caller : call[h].at = "send" /\ call[h].id = last) =>
        key = last \/ last \in spent \/ codeTTL = 0 \/ late

(* A cooldown is somebody's.                                                *)
Owned ==
    coolTTL > 0 =>
        \/ blocked \/ okLeft >= coolTTL
        \/ \E h \in Caller : Active(h) /\ call[h].left >= coolTTL

CodeInv == CodeTypeOK /\ Fresh /\ Once /\ OneHolder /\ Kept /\ Owned

Calls == [at : {"idle", "generate", "store", "send", "unclaim", "undo"},
          id : 0..MaxCalls, tried : Nat, left : 0..Cooldown]

LEMMA CodeInit == Init => CodeInv
<1> SUFFICES ASSUME Init PROVE CodeInv
  OBVIOUS
<1>1. route \in Seq({"smtp", "mock"}) /\ mock \in BOOLEAN
  BY RouteIsShort, RunningSwitches DEF Init
<1>2. CodeTypeOK
  <2>1. call \in [Caller -> Calls]
    BY CodeAssumption DEF Init, Calls, Idle
  <2>2. /\ key \in 0..calls /\ last \in 0..calls /\ calls \in 0..MaxCalls
        /\ codeTTL \in 0..Expiry /\ coolTTL \in 0..Cooldown /\ okLeft \in 0..Cooldown
        /\ faults \in 0..MaxFaults
    BY CodeAssumption DEF Init
  <2>3. /\ received \subseteq 1..calls /\ reported \subseteq received
        /\ spent \subseteq 1..calls /\ uses \in [1..MaxCalls -> Nat]
        /\ blocked \in BOOLEAN /\ late \in BOOLEAN
    BY CodeAssumption DEF Init
  <2> QED BY <1>1, <2>1, <2>2, <2>3 DEF CodeTypeOK, Calls
<1>3. Fresh /\ Once /\ OneHolder /\ Kept /\ Owned
  BY CodeAssumption DEF Init, Idle, Fresh, Once, OneHolder, Kept, Owned, Active, Holder
<1> QED BY <1>2, <1>3 DEF CodeInv

LEMMA LessBounded ==
    ASSUME NEW b \in Nat, NEW n \in 0..b
    PROVE  Less(n) \in 0..b
BY DEF Less

(* What the types say of the numbers.                                       *)
NumbersOK ==
        /\ calls \in Nat /\ calls <= MaxCalls /\ coolTTL \in Nat /\ okLeft \in Nat
        /\ codeTTL \in Nat /\ key \in Nat /\ key <= calls /\ last \in Nat
        /\ received \subseteq 1..calls /\ reported \subseteq received
        /\ uses \in [1..MaxCalls -> Nat]
        /\ \A h \in Caller : call[h].id \in Nat /\ call[h].left \in 0..Cooldown
LEMMA Numbers == CodeTypeOK => NumbersOK
BY CodeAssumption DEF CodeTypeOK, NumbersOK

(* What each action does to the calls, field by field.                      *)
CallAfter(h, at, id, left) ==
    \A g \in Caller :
        /\ call'[g].at = IF g = h THEN at ELSE call[g].at
        /\ call'[g].id = IF g = h THEN id ELSE call[g].id
        /\ call'[g].left = IF g = h THEN left ELSE call[g].left

LEMMA TickCall ==
    ASSUME CodeTypeOK, Tick
    PROVE  \A g \in Caller :
              /\ call'[g].at = call[g].at /\ call'[g].id = call[g].id
              /\ call'[g].left = Less(call[g].left)
BY DEF At, CallAfter, CodeTypeOK, Ends, Goes, Idle, Tick

ClaimEffect(h, r) ==
    IF r = "ok" THEN CallAfter(h, "generate", calls + 1, Cooldown)
                       ELSE UNCHANGED call

LEMMA ClaimCall ==
    ASSUME CodeTypeOK, NEW h \in Caller, NEW r \in Reply, Claim(h, r)
    PROVE  ClaimEffect(h, r)
BY DEF At, CallAfter, Claim, ClaimEffect, CodeTypeOK, Ends, Goes, Idle

GenerateEffect(h, r) ==
    CallAfter(h, IF r = "ok" THEN "store" ELSE "unclaim",
                     call[h].id, call[h].left)

LEMMA GenerateCall ==
    ASSUME CodeTypeOK, NEW h \in Caller, NEW r \in Reply, Generate(h, r)
    PROVE  GenerateEffect(h, r)
BY DEF At, CallAfter, CodeTypeOK, Ends, Generate, GenerateEffect, Goes, Idle

StoreCodeEffect(h, r) ==
    CallAfter(h, IF r = "ok" THEN "send" ELSE "unclaim",
                     call[h].id, call[h].left)

LEMMA StoreCodeCall ==
    ASSUME CodeTypeOK, NEW h \in Caller, NEW r \in Reply, StoreCode(h, r)
    PROVE  StoreCodeEffect(h, r)
BY DEF At, CallAfter, CodeTypeOK, Ends, Goes, Idle, StoreCode, StoreCodeEffect

SendEffect(h, o) ==
    IF o = "sent" THEN CallAfter(h, "idle", 0, 0)
                         ELSE CallAfter(h, "send", call[h].id, call[h].left)

LEMMA SendCall ==
    ASSUME CodeTypeOK, NEW h \in Caller, NEW o \in {"sent", "failed", "late"}, Send(h, o)
    PROVE  SendEffect(h, o)
<1>1. CASE o = "sent"
  BY <1>1 DEF At, CallAfter, CodeTypeOK, Ends, Goes, Idle, Send, SendEffect
<1>2. CASE o # "sent"
  BY <1>2 DEF At, CallAfter, CodeTypeOK, Ends, Goes, Idle, Send, SendEffect
<1> QED BY <1>1, <1>2

SendFailsEffect(h) ==
    CallAfter(h, "undo", call[h].id, call[h].left)

LEMMA SendFailsCall ==
    ASSUME CodeTypeOK, NEW h \in Caller, SendFails(h)
    PROVE  SendFailsEffect(h)
BY DEF At, CallAfter, CodeTypeOK, Ends, Goes, Idle, SendFails, SendFailsEffect

RollBackEffect(h, r) ==
    CallAfter(h, "idle", 0, 0)

LEMMA RollBackCall ==
    ASSUME CodeTypeOK, NEW h \in Caller, NEW r \in Reply, RollBack(h, r)
    PROVE  RollBackEffect(h, r)
BY DEF At, CallAfter, CodeTypeOK, Ends, Goes, Idle, RollBack, RollBackEffect

LEMMA ResendCall ==
    ASSUME CodeTypeOK, NEW h \in Caller, Resend(h)
    PROVE  UNCHANGED call
BY DEF At, CallAfter, CodeTypeOK, Ends, Goes, Idle, Resend

AbandonEffect(h) ==
    CallAfter(h, "idle", 0, 0)

LEMMA AbandonCall ==
    ASSUME CodeTypeOK, NEW h \in Caller, Abandon(h)
    PROVE  AbandonEffect(h)
BY DEF Abandon, AbandonEffect, At, CallAfter, CodeTypeOK, Ends, Goes, Idle

LEMMA VerifyCodeCall ==
    ASSUME CodeTypeOK, NEW c \in (IF mock THEN 1..calls ELSE received), NEW r \in Reply, VerifyCode(c, r)
    PROVE  UNCHANGED call
BY DEF At, CallAfter, CodeTypeOK, Ends, Goes, Idle, VerifyCode

LEMMA TypeStep ==
    ASSUME CodeTypeOK, Fresh, [Next]_cvars
    PROVE  CodeTypeOK'
<1> USE CodeAssumption
<1>1. CASE Tick
  <2> USE <1>1
  <2>1. call' \in [Caller -> Calls]
    <3>1. \A h \in Caller : call[h] \in Calls /\ Less(call[h].left) \in 0..Cooldown
      BY LessBounded DEF CodeTypeOK, Calls
    <3>2. \A h \in Caller : [call[h] EXCEPT !.left = Less(@)] \in Calls
      BY <3>1 DEF Calls
    <3> QED BY <3>2 DEF Tick
  <2>2. route' \in Seq({"smtp", "mock"}) /\ mock' \in BOOLEAN
    BY DEF CodeTypeOK, hist, store, Tick
  <2>3. key' \in 0..calls' /\ last' \in 0..calls' /\ calls' \in 0..MaxCalls
    BY DEF At, CodeTypeOK, hist, store, Tick
  <2>4. codeTTL' \in 0..Expiry /\ coolTTL' \in 0..Cooldown /\ okLeft' \in 0..Cooldown
    BY LessBounded DEF CodeTypeOK, hist, store, Tick
  <2>5. /\ received' \subseteq 1..calls' /\ reported' \subseteq received'
        /\ spent' \subseteq 1..calls' /\ uses' \in [1..MaxCalls -> Nat]
    BY DEF At, CodeTypeOK, hist, store, Tick
  <2>6. late' \in BOOLEAN
    BY DEF CodeTypeOK, hist, store, Tick
  <2>7. blocked' \in BOOLEAN
    BY DEF CodeTypeOK, hist, store, Tick
  <2>8. faults' \in 0..MaxFaults
    BY DEF Answer, CodeTypeOK, Reply, Tick
  <2> QED BY <2>1, <2>2, <2>3, <2>4, <2>5, <2>6, <2>7, <2>8 DEF CodeTypeOK, Calls
<1>2. ASSUME NEW h \in Caller, NEW r \in Reply, Claim(h, r)
       PROVE  CodeTypeOK'
  <2> USE <1>2
  <2>1. call' \in [Caller -> Calls]
    <3>1. CASE r = "ok"
      <4>1. [at |-> "generate", id |-> calls + 1, tried |-> 0, left |-> Cooldown] \in Calls
        BY DEF Claim, CodeTypeOK, Calls
      <4> QED BY <3>1, <4>1 DEF Claim, CodeTypeOK, Calls
    <3>2. CASE r # "ok"
      BY <3>2 DEF Claim, CodeTypeOK, Calls
    <3> QED BY <3>1, <3>2
  <2>2. route' \in Seq({"smtp", "mock"}) /\ mock' \in BOOLEAN
    BY DEF Claim, CodeTypeOK, hist, store
  <2>3. key' \in 0..calls' /\ last' \in 0..calls' /\ calls' \in 0..MaxCalls
    BY DEF Active, At, Claim, CodeTypeOK, Fresh, hist, store
  <2>4. codeTTL' \in 0..Expiry /\ coolTTL' \in 0..Cooldown /\ okLeft' \in 0..Cooldown
    BY DEF Claim, CodeTypeOK, hist, store
  <2>5. /\ received' \subseteq 1..calls' /\ reported' \subseteq received'
        /\ spent' \subseteq 1..calls' /\ uses' \in [1..MaxCalls -> Nat]
    BY DEF Active, At, Claim, CodeTypeOK, Fresh, hist, store
  <2>6. late' \in BOOLEAN
    BY DEF Claim, CodeTypeOK, hist, store
  <2>7. blocked' \in BOOLEAN
    BY DEF Claim, CodeTypeOK, hist, store
  <2>8. faults' \in 0..MaxFaults
    BY DEF Answer, Claim, CodeTypeOK, Reply
  <2> QED BY <2>1, <2>2, <2>3, <2>4, <2>5, <2>6, <2>7, <2>8 DEF CodeTypeOK, Calls
<1>3. ASSUME NEW h \in Caller, NEW r \in Reply, Generate(h, r)
       PROVE  CodeTypeOK'
  <2> USE <1>3
  <2>1. call' \in [Caller -> Calls]
    BY DEF Active, At, Calls, CodeTypeOK, Ends, Fresh, Generate, Goes, Idle
  <2>2. route' \in Seq({"smtp", "mock"}) /\ mock' \in BOOLEAN
    BY DEF CodeTypeOK, Generate, hist, store
  <2>3. key' \in 0..calls' /\ last' \in 0..calls' /\ calls' \in 0..MaxCalls
    BY DEF Active, At, CodeTypeOK, Fresh, Generate, hist, store
  <2>4. codeTTL' \in 0..Expiry /\ coolTTL' \in 0..Cooldown /\ okLeft' \in 0..Cooldown
    BY DEF CodeTypeOK, Generate, hist, store
  <2>5. /\ received' \subseteq 1..calls' /\ reported' \subseteq received'
        /\ spent' \subseteq 1..calls' /\ uses' \in [1..MaxCalls -> Nat]
    BY DEF Active, At, CodeTypeOK, Fresh, Generate, hist, store
  <2>6. late' \in BOOLEAN
    BY DEF CodeTypeOK, Generate, hist, store
  <2>7. blocked' \in BOOLEAN
    BY DEF CodeTypeOK, Generate, hist, store
  <2>8. faults' \in 0..MaxFaults
    BY DEF Answer, CodeTypeOK, Generate, Reply
  <2> QED BY <2>1, <2>2, <2>3, <2>4, <2>5, <2>6, <2>7, <2>8 DEF CodeTypeOK, Calls
<1>4. ASSUME NEW h \in Caller, NEW r \in Reply, StoreCode(h, r)
       PROVE  CodeTypeOK'
  <2> USE <1>4
  <2>1. call' \in [Caller -> Calls]
    BY DEF Active, At, Calls, CodeTypeOK, Ends, Fresh, Goes, Idle, StoreCode
  <2>2. route' \in Seq({"smtp", "mock"}) /\ mock' \in BOOLEAN
    BY DEF CodeTypeOK, hist, store, Store, StoreCode
  <2>3. key' \in 0..calls' /\ last' \in 0..calls' /\ calls' \in 0..MaxCalls
    BY DEF Active, At, CodeTypeOK, Fresh, hist, Store, store, StoreCode
  <2>4. codeTTL' \in 0..Expiry /\ coolTTL' \in 0..Cooldown /\ okLeft' \in 0..Cooldown
    BY DEF CodeTypeOK, hist, store, Store, StoreCode
  <2>5. /\ received' \subseteq 1..calls' /\ reported' \subseteq received'
        /\ spent' \subseteq 1..calls' /\ uses' \in [1..MaxCalls -> Nat]
    BY DEF Active, At, CodeTypeOK, Fresh, hist, Store, store, StoreCode
  <2>6. late' \in BOOLEAN
    BY DEF CodeTypeOK, hist, store, Store, StoreCode
  <2>7. blocked' \in BOOLEAN
    BY DEF CodeTypeOK, hist, store, Store, StoreCode
  <2>8. faults' \in 0..MaxFaults
    BY DEF Answer, CodeTypeOK, Reply, Store, StoreCode
  <2> QED BY <2>1, <2>2, <2>3, <2>4, <2>5, <2>6, <2>7, <2>8 DEF CodeTypeOK, Calls
<1>5. ASSUME NEW h \in Caller, NEW o \in {"sent", "failed", "late"}, Send(h, o)
       PROVE  CodeTypeOK'
  <2> USE <1>5
  <2>1. call' \in [Caller -> Calls]
    <3>1. CASE o = "sent"
      <4>1. Idle \in Calls
        BY DEF Calls, Idle
      <4> QED BY <3>1, <4>1 DEF Send, CodeTypeOK, Calls, Ends
    <3>2. CASE o # "sent"
      <4>1. [call[h] EXCEPT !.tried = @ + 1] \in Calls
        <5>1. call[h] \in Calls
          BY DEF CodeTypeOK, Calls
        <5>2. call[h].tried + 1 \in Nat
          BY <5>1 DEF Calls
        <5> QED BY <5>1, <5>2 DEF Calls
      <4> QED BY <3>2, <4>1 DEF Send, CodeTypeOK, Calls
    <3> QED BY <3>1, <3>2
  <2>2. route' \in Seq({"smtp", "mock"}) /\ mock' \in BOOLEAN
    BY DEF CodeTypeOK, hist, Send, store
  <2>3. key' \in 0..calls' /\ last' \in 0..calls' /\ calls' \in 0..MaxCalls
    BY DEF Active, At, CodeTypeOK, Fresh, hist, Send, store
  <2>4. codeTTL' \in 0..Expiry /\ coolTTL' \in 0..Cooldown /\ okLeft' \in 0..Cooldown
    BY DEF CodeTypeOK, hist, Send, store
  <2>5. /\ received' \subseteq 1..calls' /\ reported' \subseteq received'
        /\ spent' \subseteq 1..calls' /\ uses' \in [1..MaxCalls -> Nat]
    BY DEF Active, At, CodeTypeOK, Fresh, hist, Send, store
  <2>6. late' \in BOOLEAN
    BY DEF CodeTypeOK, hist, Send, store
  <2>7. blocked' \in BOOLEAN
    BY DEF CodeTypeOK, hist, Send, store
  <2>8. faults' \in 0..MaxFaults
    BY DEF Answer, CodeTypeOK, Reply, Send
  <2> QED BY <2>1, <2>2, <2>3, <2>4, <2>5, <2>6, <2>7, <2>8 DEF CodeTypeOK, Calls
<1>6. ASSUME NEW h \in Caller, SendFails(h)
       PROVE  CodeTypeOK'
  <2> USE <1>6
  <2>1. call' \in [Caller -> Calls]
    BY DEF Active, At, Calls, CodeTypeOK, Ends, Fresh, Goes, Idle, SendFails
  <2>2. route' \in Seq({"smtp", "mock"}) /\ mock' \in BOOLEAN
    BY DEF CodeTypeOK, hist, SendFails, store
  <2>3. key' \in 0..calls' /\ last' \in 0..calls' /\ calls' \in 0..MaxCalls
    BY DEF Active, At, CodeTypeOK, Fresh, hist, SendFails, store
  <2>4. codeTTL' \in 0..Expiry /\ coolTTL' \in 0..Cooldown /\ okLeft' \in 0..Cooldown
    BY DEF CodeTypeOK, hist, SendFails, store
  <2>5. /\ received' \subseteq 1..calls' /\ reported' \subseteq received'
        /\ spent' \subseteq 1..calls' /\ uses' \in [1..MaxCalls -> Nat]
    BY DEF Active, At, CodeTypeOK, Fresh, hist, SendFails, store
  <2>6. late' \in BOOLEAN
    BY DEF CodeTypeOK, hist, SendFails, store
  <2>7. blocked' \in BOOLEAN
    BY DEF CodeTypeOK, hist, SendFails, store
  <2>8. faults' \in 0..MaxFaults
    BY DEF Answer, CodeTypeOK, Reply, SendFails
  <2> QED BY <2>1, <2>2, <2>3, <2>4, <2>5, <2>6, <2>7, <2>8 DEF CodeTypeOK, Calls
<1>7. ASSUME NEW h \in Caller, NEW r \in Reply, RollBack(h, r)
       PROVE  CodeTypeOK'
  <2> USE <1>7
  <2>1. call' \in [Caller -> Calls]
    BY DEF Active, At, Calls, CodeTypeOK, Ends, Fresh, Goes, Idle, RollBack
  <2>2. route' \in Seq({"smtp", "mock"}) /\ mock' \in BOOLEAN
    BY DEF CodeTypeOK, Delete, hist, RollBack, store
  <2>3. key' \in 0..calls' /\ last' \in 0..calls' /\ calls' \in 0..MaxCalls
    BY DEF Active, At, CodeTypeOK, Delete, Fresh, hist, RollBack, store
  <2>4. codeTTL' \in 0..Expiry /\ coolTTL' \in 0..Cooldown /\ okLeft' \in 0..Cooldown
    BY DEF CodeTypeOK, Delete, hist, RollBack, store
  <2>5. /\ received' \subseteq 1..calls' /\ reported' \subseteq received'
        /\ spent' \subseteq 1..calls' /\ uses' \in [1..MaxCalls -> Nat]
    BY DEF Active, At, CodeTypeOK, Delete, Fresh, hist, RollBack, store
  <2>6. late' \in BOOLEAN
    BY DEF CodeTypeOK, Delete, hist, RollBack, store
  <2>7. blocked' \in BOOLEAN
    BY Zenon DEF CodeTypeOK, Delete, hist, RollBack, store
  <2>8. faults' \in 0..MaxFaults
    BY DEF Answer, CodeTypeOK, Delete, Reply, RollBack
  <2> QED BY <2>1, <2>2, <2>3, <2>4, <2>5, <2>6, <2>7, <2>8 DEF CodeTypeOK, Calls
<1>8. ASSUME NEW h \in Caller, Resend(h)
       PROVE  CodeTypeOK'
  <2> USE <1>8
  <2>1. call' \in [Caller -> Calls]
    BY DEF Active, At, Calls, CodeTypeOK, Ends, Fresh, Goes, Idle, Resend
  <2>2. route' \in Seq({"smtp", "mock"}) /\ mock' \in BOOLEAN
    BY DEF CodeTypeOK, hist, Resend, store, Store
  <2>3. key' \in 0..calls' /\ last' \in 0..calls' /\ calls' \in 0..MaxCalls
    BY DEF Active, At, CodeTypeOK, Fresh, hist, Resend, Store, store
  <2>4. codeTTL' \in 0..Expiry /\ coolTTL' \in 0..Cooldown /\ okLeft' \in 0..Cooldown
    BY DEF CodeTypeOK, hist, Resend, store, Store
  <2>5. /\ received' \subseteq 1..calls' /\ reported' \subseteq received'
        /\ spent' \subseteq 1..calls' /\ uses' \in [1..MaxCalls -> Nat]
    BY DEF Active, At, CodeTypeOK, Fresh, hist, Resend, Store, store
  <2>6. late' \in BOOLEAN
    BY DEF CodeTypeOK, hist, Resend, store, Store
  <2>7. blocked' \in BOOLEAN
    BY DEF CodeTypeOK, hist, Resend, store, Store
  <2>8. faults' \in 0..MaxFaults
    BY DEF Answer, CodeTypeOK, Reply, Resend, Store
  <2> QED BY <2>1, <2>2, <2>3, <2>4, <2>5, <2>6, <2>7, <2>8 DEF CodeTypeOK, Calls
<1>9. ASSUME NEW h \in Caller, Abandon(h)
       PROVE  CodeTypeOK'
  <2> USE <1>9
  <2>1. call' \in [Caller -> Calls]
    BY DEF Abandon, Active, At, Calls, CodeTypeOK, Ends, Fresh, Goes, Idle
  <2>2. route' \in Seq({"smtp", "mock"}) /\ mock' \in BOOLEAN
    BY DEF Abandon, CodeTypeOK, hist, store
  <2>3. key' \in 0..calls' /\ last' \in 0..calls' /\ calls' \in 0..MaxCalls
    BY DEF Abandon, Active, At, CodeTypeOK, Fresh, hist, store
  <2>4. codeTTL' \in 0..Expiry /\ coolTTL' \in 0..Cooldown /\ okLeft' \in 0..Cooldown
    BY DEF Abandon, CodeTypeOK, hist, store
  <2>5. /\ received' \subseteq 1..calls' /\ reported' \subseteq received'
        /\ spent' \subseteq 1..calls' /\ uses' \in [1..MaxCalls -> Nat]
    BY DEF Abandon, Active, At, CodeTypeOK, Fresh, hist, store
  <2>6. late' \in BOOLEAN
    BY DEF Abandon, CodeTypeOK, hist, store
  <2>7. blocked' \in BOOLEAN
    BY DEF Abandon, CodeTypeOK, hist, store
  <2>8. faults' \in 0..MaxFaults
    BY DEF Abandon, Answer, CodeTypeOK, Reply
  <2> QED BY <2>1, <2>2, <2>3, <2>4, <2>5, <2>6, <2>7, <2>8 DEF CodeTypeOK, Calls
<1>10. ASSUME NEW c \in (IF mock THEN 1..calls ELSE received), NEW r \in Reply, VerifyCode(c, r)
       PROVE  CodeTypeOK'
  <2> USE <1>10
  <2>1. call' \in [Caller -> Calls]
    BY DEF Active, At, Calls, CodeTypeOK, Ends, Fresh, Goes, Idle, VerifyCode
  <2>2. route' \in Seq({"smtp", "mock"}) /\ mock' \in BOOLEAN
    BY DEF CodeTypeOK, hist, Matches, store, Take, VerifyCode
  <2>3. key' \in 0..calls' /\ last' \in 0..calls' /\ calls' \in 0..MaxCalls
    <3>1. key' = 0 \/ key' = key
      BY DEF VerifyCode, Take, Reply
    <3>2. UNCHANGED <<last, calls>>
      BY DEF VerifyCode
    <3> QED BY <3>1, <3>2 DEF CodeTypeOK
  <2>4. codeTTL' \in 0..Expiry /\ coolTTL' \in 0..Cooldown /\ okLeft' \in 0..Cooldown
    BY DEF CodeTypeOK, hist, Matches, store, Take, VerifyCode
  <2>5. /\ received' \subseteq 1..calls' /\ reported' \subseteq received'
        /\ spent' \subseteq 1..calls' /\ uses' \in [1..MaxCalls -> Nat]
    <3>1. UNCHANGED <<received, reported, calls>> /\ key # 0
      BY DEF VerifyCode, Matches
    <3>2. spent' \subseteq spent \cup {key}
      BY DEF VerifyCode, Take, Reply
    <3>3. c \in 1..MaxCalls
      BY DEF CodeTypeOK
    <3>4. uses' = uses \/ uses' = [uses EXCEPT ![c] = @ + 1]
      BY DEF VerifyCode, Take, Reply
    <3>5. uses' \in [1..MaxCalls -> Nat]
      <4>1. uses \in [1..MaxCalls -> Nat] /\ uses[c] + 1 \in Nat
        BY <3>3 DEF CodeTypeOK
      <4> QED BY <3>4, <4>1
    <3> QED BY <3>1, <3>2, <3>5 DEF CodeTypeOK
  <2>6. late' \in BOOLEAN
    BY DEF CodeTypeOK, hist, Matches, store, Take, VerifyCode
  <2>7. blocked' \in BOOLEAN
    BY DEF CodeTypeOK, hist, Matches, store, Take, VerifyCode
  <2>8. faults' \in 0..MaxFaults
    BY DEF Answer, CodeTypeOK, Matches, Reply, Take, VerifyCode
  <2> QED BY <2>1, <2>2, <2>3, <2>4, <2>5, <2>6, <2>7, <2>8 DEF CodeTypeOK, Calls
<1>11. CASE UNCHANGED cvars
  BY <1>11 DEF cvars, CodeTypeOK
<1> QED BY <1>1, <1>2, <1>3, <1>4, <1>5, <1>6, <1>7, <1>8, <1>9, <1>10, <1>11 DEF Next, SendCode

LEMMA FreshStep ==
    ASSUME CodeTypeOK, Fresh, [Next]_cvars
    PROVE  Fresh'
<1> USE CodeAssumption DEF Fresh, Active, CallAfter
<1>0. NumbersOK
  BY Numbers
<1> USE <1>0 DEF NumbersOK
<1>1. CASE Tick
  <2>1. \A g \in Caller : call'[g].at = call[g].at /\ call'[g].id = call[g].id
    BY <1>1, TickCall
  <2>2. UNCHANGED <<calls, received, reported>>
    BY <1>1 DEF Tick
  <2> QED BY <2>1, <2>2
<1>2. ASSUME NEW h \in Caller, NEW r \in Reply, Claim(h, r)
       PROVE  Fresh'
  <2>1. ClaimEffect(h, r)
    BY <1>2, ClaimCall
  <2> QED BY SMTT(40), <1>2, <2>1 DEF At, Claim, ClaimEffect, hist, store
<1>3. ASSUME NEW h \in Caller, NEW r \in Reply, Generate(h, r)
       PROVE  Fresh'
  <2>1. GenerateEffect(h, r)
    BY <1>3, GenerateCall
  <2> QED BY SMTT(40), <1>3, <2>1 DEF At, Generate, GenerateEffect, hist, store
<1>4. ASSUME NEW h \in Caller, NEW r \in Reply, StoreCode(h, r)
       PROVE  Fresh'
  <2>1. StoreCodeEffect(h, r)
    BY <1>4, StoreCodeCall
  <2> QED BY SMTT(40), <1>4, <2>1 DEF At, hist, store, Store, StoreCode, StoreCodeEffect
<1>5. ASSUME NEW h \in Caller, NEW o \in {"sent", "failed", "late"}, Send(h, o)
       PROVE  Fresh'
  <2>1. SendEffect(h, o)
    BY <1>5, SendCall
  <2> QED BY SMTT(40), <1>5, <2>1 DEF At, hist, Send, SendEffect, store
<1>6. ASSUME NEW h \in Caller, SendFails(h)
       PROVE  Fresh'
  <2>1. CallAfter(h, "undo", call[h].id, call[h].left)
    BY <1>6, SendFailsCall DEF SendFailsEffect
  <2>2. UNCHANGED <<calls, received, reported>> /\ call[h].at = "send"
    BY <1>6 DEF SendFails, hist, At
  <2> QED BY SMTT(40), <2>1, <2>2
<1>7. ASSUME NEW h \in Caller, NEW r \in Reply, RollBack(h, r)
       PROVE  Fresh'
  <2>1. RollBackEffect(h, r)
    BY <1>7, RollBackCall
  <2> QED BY SMTT(40), <1>7, <2>1 DEF At, Delete, hist, RollBack, RollBackEffect, store
<1>8. ASSUME NEW h \in Caller, Resend(h)
       PROVE  Fresh'
  <2>1. UNCHANGED call
    BY <1>8, ResendCall
  <2> QED BY SMTT(40), <1>8, <2>1 DEF At, hist, Resend, store, Store
<1>9. ASSUME NEW h \in Caller, Abandon(h)
       PROVE  Fresh'
  <2>1. AbandonEffect(h)
    BY <1>9, AbandonCall
  <2> QED BY SMTT(40), <1>9, <2>1 DEF Abandon, AbandonEffect, At, hist, store
<1>10. ASSUME NEW c \in (IF mock THEN 1..calls ELSE received), NEW r \in Reply, VerifyCode(c, r)
       PROVE  Fresh'
  <2>1. UNCHANGED call
    BY <1>10, VerifyCodeCall
  <2> QED BY SMTT(40), <1>10, <2>1 DEF At, hist, Matches, store, Take, VerifyCode
<1>11. CASE UNCHANGED cvars
  BY <1>11 DEF cvars
<1> QED BY <1>1, <1>2, <1>3, <1>4, <1>5, <1>6, <1>7, <1>8, <1>9, <1>10, <1>11 DEF Next, SendCode

LEMMA OnceStep ==
    ASSUME CodeTypeOK, Fresh, Once, [Next]_cvars
    PROVE  Once'
<1> USE CodeAssumption DEF Fresh, Once, Active, CallAfter
<1>0. NumbersOK
  BY Numbers
<1> USE <1>0 DEF NumbersOK
<1>1. CASE Tick
  <2>1. \A g \in Caller :
              /\ call'[g].at = call[g].at /\ call'[g].id = call[g].id
              /\ call'[g].left = Less(call[g].left)
    BY <1>1, TickCall
  <2> QED BY SMTT(40), <1>1, <2>1 DEF At, hist, Less, store, Tick
<1>2. ASSUME NEW h \in Caller, NEW r \in Reply, Claim(h, r)
       PROVE  Once'
  <2>1. ClaimEffect(h, r)
    BY <1>2, ClaimCall
  <2> QED BY SMTT(40), <1>2, <2>1 DEF At, Claim, ClaimEffect, hist, store
<1>3. ASSUME NEW h \in Caller, NEW r \in Reply, Generate(h, r)
       PROVE  Once'
  <2>1. GenerateEffect(h, r)
    BY <1>3, GenerateCall
  <2> QED BY SMTT(40), <1>3, <2>1 DEF At, Generate, GenerateEffect, hist, store
<1>4. ASSUME NEW h \in Caller, NEW r \in Reply, StoreCode(h, r)
       PROVE  Once'
  <2>1. StoreCodeEffect(h, r)
    BY <1>4, StoreCodeCall
  <2> QED BY SMTT(40), <1>4, <2>1 DEF At, hist, store, Store, StoreCode, StoreCodeEffect
<1>5. ASSUME NEW h \in Caller, NEW o \in {"sent", "failed", "late"}, Send(h, o)
       PROVE  Once'
  <2>1. SendEffect(h, o)
    BY <1>5, SendCall
  <2> QED BY SMTT(40), <1>5, <2>1 DEF At, hist, Send, SendEffect, store
<1>6. ASSUME NEW h \in Caller, SendFails(h)
       PROVE  Once'
  <2>1. SendFailsEffect(h)
    BY <1>6, SendFailsCall
  <2> QED BY SMTT(40), <1>6, <2>1 DEF At, hist, SendFails, SendFailsEffect, store
<1>7. ASSUME NEW h \in Caller, NEW r \in Reply, RollBack(h, r)
       PROVE  Once'
  <2>1. RollBackEffect(h, r)
    BY <1>7, RollBackCall
  <2> QED BY SMTT(40), <1>7, <2>1 DEF At, Delete, hist, RollBack, RollBackEffect, store
<1>8. ASSUME NEW h \in Caller, Resend(h)
       PROVE  Once'
  <2>1. UNCHANGED call
    BY <1>8, ResendCall
  <2> QED BY SMTT(40), <1>8, <2>1 DEF At, hist, Resend, store, Store
<1>9. ASSUME NEW h \in Caller, Abandon(h)
       PROVE  Once'
  <2>1. AbandonEffect(h)
    BY <1>9, AbandonCall
  <2> QED BY SMTT(40), <1>9, <2>1 DEF Abandon, AbandonEffect, At, hist, store
<1>10. ASSUME NEW c \in (IF mock THEN 1..calls ELSE received), NEW r \in Reply, VerifyCode(c, r)
       PROVE  Once'
  <2> SUFFICES ASSUME ~mock', NEW d \in 1..MaxCalls
               PROVE  /\ uses'[d] <= 1
                      /\ uses'[d] = 1 => d \in received' /\ key' # d
    OBVIOUS
  <2>1. ~mock /\ c \in received /\ key = c /\ received' = received
    BY <1>10 DEF VerifyCode, Matches
  <2>2. CASE r = "ok"
    <3>1. key' = 0 /\ uses' = [uses EXCEPT ![c] = @ + 1]
      BY <1>10, <2>2 DEF VerifyCode, Take
    <3>2. uses[c] = 0 /\ uses[d] \in Nat
      BY <2>1
    <3>3. CASE d = c
      BY <2>1, <3>1, <3>2, <3>3
    <3>4. CASE d # c
      BY <2>1, <3>1, <3>2, <3>4
    <3> QED BY <3>3, <3>4
  <2>3. CASE r # "ok"
    <3>1. (key' = 0 \/ key' = key) /\ uses' = uses
      BY <1>10, <2>3 DEF VerifyCode, Reply
    <3> QED BY <2>1, <3>1
  <2> QED BY <2>2, <2>3
<1>11. CASE UNCHANGED cvars
  BY <1>11 DEF cvars
<1> QED BY <1>1, <1>2, <1>3, <1>4, <1>5, <1>6, <1>7, <1>8, <1>9, <1>10, <1>11 DEF Next, SendCode

LEMMA HolderStep ==
    ASSUME CodeTypeOK, OneHolder, [Next]_cvars
    PROVE  OneHolder'
<1> USE CodeAssumption DEF OneHolder, Active, Holder, CallAfter
<1>0. NumbersOK
  BY Numbers
<1> USE <1>0 DEF NumbersOK
<1>1. CASE Tick
  <2>1. \A g \in Caller :
              /\ call'[g].at = call[g].at /\ call'[g].id = call[g].id
              /\ call'[g].left = Less(call[g].left)
    BY <1>1, TickCall
  <2>2. /\ coolTTL' = Less(coolTTL) /\ okLeft' = Less(okLeft)
        /\ UNCHANGED <<last, late>>
    BY <1>1 DEF Tick
  <2>3. \A n \in Nat : Less(n) > 0 => n > 0
    BY DEF Less
  <2>4. Less(0) = 0
    BY DEF Less
  <2>5. \A g \in Caller : call[g].left \in Nat
    OBVIOUS
  <2>6. ASSUME NEW g \in Caller, Holder(g)'
        PROVE  Holder(g)
    BY <2>1, <2>3, <2>5, <2>6
  <2> QED BY <2>1, <2>2, <2>3, <2>4, <2>6
<1>2. ASSUME NEW h \in Caller, NEW r \in Reply, Claim(h, r)
       PROVE  OneHolder'
  <2>1. ClaimEffect(h, r)
    BY <1>2, ClaimCall
  <2> QED BY SMTT(40), <1>2, <2>1 DEF At, Claim, ClaimEffect, hist, store
<1>3. ASSUME NEW h \in Caller, NEW r \in Reply, Generate(h, r)
       PROVE  OneHolder'
  <2>1. GenerateEffect(h, r)
    BY <1>3, GenerateCall
  <2> QED BY SMTT(40), <1>3, <2>1 DEF At, Generate, GenerateEffect, hist, store
<1>4. ASSUME NEW h \in Caller, NEW r \in Reply, StoreCode(h, r)
       PROVE  OneHolder'
  <2> SUFFICES ASSUME ~late'
               PROVE  /\ okLeft' > 0 => coolTTL' = okLeft'
                      /\ \A g \in Caller : Holder(g)' =>
                            /\ coolTTL' = call'[g].left /\ okLeft' = 0
                            /\ \A k \in Caller : Holder(k)' => k = g
                            /\ call'[g].at \in {"send", "undo"} => last' = call'[g].id
    OBVIOUS
  <2>1. CallAfter(h, IF r = "ok" THEN "send" ELSE "unclaim", call[h].id, call[h].left)
    BY <1>4, StoreCodeCall DEF StoreCodeEffect
  <2>2. ~late /\ coolTTL' = coolTTL /\ okLeft' = okLeft /\ Active(h)
    BY <1>4 DEF StoreCode, Store, store, At
  <2>3. \A g \in Caller : Holder(g)' => Holder(g)
    BY <2>1, <2>2
  <2>4. CASE r = "refused"
    <3>1. last' = last
      BY <1>4, <2>4 DEF StoreCode, store
    <3> QED BY <2>1, <2>2, <2>3, <2>4, <3>1
  <2>5. CASE r # "refused"
    <3>1. last' = call[h].id /\ call[h].left # 0
      BY <1>4, <2>5 DEF StoreCode, Store
    <3>2. Holder(h)
      BY <2>2, <3>1
    <3> QED BY <2>1, <2>2, <2>3, <3>1, <3>2
  <2> QED BY <2>4, <2>5
<1>5. ASSUME NEW h \in Caller, NEW o \in {"sent", "failed", "late"}, Send(h, o)
       PROVE  OneHolder'
  <2>1. SendEffect(h, o)
    BY <1>5, SendCall
  <2> QED BY SMTT(40), <1>5, <2>1 DEF At, hist, Send, SendEffect, store
<1>6. ASSUME NEW h \in Caller, SendFails(h)
       PROVE  OneHolder'
  <2>1. SendFailsEffect(h)
    BY <1>6, SendFailsCall
  <2> QED BY SMTT(40), <1>6, <2>1 DEF At, hist, SendFails, SendFailsEffect, store
<1>7. ASSUME NEW h \in Caller, NEW r \in Reply, RollBack(h, r)
       PROVE  OneHolder'
  <2> SUFFICES ASSUME ~late'
               PROVE  /\ okLeft' > 0 => coolTTL' = okLeft'
                      /\ \A g \in Caller : Holder(g)' =>
                            /\ coolTTL' = call'[g].left /\ okLeft' = 0
                            /\ \A k \in Caller : Holder(k)' => k = g
                            /\ call'[g].at \in {"send", "undo"} => last' = call'[g].id
    OBVIOUS
  <2>1. CallAfter(h, "idle", 0, 0)
    BY <1>7, RollBackCall DEF RollBackEffect
  <2>2. ~late /\ last' = last /\ okLeft' = okLeft /\ Active(h)
    BY <1>7 DEF RollBack, Delete, store, At
  <2>3. \A g \in Caller : Holder(g)' => Holder(g) /\ g # h
    BY <2>1
  <2>4. CASE r = "refused"
    <3>1. coolTTL' = coolTTL
      BY <1>7, <2>4 DEF RollBack, store
    <3> QED BY <2>1, <2>2, <2>3, <3>1
  <2>5. CASE r # "refused"
    <3>1. call[h].left # 0
      BY <1>7, <2>5 DEF RollBack, Delete
    <3>2. Holder(h)
      BY <2>2, <3>1
    <3> QED BY <2>2, <2>3, <3>2
  <2> QED BY <2>4, <2>5
<1>8. ASSUME NEW h \in Caller, Resend(h)
       PROVE  OneHolder'
  <2> SUFFICES ASSUME ~late'
               PROVE  /\ okLeft' > 0 => coolTTL' = okLeft'
                      /\ \A g \in Caller : Holder(g)' =>
                            /\ coolTTL' = call'[g].left /\ okLeft' = 0
                            /\ \A k \in Caller : Holder(k)' => k = g
                            /\ call'[g].at \in {"send", "undo"} => last' = call'[g].id
    OBVIOUS
  <2>1. UNCHANGED call
    BY <1>8, ResendCall
  <2>2. ~late /\ coolTTL' = coolTTL /\ okLeft' = okLeft
    BY <1>8 DEF Resend, Store
  <2>3. At(h, "store") /\ last' = call[h].id /\ call[h].left # 0
    BY <1>8 DEF Resend, Store
  <2>4. Holder(h)
    BY <2>3 DEF At
  <2> QED BY <2>1, <2>2, <2>3, <2>4
<1>9. ASSUME NEW h \in Caller, Abandon(h)
       PROVE  OneHolder'
  <2>1. AbandonEffect(h)
    BY <1>9, AbandonCall
  <2> QED BY SMTT(40), <1>9, <2>1 DEF Abandon, AbandonEffect, At, hist, store
<1>10. ASSUME NEW c \in (IF mock THEN 1..calls ELSE received), NEW r \in Reply, VerifyCode(c, r)
       PROVE  OneHolder'
  <2>1. UNCHANGED call
    BY <1>10, VerifyCodeCall
  <2> QED BY SMTT(40), <1>10, <2>1 DEF At, hist, Matches, store, Take, VerifyCode
<1>11. CASE UNCHANGED cvars
  BY <1>11 DEF cvars
<1> QED BY <1>1, <1>2, <1>3, <1>4, <1>5, <1>6, <1>7, <1>8, <1>9, <1>10, <1>11 DEF Next, SendCode

LEMMA KeptStep ==
    ASSUME CodeTypeOK, Fresh, OneHolder, Kept, [Next]_cvars
    PROVE  Kept'
<1> USE CodeAssumption DEF Fresh, OneHolder, Kept, Active, Holder, CallAfter
<1>0. NumbersOK
  BY Numbers
<1> USE <1>0 DEF NumbersOK
<1>1. CASE Tick
  <2>1. \A g \in Caller : call'[g].at = call[g].at /\ call'[g].id = call[g].id
    BY <1>1, TickCall
  <2>2. /\ UNCHANGED <<last, reported, spent, late>>
        /\ codeTTL' = Less(codeTTL) /\ key' = IF codeTTL <= 1 THEN 0 ELSE key
    BY <1>1 DEF Tick
  <2>3. codeTTL <= 1 => codeTTL' = 0
    BY <2>2 DEF Less
  <2>4. codeTTL = 0 => codeTTL' = 0
    BY <2>2 DEF Less
  <2> QED BY <2>1, <2>2, <2>3, <2>4
<1>2. ASSUME NEW h \in Caller, NEW r \in Reply, Claim(h, r)
       PROVE  Kept'
  <2>1. ClaimEffect(h, r)
    BY <1>2, ClaimCall
  <2> QED BY SMTT(40), <1>2, <2>1 DEF At, Claim, ClaimEffect, hist, store
<1>3. ASSUME NEW h \in Caller, NEW r \in Reply, Generate(h, r)
       PROVE  Kept'
  <2>1. GenerateEffect(h, r)
    BY <1>3, GenerateCall
  <2> QED BY SMTT(40), <1>3, <2>1 DEF At, Generate, GenerateEffect, hist, store
<1>4. ASSUME NEW h \in Caller, NEW r \in Reply, StoreCode(h, r)
       PROVE  Kept'
  <2>1. StoreCodeEffect(h, r)
    BY <1>4, StoreCodeCall
  <2> QED BY SMTT(40), <1>4, <2>1 DEF At, hist, store, Store, StoreCode, StoreCodeEffect
<1>5. ASSUME NEW h \in Caller, NEW o \in {"sent", "failed", "late"}, Send(h, o)
       PROVE  Kept'
  <2>1. SendEffect(h, o)
    BY <1>5, SendCall
  <2> QED BY SMTT(40), <1>5, <2>1 DEF At, hist, Send, SendEffect, store
<1>6. ASSUME NEW h \in Caller, SendFails(h)
       PROVE  Kept'
  <2>1. SendFailsEffect(h)
    BY <1>6, SendFailsCall
  <2> QED BY SMTT(40), <1>6, <2>1 DEF At, hist, SendFails, SendFailsEffect, store
<1>7. ASSUME NEW h \in Caller, NEW r \in Reply, RollBack(h, r)
       PROVE  Kept'
  <2> SUFFICES ASSUME \/ last' \in reported'
                      \/ \E g \in Caller : call'[g].at = "send" /\ call'[g].id = last'
               PROVE  key' = last' \/ last' \in spent' \/ codeTTL' = 0 \/ late'
    OBVIOUS
  <2>1. CallAfter(h, "idle", 0, 0)
    BY <1>7, RollBackCall DEF RollBackEffect
  <2>2. UNCHANGED <<last, reported, spent, codeTTL>> /\ Active(h)
    BY <1>7 DEF RollBack, Delete, store, At
  <2>3. CASE key' = key
    <3>1. late => late'
      BY <1>7 DEF RollBack, Delete
    <3> QED BY <2>1, <2>2, <2>3, <3>1
  <2>4. CASE key' # key /\ ~late'
    <3>1. call[h].at = "undo" /\ call[h].left # 0 /\ ~late
      BY <1>7, <2>4 DEF RollBack, Delete, store, At
    <3>2. Holder(h) /\ last = call[h].id
      BY <2>2, <3>1
    <3>3. last \notin reported
      BY <2>2, <3>2
    <3>4. \A g \in Caller : call'[g].at = "send" => g # h /\ Active(g) /\ call'[g].id = call[g].id
      BY <2>1
    <3>5. \A g \in Caller : Active(g) /\ call[g].id = last => g = h
      BY <2>2, <3>2
    <3> QED BY <2>2, <3>3, <3>4, <3>5
  <2> QED BY <2>3, <2>4
<1>8. ASSUME NEW h \in Caller, Resend(h)
       PROVE  Kept'
  <2>1. UNCHANGED call
    BY <1>8, ResendCall
  <2> QED BY SMTT(40), <1>8, <2>1 DEF At, hist, Resend, store, Store
<1>9. ASSUME NEW h \in Caller, Abandon(h)
       PROVE  Kept'
  <2>1. AbandonEffect(h)
    BY <1>9, AbandonCall
  <2> QED BY SMTT(40), <1>9, <2>1 DEF Abandon, AbandonEffect, At, hist, store
<1>10. ASSUME NEW c \in (IF mock THEN 1..calls ELSE received), NEW r \in Reply, VerifyCode(c, r)
       PROVE  Kept'
  <2> SUFFICES ASSUME \/ last' \in reported'
                      \/ \E g \in Caller : call'[g].at = "send" /\ call'[g].id = last'
               PROVE  key' = last' \/ last' \in spent' \/ codeTTL' = 0 \/ late'
    OBVIOUS
  <2>1. UNCHANGED <<call, last, reported, codeTTL, late>>
    BY <1>10 DEF VerifyCode
  <2>2. \/ key' = key /\ spent' = spent
        \/ spent' = spent \cup {key}
    BY <1>10 DEF VerifyCode, Take, Reply
  <2> QED BY <2>1, <2>2
<1>11. CASE UNCHANGED cvars
  BY <1>11 DEF cvars
<1> QED BY <1>1, <1>2, <1>3, <1>4, <1>5, <1>6, <1>7, <1>8, <1>9, <1>10, <1>11 DEF Next, SendCode

LEMMA OwnedStep ==
    ASSUME CodeTypeOK, Owned, [Next]_cvars
    PROVE  Owned'
<1> USE CodeAssumption DEF Owned, Active, CallAfter
<1>0. NumbersOK
  BY Numbers
<1> USE <1>0 DEF NumbersOK
<1>1. CASE Tick
  <2> SUFFICES ASSUME coolTTL' > 0
               PROVE  \/ blocked' \/ okLeft' >= coolTTL'
                      \/ \E g \in Caller : Active(g)' /\ call'[g].left >= coolTTL'
    OBVIOUS
  <2>1. \A g \in Caller : call'[g].at = call[g].at /\ call'[g].left = Less(call[g].left)
    BY <1>1, TickCall
  <2>2. /\ coolTTL' = Less(coolTTL) /\ okLeft' = Less(okLeft)
        /\ blocked' = (blocked /\ coolTTL > 1)
    BY <1>1 DEF Tick
  <2>3. coolTTL > 1
    BY <2>2 DEF Less
  <2>4. \A m, n \in Nat : m >= n => Less(m) >= Less(n)
    BY DEF Less
  <2>5. CASE blocked
    BY <2>2, <2>3, <2>5
  <2>6. CASE okLeft >= coolTTL
    BY <2>2, <2>4, <2>6
  <2>7. CASE \E g \in Caller : Active(g) /\ call[g].left >= coolTTL
    <3>1. PICK g \in Caller : Active(g) /\ call[g].left >= coolTTL
      BY <2>7
    <3>2. call[g].left \in Nat
      OBVIOUS
    <3>3. call'[g].left >= coolTTL'
      BY <2>1, <2>2, <2>4, <3>1, <3>2
    <3> QED BY <2>1, <3>1, <3>3
  <2> QED BY <2>3, <2>5, <2>6, <2>7
<1>2. ASSUME NEW h \in Caller, NEW r \in Reply, Claim(h, r)
       PROVE  Owned'
  <2>1. CASE r = "ok"
    <3>1. CallAfter(h, "generate", calls + 1, Cooldown)
      BY <1>2, <2>1, ClaimCall DEF ClaimEffect
    <3>2. coolTTL' = Cooldown
      BY <1>2, <2>1 DEF Claim
    <3> QED BY <3>1, <3>2
  <2>2. CASE r = "refused"
    BY <1>2, <2>2 DEF Claim
  <2>3. CASE r = "unanswered"
    BY <1>2, <2>3 DEF Claim
  <2> QED BY <2>1, <2>2, <2>3 DEF Reply
<1>3. ASSUME NEW h \in Caller, NEW r \in Reply, Generate(h, r)
       PROVE  Owned'
  <2>1. GenerateEffect(h, r)
    BY <1>3, GenerateCall
  <2> QED BY SMTT(40), <1>3, <2>1 DEF At, Generate, GenerateEffect, hist, store
<1>4. ASSUME NEW h \in Caller, NEW r \in Reply, StoreCode(h, r)
       PROVE  Owned'
  <2>1. StoreCodeEffect(h, r)
    BY <1>4, StoreCodeCall
  <2> QED BY SMTT(40), <1>4, <2>1 DEF At, hist, store, Store, StoreCode, StoreCodeEffect
<1>5. ASSUME NEW h \in Caller, NEW o \in {"sent", "failed", "late"}, Send(h, o)
       PROVE  Owned'
  <2>1. SendEffect(h, o)
    BY <1>5, SendCall
  <2> QED BY SMTT(40), <1>5, <2>1 DEF At, hist, Send, SendEffect, store
<1>6. ASSUME NEW h \in Caller, SendFails(h)
       PROVE  Owned'
  <2>1. SendFailsEffect(h)
    BY <1>6, SendFailsCall
  <2> QED BY SMTT(40), <1>6, <2>1 DEF At, hist, SendFails, SendFailsEffect, store
<1>7. ASSUME NEW h \in Caller, NEW r \in Reply, RollBack(h, r)
       PROVE  Owned'
  <2>1. CASE r = "refused"
    <3>1. coolTTL' = coolTTL /\ (coolTTL > 0 => blocked')
      BY <1>7, <2>1 DEF RollBack, store
    <3> QED BY <3>1
  <2>2. CASE r # "refused"
    <3>1. coolTTL' = 0
      BY <1>7, <2>2 DEF RollBack, Delete
    <3> QED BY <3>1
  <2> QED BY <2>1, <2>2
<1>8. ASSUME NEW h \in Caller, Resend(h)
       PROVE  Owned'
  <2>1. UNCHANGED call
    BY <1>8, ResendCall
  <2> QED BY SMTT(40), <1>8, <2>1 DEF At, hist, Resend, store, Store
<1>9. ASSUME NEW h \in Caller, Abandon(h)
       PROVE  Owned'
  <2>1. AbandonEffect(h)
    BY <1>9, AbandonCall
  <2> QED BY SMTT(40), <1>9, <2>1 DEF Abandon, AbandonEffect, At, hist, store
<1>10. ASSUME NEW c \in (IF mock THEN 1..calls ELSE received), NEW r \in Reply, VerifyCode(c, r)
       PROVE  Owned'
  <2>1. UNCHANGED call
    BY <1>10, VerifyCodeCall
  <2> QED BY SMTT(40), <1>10, <2>1 DEF At, hist, Matches, store, Take, VerifyCode
<1>11. CASE UNCHANGED cvars
  BY <1>11 DEF cvars
<1> QED BY <1>1, <1>2, <1>3, <1>4, <1>5, <1>6, <1>7, <1>8, <1>9, <1>10, <1>11 DEF Next, SendCode

(* The inductive invariant.                                                 *)
THEOREM CodeInvariance == Spec => []CodeInv
<1>1. CodeInv /\ [Next]_cvars => CodeInv'
  BY TypeStep, FreshStep, OnceStep, HolderStep, KeptStep, OwnedStep DEF CodeInv
<1> QED BY <1>1, CodeInit, PTL DEF Spec

(* Every variable stays in its type.                                        *)
THEOREM CodeTypes == Spec => []CodeTypeOK
BY CodeInvariance, PTL DEF CodeInv

(* A code is accepted at most once.                                         *)
THEOREM CodesAreSingleUse == Spec => []CodeOnce
<1>1. CodeInv => CodeOnce
  <2>1. CodeInv => \A c \in 1..calls : c \in 1..MaxCalls
    BY CodeAssumption DEF CodeInv, CodeTypeOK
  <2> QED BY <2>1 DEF CodeInv, Once, CodeOnce
<1> QED BY <1>1, CodeInvariance, PTL

(* A code that was sent stays valid until it is taken, expires or is        *)
(* replaced, unless a call acts after its cooldown.                         *)
THEOREM SentCodesLive == Spec => []LiveCode
<1>1. CodeInv => LiveCode
  BY DEF CodeInv, CodeTypeOK, Kept, LiveCode
<1> QED BY <1>1, CodeInvariance, PTL

(* One cooldown, one call that sends.                                       *)
THEOREM OneSendPerCooldown == Spec => []OnePerCooldown
<1>1. CodeInv => OnePerCooldown
  <2> SUFFICES ASSUME CodeInv, ~late
               PROVE  Cardinality(Sending) + (IF okLeft > 0 THEN 1 ELSE 0) <= 1
    BY DEF OnePerCooldown
  <2>1. \A h \in Sending : h \in Caller /\ Holder(h)
    BY DEF Sending, Holder, Active
  <2>2. CASE Sending = {}
    BY <2>2, FS_EmptySet
  <2>3. CASE Sending # {}
    <3>1. PICK h \in Sending : TRUE
      BY <2>3
    <3>2. Sending = {h} /\ okLeft = 0
      BY <2>1, <3>1 DEF CodeInv, OneHolder
    <3>3. Cardinality(Sending) = 1
      BY <3>2, FS_Singleton
    <3> QED BY <3>2, <3>3
  <2> QED BY <2>2, <2>3
<1> QED BY <1>1, CodeInvariance, PTL

(* When nobody is sending, a cooldown stands only for a code that was sent  *)
(* or because something failed on the way.                                  *)
THEOREM FailureFreesCooldown == Spec => []RetryAfterFailure
<1>1. CodeInv => RetryAfterFailure
  BY DEF CodeInv, CodeTypeOK, Owned, Active, RetryAfterFailure, At
<1> QED BY <1>1, CodeInvariance, PTL
==================================================================================
