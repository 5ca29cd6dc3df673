------------------------- MODULE SessionStore_proofs -------------------------
(***************************************************************************)
(* Proofs about SessionStore for any number of sessions, of RevokeAll      *)
(* callers, of errors and any TTL, in both device modes. The invariant     *)
(* IInv has five parts; each is shown to be kept by every action (one step *)
(* per Redis command). From it follow the safety properties of the store,  *)
(* the verdicts of Validate, and that the store implements SessionRegistry.*)
(***************************************************************************)
EXTENDS SessionStore, FiniteSetTheorems, TLAPS

(* No command takes a variable out of its type.                             *)
LEMMA TypeStep == TypeOK /\ [Next]_vars => TypeOK'
  <1> SUFFICES ASSUME TypeOK, [Next]_vars PROVE TypeOK'
      OBVIOUS
  <1>0. overlap' \in BOOLEAN
    <2>1. CASE overlap' = (overlap \/ ~Apart')
      BY <2>1 DEF TypeOK
    <2>2. CASE overlap' = (overlap \/ InFlight > 0)
      BY <2>2 DEF TypeOK
    <2>3. CASE UNCHANGED vars
      BY <2>3 DEF vars, TypeOK
    <2>. QED BY <2>1, <2>2, <2>3 DEF Next
  <1> USE <1>0 DEF config, redis, setKey, activeKey, revokeVars, allVars, history, losses
  <1>1. ASSUME NEW s \in Sid, Register(s) PROVE TypeOK'
    <2>1. CASE RegisterStart(s)
      BY <2>1, SessionAssumption DEF RegisterStart, RegisterAt, TypeOK, Checks
    <2>2. ASSUME NEW r \in Reply, RegisterSet(s, r) PROVE TypeOK'
      BY <2>2, SessionAssumption DEF RegisterSet, RegisterAt, Answer,
         Executed, Reply, TypeOK, Checks
    <2>3. ASSUME NEW r \in Reply, RegisterSAdd(s, r) PROVE TypeOK'
      BY <2>3, SessionAssumption DEF RegisterSAdd, RegisterAt, Answer,
         Executed, SetMembers, Reply, TypeOK, Checks
    <2>4. ASSUME NEW r \in Reply, RegisterExpire(s, r) PROVE TypeOK'
      BY <2>4, SessionAssumption DEF RegisterExpire, RegisterAt, Answer,
         Executed, Reply, TypeOK, Checks
    <2>5. ASSUME NEW r \in Reply, RegisterActive(s, r) PROVE TypeOK'
      BY <2>5, SessionAssumption DEF RegisterActive, RegisterAt, Answer,
         Executed, SetActive, Reply, TypeOK, Checks
    <2>. QED BY <1>1, <2>1, <2>2, <2>3, <2>4, <2>5 DEF Register
  <1>2. ASSUME NEW s \in Sid, Revoke(s) PROVE TypeOK'
    <2>1. CASE RevokeStart(s)
      BY <2>1, SessionAssumption DEF RevokeStart, TypeOK, Checks
    <2>2. ASSUME NEW r \in Reply, RevokeDel(s, r) PROVE TypeOK'
      BY <2>2, SessionAssumption DEF RevokeDel, Answer, Executed, DelSession,
         Reply, TypeOK, Checks
    <2>3. ASSUME NEW r \in Reply, RevokeSRem(s, r) PROVE TypeOK'
      BY <2>3, SessionAssumption DEF RevokeSRem, Answer, Executed, SetMembers,
         RevokeReturn, Reply, TypeOK, Checks
    <2>4. ASSUME NEW r \in Reply, RevokeGetActive(s, r) PROVE TypeOK'
      <3>1. faults' \in 0..MaxFaults /\ dropped' \in BOOLEAN
        BY <2>4, SessionAssumption DEF RevokeGetActive, Answer, TypeOK
      <3>2. CASE r = "ok" /\ active = s
        BY <2>4, <3>1, <3>2 DEF RevokeGetActive, TypeOK
      <3>3. CASE ~(r = "ok" /\ active = s)
        <4>1. RevokeReturn(s, revokeErr[s])
          BY <2>4, <3>3 DEF RevokeGetActive
        <4>. QED
          BY <2>4, <3>1, <4>1 DEF RevokeGetActive, RevokeReturn, TypeOK
      <3>. QED BY <3>2, <3>3
    <2>5. ASSUME NEW r \in Reply, RevokeDelActive(s, r) PROVE TypeOK'
      BY <2>5, SessionAssumption DEF RevokeDelActive, Answer, Executed,
         SetActive, RevokeReturn, Reply, TypeOK, Checks
    <2>. QED BY <1>2, <2>1, <2>2, <2>3, <2>4, <2>5 DEF Revoke
  <1>3. ASSUME NEW c \in Caller, RevokeAll(c) PROVE TypeOK'
    <2>1. CASE RevokeAllStart(c)
      BY <2>1, SessionAssumption DEF RevokeAllStart, AllAt, Caller, TypeOK,
         Checks
    <2>2. ASSUME NEW r \in Reply, AllSMembers(c, r) PROVE TypeOK'
      <3>1. CASE r = "ok"
        BY <2>2, <3>1 DEF AllSMembers, Answer, AllAt, Caller, Reply, TypeOK
      <3>2. CASE r # "ok"
        <4>1. AllReturn(c, TRUE, {}) /\ UNCHANGED <<config, redis, revokeVars, check, losses, ended>>
          BY <2>2, <3>2 DEF AllSMembers
        <4>2. faults' \in 0..MaxFaults
          BY <2>2, <3>2, SessionAssumption DEF AllSMembers, Answer, TypeOK
        <4>. QED
          BY <4>1, <4>2 DEF AllReturn, Granted, AllAt, Caller, TypeOK
      <3>. QED BY <3>1, <3>2
    <2>3. ASSUME NEW s \in Sid, NEW r \in Reply, AllDelSession(c, s, r) PROVE TypeOK'
      BY <2>3, SessionAssumption DEF AllDelSession, Answer, AllAt, Executed,
         DelSession, Caller, Reply, TypeOK, Checks
    <2>4. ASSUME NEW r \in Reply, AllDelSet(c, r) PROVE TypeOK'
      BY <2>4, SessionAssumption DEF AllDelSet, Answer, Executed, SetMembers,
         AllReturn, Granted, AllAt, Caller, Reply, TypeOK, Checks
    <2>5. ASSUME NEW r \in Reply, AllGetActive(c, r) PROVE TypeOK'
      <3>1. faults' \in 0..MaxFaults /\ dropped' \in BOOLEAN
        BY <2>5, SessionAssumption DEF AllGetActive, Answer, TypeOK
      <3>2. CASE r = "ok" /\ active # NoSid
        BY <2>5, <3>1, <3>2 DEF AllGetActive, AllAt, TypeOK
      <3>3. CASE ~(r = "ok" /\ active # NoSid)
        <4>1. AllReturn(c, FALSE, {}) /\ UNCHANGED ended
          BY <2>5, <3>3 DEF AllGetActive
        <4>. QED
          BY <2>5, <3>1, <4>1 DEF AllGetActive, AllReturn, Granted, AllAt, Caller,
             TypeOK
      <3>. QED BY <3>2, <3>3
    <2>6. ASSUME NEW r \in Reply, AllDelActive(c, r) PROVE TypeOK'
      BY <2>6, SessionAssumption DEF AllDelActive, Answer, Executed,
         DelSession, SetActive, AllReturn, Granted, AllAt, Caller, Reply, TypeOK,
         Checks
    <2>. QED BY <1>3, <2>1, <2>2, <2>3, <2>4, <2>5, <2>6 DEF RevokeAll
  <1>4. ASSUME Validate PROVE TypeOK'
    <2>1. ASSUME NEW s \in Sid, ValidateStart(s) PROVE TypeOK'
      BY <2>1, SessionAssumption DEF ValidateStart, TypeOK, Checks
    <2>2. ASSUME NEW r \in Reply, ValidateTracked(r) PROVE TypeOK'
      <3>1. check' \in Checks
        BY <2>2 DEF ValidateTracked, TypeOK, Checks
      <3>. QED
        BY <2>2, <3>1, SessionAssumption DEF ValidateTracked, Answer, Reply,
           TypeOK
    <2>3. ASSUME NEW r \in Reply, ValidateFallback(r) PROVE TypeOK'
      <3>1. check' \in Checks
        BY <2>3 DEF ValidateFallback, TypeOK, Checks
      <3>. QED
        BY <2>3, <3>1, SessionAssumption DEF ValidateFallback, Answer,
           Reply, TypeOK
    <2>4. CASE ValidateEnd
      BY <2>4, SessionAssumption DEF ValidateEnd, NoCheck, TypeOK, Checks
    <2>. QED BY <1>4, <2>1, <2>2, <2>3, <2>4 DEF Validate
  <1>5. ASSUME Abandon PROVE TypeOK'
    <2>1. ASSUME NEW s \in Sid, AbandonRegister(s) PROVE TypeOK'
      BY <2>1, SessionAssumption DEF AbandonRegister, Answer, RegisterAt,
         AllAt, Caller, TypeOK, Checks
    <2>2. ASSUME NEW s \in Sid, AbandonRevoke(s) PROVE TypeOK'
      BY <2>2, SessionAssumption DEF AbandonRevoke, Answer, RevokeReturn,
         TypeOK, Checks
    <2>3. ASSUME NEW c \in Admin, AbandonRevokeAll(c) PROVE TypeOK'
      BY <2>3, SessionAssumption DEF AbandonRevokeAll, Answer, AllReturn, Granted,
         AllAt, Caller, TypeOK, Checks
    <2>. QED BY <1>5, <2>1, <2>2, <2>3 DEF Abandon
  <1>6. ASSUME Tick PROVE TypeOK'
    BY <1>6, SessionAssumption DEF Tick, Less, TypeOK, Checks
  <1>7. CASE UNCHANGED vars
    BY <1>7, SessionAssumption DEF vars, TypeOK, Checks
  <1>8. ASSUME Resend PROVE TypeOK'
    <2>1. ASSUME NEW s \in Sid, ResendRegister(s) PROVE TypeOK'
      BY <2>1, SessionAssumption DEF ResendRegister, Answer, SetMembers, SetActive,
         TypeOK, Checks
    <2>2. ASSUME NEW s \in Sid, ResendRevoke(s) PROVE TypeOK'
      BY <2>2, SessionAssumption DEF ResendRevoke, Answer, DelSession, SetMembers,
         SetActive, TypeOK, Checks
    <2>3. ASSUME NEW c \in Caller, ResendRevokeAll(c) PROVE TypeOK'
      BY <2>3, SessionAssumption DEF ResendRevokeAll, Answer, DelSession, SetMembers,
         SetActive, TypeOK, Checks
    <2>. QED BY <1>8, <2>1, <2>2, <2>3 DEF Resend
  <1>. QED BY <1>1, <1>2, <1>3, <1>4, <1>5, <1>6, <1>7, <1>8 DEF Next, Write

(***************************************************************************)
(* Sessions whose key has been written, once and for all.                  *)
(***************************************************************************)
Past(s) == register[s] \in {"sAdd", "setActive", "expire", "in", "failed"}

(* The operations are where their device mode lets them be.                 *)
ControlInv ==
    /\ \A s \in Sid : revokeAll[s] # "idle" => register[s] = "revokeAll"
    /\ \A s \in Sid : revoke[s] # "idle" => register[s] = "in"
    /\ \A s \in Sid : revoke[s] = "sRem" => multiDevice
    /\ \A s \in Sid : revoke[s] \in {"getActive", "delActive"} => ~multiDevice
    /\ \A c \in Caller :
          revokeAll[c] \in {"sMembers", "delSession", "delSet"} => multiDevice
    /\ \A c \in Caller : revokeAll[c] \in {"getActive", "delActive"} => ~multiDevice

(* Whatever Redis, an id list or the history names has been registered.     *)
PastInv ==
    /\ \A s \in members : Past(s)
    /\ active # NoSid => Past(active)
    /\ \A c \in Caller : \A s \in ids[c] : Past(s) /\ s \in ended
    /\ \A c \in Caller : revokeAll[c] = "delSession" => todo[c] \subseteq ids[c]
    /\ \A s \in revoked : register[s] = "in"
    /\ \A s \in Sid : revoke[s] # "idle" => s \in ended

(* Keys of sessions reported, or about to be reported, as ended are gone.   *)
DeadInv ==
    /\ \A s \in revoked : /\ sessTTL[s] = 0
                          /\ multiDevice => s \notin members
                          /\ ~multiDevice /\ ~dropped => active # s
    /\ \A s \in Sid : revoke[s] \in {"sRem", "getActive", "delActive"} /\ ~revokeErr[s]
                        => sessTTL[s] = 0
    /\ \A c \in Caller : revokeAll[c] \in {"delSession", "delSet"} /\ ~allErr[c]
                           => \A s \in ids[c] : s \in todo[c] \/ sessTTL[s] = 0
    /\ \A c \in Caller : revokeAll[c] = "delSet" => todo[c] = {}

(* A registered session keeps its key until something sets out to end it.   *)
AliveInv ==
    \A s \in Sid \ ended :
        register[s] \in {"sAdd", "expire", "setActive", "in"} => sessTTL[s] > 0

(* Each operation stays in the branch of its device mode, and a session is *)
(* only logged out after its login was granted.                             *)
LEMMA ControlStep ==
    TypeOK /\ ControlInv /\ [Next]_vars => ControlInv'
  <1> SUFFICES ASSUME TypeOK, ControlInv, [Next]_vars PROVE ControlInv'
      OBVIOUS
  <1> USE DEF config, redis, setKey, activeKey, revokeVars, allVars, history, losses
  <1>1. ASSUME NEW s \in Sid, Register(s) PROVE ControlInv'
    <2>1. CASE RegisterStart(s)
      BY <2>1 DEF RegisterStart, RegisterAt, TypeOK, ControlInv, Caller
    <2>2. ASSUME NEW r \in Reply, RegisterSet(s, r) PROVE ControlInv'
      BY <2>2, SessionAssumption DEF RegisterSet, RegisterAt, Answer,
         Executed, Reply, TypeOK, ControlInv, Caller
    <2>3. ASSUME NEW r \in Reply, RegisterSAdd(s, r) PROVE ControlInv'
      BY <2>3 DEF RegisterSAdd, RegisterAt, Answer, Executed, SetMembers,
         Reply, TypeOK, ControlInv, Caller
    <2>4. ASSUME NEW r \in Reply, RegisterExpire(s, r) PROVE ControlInv'
      BY <2>4 DEF RegisterExpire, RegisterAt, Answer, Executed, Reply, TypeOK,
         ControlInv, Caller
    <2>5. ASSUME NEW r \in Reply, RegisterActive(s, r) PROVE ControlInv'
      BY <2>5 DEF RegisterActive, RegisterAt, Answer, Executed, SetActive,
         Reply, TypeOK, ControlInv, Caller
    <2>. QED BY <1>1, <2>1, <2>2, <2>3, <2>4, <2>5 DEF Register
  <1>2. ASSUME NEW s \in Sid, Revoke(s) PROVE ControlInv'
    <2>1. CASE RevokeStart(s)
      BY <2>1 DEF RevokeStart, TypeOK, ControlInv, Caller
    <2>2. ASSUME NEW r \in Reply, RevokeDel(s, r) PROVE ControlInv'
      BY <2>2 DEF RevokeDel, Answer, Executed, DelSession, Reply, TypeOK,
         ControlInv, Caller
    <2>3. ASSUME NEW r \in Reply, RevokeSRem(s, r) PROVE ControlInv'
      BY <2>3 DEF RevokeSRem, Answer, Executed, SetMembers, RevokeReturn,
         Reply, TypeOK, ControlInv, Caller
    <2>4. ASSUME NEW r \in Reply, RevokeGetActive(s, r) PROVE ControlInv'
      BY <2>4 DEF RevokeGetActive, Answer, RevokeReturn, Reply, TypeOK,
         ControlInv, Caller
    <2>5. ASSUME NEW r \in Reply, RevokeDelActive(s, r) PROVE ControlInv'
      BY <2>5, SessionAssumption DEF RevokeDelActive, Answer, Executed,
         SetActive, RevokeReturn, Reply, TypeOK, ControlInv, Caller
    <2>. QED BY <1>2, <2>1, <2>2, <2>3, <2>4, <2>5 DEF Revoke
  <1>3. ASSUME NEW c \in Caller, RevokeAll(c) PROVE ControlInv'
    <2>1. CASE RevokeAllStart(c)
      BY <2>1, SessionAssumption DEF RevokeAllStart, AllAt, Caller, TypeOK,
         ControlInv
    <2>2. ASSUME NEW r \in Reply, AllSMembers(c, r) PROVE ControlInv'
      BY <2>2, SessionAssumption DEF AllSMembers, Answer, AllAt, AllReturn, Granted,
         Caller, Reply, TypeOK, ControlInv
    <2>3. ASSUME NEW s \in Sid, NEW r \in Reply, AllDelSession(c, s, r) PROVE ControlInv'
      BY <2>3 DEF AllDelSession, Answer, AllAt, Executed, DelSession, Caller,
         Reply, TypeOK, ControlInv
    <2>4. ASSUME NEW r \in Reply, AllDelSet(c, r) PROVE ControlInv'
      BY <2>4 DEF AllDelSet, Answer, Executed, SetMembers, AllReturn, Granted, AllAt,
         Caller, Reply, TypeOK, ControlInv
    <2>5. ASSUME NEW r \in Reply, AllGetActive(c, r) PROVE ControlInv'
      BY <2>5 DEF AllGetActive, Answer, AllAt, AllReturn, Granted, Caller, Reply,
         TypeOK, ControlInv
    <2>6. ASSUME NEW r \in Reply, AllDelActive(c, r) PROVE ControlInv'
      BY <2>6, SessionAssumption DEF AllDelActive, Answer, Executed,
         DelSession, SetActive, AllReturn, Granted, AllAt, Caller, Reply, TypeOK,
         ControlInv
    <2>. QED BY <1>3, <2>1, <2>2, <2>3, <2>4, <2>5, <2>6 DEF RevokeAll
  <1>4. ASSUME Validate PROVE ControlInv'
    <2>1. ASSUME NEW s \in Sid, ValidateStart(s) PROVE ControlInv'
      BY <2>1 DEF ValidateStart, TypeOK, ControlInv, Caller
    <2>2. ASSUME NEW r \in Reply, ValidateTracked(r) PROVE ControlInv'
      BY <2>2 DEF ValidateTracked, Answer, Reply, TypeOK, ControlInv, Caller
    <2>3. ASSUME NEW r \in Reply, ValidateFallback(r) PROVE ControlInv'
      BY <2>3 DEF ValidateFallback, Answer, Reply, TypeOK, ControlInv, Caller
    <2>4. CASE ValidateEnd
      BY <2>4 DEF ValidateEnd, NoCheck, TypeOK, ControlInv, Caller
    <2>. QED BY <1>4, <2>1, <2>2, <2>3, <2>4 DEF Validate
  <1>5. ASSUME Abandon PROVE ControlInv'
    <2>1. ASSUME NEW s \in Sid, AbandonRegister(s) PROVE ControlInv'
      BY <2>1 DEF AbandonRegister, Answer, RegisterAt, AllAt, Caller, TypeOK,
         ControlInv
    <2>2. ASSUME NEW s \in Sid, AbandonRevoke(s) PROVE ControlInv'
      BY <2>2 DEF AbandonRevoke, Answer, RevokeReturn, TypeOK, ControlInv,
         Caller
    <2>3. ASSUME NEW c \in Admin, AbandonRevokeAll(c) PROVE ControlInv'
      BY <2>3 DEF AbandonRevokeAll, Answer, AllReturn, Granted, AllAt, Caller, TypeOK,
         ControlInv
    <2>. QED BY <1>5, <2>1, <2>2, <2>3 DEF Abandon
  <1>6. ASSUME Tick PROVE ControlInv'
    BY <1>6, SessionAssumption DEF Tick, Less, TypeOK, ControlInv, Caller
  <1>7. CASE UNCHANGED vars
    BY <1>7 DEF vars, TypeOK, ControlInv, Caller
  <1>8. ASSUME Resend PROVE ControlInv'
    <2>1. ASSUME NEW s \in Sid, ResendRegister(s) PROVE ControlInv'
      BY <2>1, SessionAssumption DEF ResendRegister, Answer, SetMembers, SetActive,
         TypeOK, ControlInv, Caller
    <2>2. ASSUME NEW s \in Sid, ResendRevoke(s) PROVE ControlInv'
      BY <2>2, SessionAssumption DEF ResendRevoke, Answer, DelSession, SetMembers,
         SetActive, TypeOK, ControlInv, Caller
    <2>3. ASSUME NEW c \in Caller, ResendRevokeAll(c) PROVE ControlInv'
      BY <2>3, SessionAssumption DEF ResendRevokeAll, Answer, DelSession, SetMembers,
         SetActive, TypeOK, ControlInv, Caller
    <2>. QED BY <1>8, <2>1, <2>2, <2>3 DEF Resend
  <1>. QED BY <1>1, <1>2, <1>3, <1>4, <1>5, <1>6, <1>7, <1>8 DEF Next, Write

(* Redis and the id lists only ever name sessions whose registration is past *)
(* its writes, and every id read by a RevokeAll counts as ended.            *)
LEMMA PastStep ==
    TypeOK /\ ControlInv /\ PastInv /\ [Next]_vars => PastInv'
  <1> SUFFICES ASSUME TypeOK, ControlInv, PastInv, [Next]_vars PROVE PastInv'
      OBVIOUS
  <1> USE DEF config, redis, setKey, activeKey, revokeVars, allVars, history, losses
  <1>1. ASSUME NEW s \in Sid, Register(s) PROVE PastInv'
    <2>1. CASE RegisterStart(s)
      BY <2>1 DEF RegisterStart, RegisterAt, TypeOK, ControlInv, PastInv,
         Past, Granted, Caller
    <2>2. ASSUME NEW r \in Reply, RegisterSet(s, r) PROVE PastInv'
      BY <2>2, SessionAssumption DEF RegisterSet, RegisterAt, Answer,
         Executed, Reply, TypeOK, ControlInv, PastInv, Past, Granted, Caller
    <2>3. ASSUME NEW r \in Reply, RegisterSAdd(s, r) PROVE PastInv'
      BY <2>3 DEF RegisterSAdd, RegisterAt, Answer, Executed, SetMembers,
         Reply, TypeOK, ControlInv, PastInv, Past, Granted, Caller
    <2>4. ASSUME NEW r \in Reply, RegisterExpire(s, r) PROVE PastInv'
      BY <2>4 DEF RegisterExpire, RegisterAt, Answer, Executed, Reply, TypeOK,
         ControlInv, PastInv, Past, Granted, Caller
    <2>5. ASSUME NEW r \in Reply, RegisterActive(s, r) PROVE PastInv'
      BY <2>5 DEF RegisterActive, RegisterAt, Answer, Executed, SetActive,
         Reply, TypeOK, ControlInv, PastInv, Past, Granted, Caller
    <2>. QED BY <1>1, <2>1, <2>2, <2>3, <2>4, <2>5 DEF Register
  <1>2. ASSUME NEW s \in Sid, Revoke(s) PROVE PastInv'
    <2>1. CASE RevokeStart(s)
      BY <2>1 DEF RevokeStart, TypeOK, ControlInv, PastInv, Past, Granted, Caller
    <2>2. ASSUME NEW r \in Reply, RevokeDel(s, r) PROVE PastInv'
      BY <2>2 DEF RevokeDel, Answer, Executed, DelSession, Reply, TypeOK,
         ControlInv, PastInv, Past, Granted, Caller
    <2>3. ASSUME NEW r \in Reply, RevokeSRem(s, r) PROVE PastInv'
      BY <2>3 DEF RevokeSRem, Answer, Executed, SetMembers, RevokeReturn,
         Reply, TypeOK, ControlInv, PastInv, Past, Granted, Caller
    <2>4. ASSUME NEW r \in Reply, RevokeGetActive(s, r) PROVE PastInv'
      BY <2>4 DEF RevokeGetActive, Answer, RevokeReturn, Reply, TypeOK,
         ControlInv, PastInv, Past, Granted, Caller
    <2>5. ASSUME NEW r \in Reply, RevokeDelActive(s, r) PROVE PastInv'
      BY <2>5, SessionAssumption DEF RevokeDelActive, Answer, Executed,
         SetActive, RevokeReturn, Reply, TypeOK, ControlInv, PastInv, Past,
         Caller
    <2>. QED BY <1>2, <2>1, <2>2, <2>3, <2>4, <2>5 DEF Revoke
  <1>3. ASSUME NEW c \in Caller, RevokeAll(c) PROVE PastInv'
    <2>1. CASE RevokeAllStart(c)
      BY <2>1, SessionAssumption DEF RevokeAllStart, AllAt, Caller, TypeOK,
         ControlInv, PastInv, Past
    <2>2. ASSUME NEW r \in Reply, AllSMembers(c, r) PROVE PastInv'
      <3>1. CASE r = "ok"
        BY <2>2, <3>1 DEF AllSMembers, AllAt, TypeOK, ControlInv, PastInv,
           Past, Granted, Caller
      <3>2. CASE r # "ok"
        <4>1. AllReturn(c, TRUE, {}) /\ UNCHANGED <<redis, revokeVars, ended>>
          BY <2>2, <3>2 DEF AllSMembers
        <4>. QED
          BY <2>2, <4>1 DEF AllSMembers, AllReturn, Granted, AllAt, TypeOK,
             ControlInv, PastInv, Past, Granted, Caller
      <3>. QED BY <3>1, <3>2
    <2>3. ASSUME NEW s \in Sid, NEW r \in Reply, AllDelSession(c, s, r) PROVE PastInv'
      BY <2>3 DEF AllDelSession, Answer, AllAt, Executed, DelSession, Caller,
         Reply, TypeOK, ControlInv, PastInv, Past
    <2>4. ASSUME NEW r \in Reply, AllDelSet(c, r) PROVE PastInv'
      BY <2>4 DEF AllDelSet, Answer, Executed, SetMembers, AllReturn, Granted, AllAt,
         Caller, Reply, TypeOK, ControlInv, PastInv, Past
    <2>5. ASSUME NEW r \in Reply, AllGetActive(c, r) PROVE PastInv'
      <3>1. CASE r = "ok" /\ active # NoSid
        <4>1. /\ ids' = [ids EXCEPT ![c] = {active}] /\ ended' = ended \cup {active}
              /\ revokeAll' = [revokeAll EXCEPT ![c] = "delActive"] /\ Past(active)
              /\ UNCHANGED <<members, active, register, revoke, revoked, todo>>
          BY <2>5, <3>1 DEF AllGetActive, AllAt, PastInv
        <4>. QED BY <4>1 DEF TypeOK, PastInv, Past
      <3>2. CASE ~(r = "ok" /\ active # NoSid)
        <4>1. AllReturn(c, FALSE, {}) /\ UNCHANGED <<members, active, revoke, ended>>
          BY <2>5, <3>2 DEF AllGetActive
        <4>. QED
          BY <2>5, <4>1 DEF AllGetActive, AllReturn, AllAt, Granted, TypeOK, ControlInv,
             PastInv, Past
      <3>. QED BY <3>1, <3>2
    <2>6. ASSUME NEW r \in Reply, AllDelActive(c, r) PROVE PastInv'
      BY <2>6, SessionAssumption DEF AllDelActive, Answer, Executed,
         DelSession, SetActive, AllReturn, Granted, AllAt, Caller, Reply, TypeOK,
         ControlInv, PastInv, Past
    <2>. QED BY <1>3, <2>1, <2>2, <2>3, <2>4, <2>5, <2>6 DEF RevokeAll
  <1>4. ASSUME Validate PROVE PastInv'
    <2>1. ASSUME NEW s \in Sid, ValidateStart(s) PROVE PastInv'
      BY <2>1 DEF ValidateStart, TypeOK, ControlInv, PastInv, Past, Granted, Caller
    <2>2. ASSUME NEW r \in Reply, ValidateTracked(r) PROVE PastInv'
      BY <2>2 DEF ValidateTracked, Answer, Reply, TypeOK, ControlInv, PastInv,
         Past, Granted, Caller
    <2>3. ASSUME NEW r \in Reply, ValidateFallback(r) PROVE PastInv'
      BY <2>3 DEF ValidateFallback, Answer, Reply, TypeOK, ControlInv,
         PastInv, Past, Granted, Caller
    <2>4. CASE ValidateEnd
      BY <2>4 DEF ValidateEnd, NoCheck, TypeOK, ControlInv, PastInv, Past,
         Caller
    <2>. QED BY <1>4, <2>1, <2>2, <2>3, <2>4 DEF Validate
  <1>5. ASSUME Abandon PROVE PastInv'
    <2>1. ASSUME NEW s \in Sid, AbandonRegister(s) PROVE PastInv'
      BY <2>1 DEF AbandonRegister, Answer, RegisterAt, AllAt, Caller, TypeOK,
         ControlInv, PastInv, Past
    <2>2. ASSUME NEW s \in Sid, AbandonRevoke(s) PROVE PastInv'
      BY <2>2 DEF AbandonRevoke, Answer, RevokeReturn, TypeOK, ControlInv,
         PastInv, Past, Granted, Caller
    <2>3. ASSUME NEW c \in Admin, AbandonRevokeAll(c) PROVE PastInv'
      BY <2>3 DEF AbandonRevokeAll, Answer, AllReturn, Granted, AllAt, Caller, TypeOK,
         ControlInv, PastInv, Past
    <2>. QED BY <1>5, <2>1, <2>2, <2>3 DEF Abandon
  <1>6. ASSUME Tick PROVE PastInv'
    BY <1>6, SessionAssumption DEF Tick, Less, TypeOK, ControlInv, PastInv,
       Past, Granted, Caller
  <1>7. CASE UNCHANGED vars
    BY <1>7 DEF vars, TypeOK, ControlInv, PastInv, Past, Granted, Caller
  <1>8. ASSUME Resend PROVE PastInv'
    <2>1. ASSUME NEW s \in Sid, ResendRegister(s) PROVE PastInv'
      BY <2>1, SessionAssumption DEF ResendRegister, Answer, SetMembers, SetActive,
         TypeOK, ControlInv, PastInv, Past, Granted, Caller
    <2>2. ASSUME NEW s \in Sid, ResendRevoke(s) PROVE PastInv'
      BY <2>2, SessionAssumption DEF ResendRevoke, Answer, DelSession, SetMembers,
         SetActive, TypeOK, ControlInv, PastInv, Past, Granted, Caller
    <2>3. ASSUME NEW c \in Caller, ResendRevokeAll(c) PROVE PastInv'
      BY <2>3, SessionAssumption DEF ResendRevokeAll, Answer, DelSession, SetMembers,
         SetActive, TypeOK, ControlInv, PastInv, Past, Granted, Caller
    <2>. QED BY <1>8, <2>1, <2>2, <2>3 DEF Resend
  <1>. QED BY <1>1, <1>2, <1>3, <1>4, <1>5, <1>6, <1>7, <1>8 DEF Next, Write

(* A session key written by Register is only removed for a reason in ended. *)
LEMMA AliveStep ==
    TypeOK /\ ControlInv /\ PastInv /\ AliveInv /\ [Next]_vars => AliveInv'
  <1> SUFFICES ASSUME TypeOK, ControlInv, PastInv, AliveInv, [Next]_vars PROVE AliveInv'
      OBVIOUS
  <1> USE DEF config, redis, setKey, activeKey, revokeVars, allVars, history, losses
  <1>1. ASSUME NEW s \in Sid, Register(s) PROVE AliveInv'
    <2>1. CASE RegisterStart(s)
      BY <2>1 DEF RegisterStart, RegisterAt, TypeOK, ControlInv, PastInv,
         AliveInv, Past, Caller
    <2>2. ASSUME NEW r \in Reply, RegisterSet(s, r) PROVE AliveInv'
      BY <2>2, SessionAssumption DEF RegisterSet, RegisterAt, Answer,
         Executed, Reply, TypeOK, ControlInv, PastInv, AliveInv, Past, Caller
    <2>3. ASSUME NEW r \in Reply, RegisterSAdd(s, r) PROVE AliveInv'
      BY <2>3 DEF RegisterSAdd, RegisterAt, Answer, Executed, SetMembers,
         Reply, TypeOK, ControlInv, PastInv, AliveInv, Past, Caller
    <2>4. ASSUME NEW r \in Reply, RegisterExpire(s, r) PROVE AliveInv'
      BY <2>4 DEF RegisterExpire, RegisterAt, Answer, Executed, Reply, TypeOK,
         ControlInv, PastInv, AliveInv, Past, Caller
    <2>5. ASSUME NEW r \in Reply, RegisterActive(s, r) PROVE AliveInv'
      BY <2>5 DEF RegisterActive, RegisterAt, Answer, Executed, SetActive,
         Reply, TypeOK, ControlInv, PastInv, AliveInv, Past, Caller
    <2>. QED BY <1>1, <2>1, <2>2, <2>3, <2>4, <2>5 DEF Register
  <1>2. ASSUME NEW s \in Sid, Revoke(s) PROVE AliveInv'
    <2>1. CASE RevokeStart(s)
      BY <2>1 DEF RevokeStart, TypeOK, ControlInv, PastInv, AliveInv, Past,
         Caller
    <2>2. ASSUME NEW r \in Reply, RevokeDel(s, r) PROVE AliveInv'
      BY <2>2 DEF RevokeDel, Answer, Executed, DelSession, Reply, TypeOK,
         ControlInv, PastInv, AliveInv, Past, Caller
    <2>3. ASSUME NEW r \in Reply, RevokeSRem(s, r) PROVE AliveInv'
      BY <2>3 DEF RevokeSRem, Answer, Executed, SetMembers, RevokeReturn,
         Reply, TypeOK, ControlInv, PastInv, AliveInv, Past, Caller
    <2>4. ASSUME NEW r \in Reply, RevokeGetActive(s, r) PROVE AliveInv'
      BY <2>4 DEF RevokeGetActive, Answer, RevokeReturn, Reply, TypeOK,
         ControlInv, PastInv, AliveInv, Past, Caller
    <2>5. ASSUME NEW r \in Reply, RevokeDelActive(s, r) PROVE AliveInv'
      BY <2>5, SessionAssumption DEF RevokeDelActive, Answer, Executed,
         SetActive, RevokeReturn, Reply, TypeOK, ControlInv, PastInv,
         AliveInv, Past, Caller
    <2>. QED BY <1>2, <2>1, <2>2, <2>3, <2>4, <2>5 DEF Revoke
  <1>3. ASSUME NEW c \in Caller, RevokeAll(c) PROVE AliveInv'
    <2>1. CASE RevokeAllStart(c)
      BY <2>1, SessionAssumption DEF RevokeAllStart, AllAt, Caller, TypeOK,
         ControlInv, PastInv, AliveInv, Past
    <2>2. ASSUME NEW r \in Reply, AllSMembers(c, r) PROVE AliveInv'
      BY <2>2, SessionAssumption DEF AllSMembers, Answer, AllAt, AllReturn, Granted,
         Caller, Reply, TypeOK, ControlInv, PastInv, AliveInv, Past
    <2>3. ASSUME NEW s \in Sid, NEW r \in Reply, AllDelSession(c, s, r) PROVE AliveInv'
      BY <2>3 DEF AllDelSession, Answer, AllAt, Executed, DelSession, Caller,
         Reply, TypeOK, ControlInv, PastInv, AliveInv, Past
    <2>4. ASSUME NEW r \in Reply, AllDelSet(c, r) PROVE AliveInv'
      BY <2>4 DEF AllDelSet, Answer, Executed, SetMembers, AllReturn, Granted, AllAt,
         Caller, Reply, TypeOK, ControlInv, PastInv, AliveInv, Past
    <2>5. ASSUME NEW r \in Reply, AllGetActive(c, r) PROVE AliveInv'
      BY <2>5 DEF AllGetActive, Answer, AllAt, AllReturn, Granted, Caller, Reply,
         TypeOK, ControlInv, PastInv, AliveInv, Past
    <2>6. ASSUME NEW r \in Reply, AllDelActive(c, r) PROVE AliveInv'
      BY <2>6, SessionAssumption DEF AllDelActive, Answer, Executed,
         DelSession, SetActive, AllReturn, Granted, AllAt, Caller, Reply, TypeOK,
         ControlInv, PastInv, AliveInv, Past
    <2>. QED BY <1>3, <2>1, <2>2, <2>3, <2>4, <2>5, <2>6 DEF RevokeAll
  <1>4. ASSUME Validate PROVE AliveInv'
    <2>1. ASSUME NEW s \in Sid, ValidateStart(s) PROVE AliveInv'
      BY <2>1 DEF ValidateStart, TypeOK, ControlInv, PastInv, AliveInv, Past,
         Caller
    <2>2. ASSUME NEW r \in Reply, ValidateTracked(r) PROVE AliveInv'
      BY <2>2 DEF ValidateTracked, Answer, Reply, TypeOK, ControlInv, PastInv,
         AliveInv, Past, Caller
    <2>3. ASSUME NEW r \in Reply, ValidateFallback(r) PROVE AliveInv'
      BY <2>3 DEF ValidateFallback, Answer, Reply, TypeOK, ControlInv,
         PastInv, AliveInv, Past, Caller
    <2>4. CASE ValidateEnd
      BY <2>4 DEF ValidateEnd, NoCheck, TypeOK, ControlInv, PastInv, AliveInv,
         Past, Caller
    <2>. QED BY <1>4, <2>1, <2>2, <2>3, <2>4 DEF Validate
  <1>5. ASSUME Abandon PROVE AliveInv'
    <2>1. ASSUME NEW s \in Sid, AbandonRegister(s) PROVE AliveInv'
      BY <2>1 DEF AbandonRegister, Answer, RegisterAt, AllAt, Caller, TypeOK,
         ControlInv, PastInv, AliveInv, Past
    <2>2. ASSUME NEW s \in Sid, AbandonRevoke(s) PROVE AliveInv'
      BY <2>2 DEF AbandonRevoke, Answer, RevokeReturn, TypeOK, ControlInv,
         PastInv, AliveInv, Past, Caller
    <2>3. ASSUME NEW c \in Admin, AbandonRevokeAll(c) PROVE AliveInv'
      BY <2>3 DEF AbandonRevokeAll, Answer, AllReturn, Granted, AllAt, Caller, TypeOK,
         ControlInv, PastInv, AliveInv, Past
    <2>. QED BY <1>5, <2>1, <2>2, <2>3 DEF Abandon
  <1>6. ASSUME Tick PROVE AliveInv'
    BY <1>6, SessionAssumption DEF Tick, Less, TypeOK, ControlInv, PastInv,
       AliveInv, Past, Caller
  <1>7. CASE UNCHANGED vars
    BY <1>7 DEF vars, TypeOK, ControlInv, PastInv, AliveInv, Past, Caller
  <1>8. ASSUME Resend PROVE AliveInv'
    <2>1. ASSUME NEW s \in Sid, ResendRegister(s) PROVE AliveInv'
      BY <2>1, SessionAssumption DEF ResendRegister, Answer, SetMembers, SetActive,
         TypeOK, ControlInv, PastInv, AliveInv, Past, Caller
    <2>2. ASSUME NEW s \in Sid, ResendRevoke(s) PROVE AliveInv'
      BY <2>2, SessionAssumption DEF ResendRevoke, Answer, DelSession, SetMembers,
         SetActive, TypeOK, ControlInv, PastInv, AliveInv, Past, Caller
    <2>3. ASSUME NEW c \in Caller, ResendRevokeAll(c) PROVE AliveInv'
      BY <2>3, SessionAssumption DEF ResendRevokeAll, Answer, DelSession, SetMembers,
         SetActive, TypeOK, ControlInv, PastInv, AliveInv, Past, Caller
    <2>. QED BY <1>8, <2>1, <2>2, <2>3 DEF Resend
  <1>. QED BY <1>1, <1>2, <1>3, <1>4, <1>5, <1>6, <1>7, <1>8 DEF Next, Write

(* A nil result means every trace of the session is gone, and nothing left  *)
(* in flight writes it back.                                                *)
LEMMA DeadStep ==
    TypeOK /\ ControlInv /\ PastInv /\ DeadInv /\ [Next]_vars => DeadInv'
  <1> SUFFICES ASSUME TypeOK, ControlInv, PastInv, DeadInv, [Next]_vars PROVE DeadInv'
      OBVIOUS
  <1> USE DEF config, redis, setKey, activeKey, revokeVars, allVars, history, losses
  <1>1. ASSUME NEW s \in Sid, Register(s) PROVE DeadInv'
    <2>1. CASE RegisterStart(s)
      BY <2>1 DEF RegisterStart, RegisterAt, TypeOK, ControlInv, PastInv,
         DeadInv, Past, Granted, Caller
    <2>2. ASSUME NEW r \in Reply, RegisterSet(s, r) PROVE DeadInv'
      BY <2>2, SessionAssumption DEF RegisterSet, RegisterAt, Answer,
         Executed, Reply, TypeOK, ControlInv, PastInv, DeadInv, Past, Granted, Caller
    <2>3. ASSUME NEW r \in Reply, RegisterSAdd(s, r) PROVE DeadInv'
      BY <2>3 DEF RegisterSAdd, RegisterAt, Answer, Executed, SetMembers,
         Reply, TypeOK, ControlInv, PastInv, DeadInv, Past, Granted, Caller
    <2>4. ASSUME NEW r \in Reply, RegisterExpire(s, r) PROVE DeadInv'
      BY <2>4 DEF RegisterExpire, RegisterAt, Answer, Executed, Reply, TypeOK,
         ControlInv, PastInv, DeadInv, Past, Granted, Caller
    <2>5. ASSUME NEW r \in Reply, RegisterActive(s, r) PROVE DeadInv'
      BY <2>5 DEF RegisterActive, RegisterAt, Answer, Executed, SetActive,
         Reply, TypeOK, ControlInv, PastInv, DeadInv, Past, Granted, Caller
    <2>. QED BY <1>1, <2>1, <2>2, <2>3, <2>4, <2>5 DEF Register
  <1>2. ASSUME NEW s \in Sid, Revoke(s) PROVE DeadInv'
    <2>1. CASE RevokeStart(s)
      BY <2>1 DEF RevokeStart, TypeOK, ControlInv, PastInv, DeadInv, Past,
         Caller
    <2>2. ASSUME NEW r \in Reply, RevokeDel(s, r) PROVE DeadInv'
      <3>1. \A t \in Sid : sessTTL[t] = 0 => sessTTL'[t] = 0
        BY <2>2 DEF RevokeDel, DelSession, TypeOK
      <3>2. \A t \in Sid : revoke'[t] \in {"sRem", "getActive", "delActive"} /\ ~revokeErr'[t]
                          => sessTTL'[t] = 0
        <4>1. CASE r = "ok"
          BY <2>2, <3>1, <4>1 DEF RevokeDel, Executed, DelSession, TypeOK,
             DeadInv
        <4>2. CASE r # "ok"
          BY <2>2, <3>1, <4>2 DEF RevokeDel, TypeOK, DeadInv
        <4>. QED BY <4>1, <4>2
      <3>. QED
        BY <2>2, <3>1, <3>2 DEF RevokeDel, TypeOK, PastInv, DeadInv, Caller
    <2>3. ASSUME NEW r \in Reply, RevokeSRem(s, r) PROVE DeadInv'
      BY <2>3 DEF RevokeSRem, Answer, Executed, SetMembers, RevokeReturn,
         Reply, TypeOK, ControlInv, PastInv, DeadInv, Past, Granted, Caller
    <2>4. ASSUME NEW r \in Reply, RevokeGetActive(s, r) PROVE DeadInv'
      <3>1. CASE r = "ok" /\ active = s
        BY <2>4, <3>1 DEF RevokeGetActive, TypeOK, PastInv, DeadInv, Caller
      <3>2. CASE ~(r = "ok" /\ active = s)
        <4>1. /\ revoke' = [revoke EXCEPT ![s] = "idle"]
              /\ revokeErr' = [revokeErr EXCEPT ![s] = FALSE]
              /\ revoked' = IF revokeErr[s] THEN revoked ELSE revoked \cup {s}
          BY <2>4, <3>2 DEF RevokeGetActive, RevokeReturn
        <4>2. ~revokeErr[s] => sessTTL[s] = 0 /\ ~multiDevice /\ (~dropped' => active # s)
          BY <2>4, <3>2 DEF RevokeGetActive, TypeOK, ControlInv, DeadInv
        <4>3. \A t \in revoked' : /\ sessTTL'[t] = 0
                                  /\ multiDevice' => t \notin members'
                                  /\ ~multiDevice' /\ ~dropped' => active' # t
          BY <2>4, <4>1, <4>2 DEF RevokeGetActive, TypeOK, DeadInv
        <4>4. \A t \in Sid : revoke'[t] \in {"sRem", "getActive", "delActive"} /\ ~revokeErr'[t]
                            => sessTTL'[t] = 0
          BY <2>4, <4>1 DEF RevokeGetActive, TypeOK, DeadInv
        <4>. QED
          BY <2>4, <4>3, <4>4 DEF RevokeGetActive, DeadInv
      <3>. QED BY <3>1, <3>2
    <2>5. ASSUME NEW r \in Reply, RevokeDelActive(s, r) PROVE DeadInv'
      BY <2>5, SessionAssumption DEF RevokeDelActive, Answer, Executed,
         SetActive, RevokeReturn, Reply, TypeOK, ControlInv, PastInv, DeadInv,
         Past, Granted, Caller
    <2>. QED BY <1>2, <2>1, <2>2, <2>3, <2>4, <2>5 DEF Revoke
  <1>3. ASSUME NEW c \in Caller, RevokeAll(c) PROVE DeadInv'
    <2>1. CASE RevokeAllStart(c)
      BY <2>1, SessionAssumption DEF RevokeAllStart, AllAt, Caller, TypeOK,
         ControlInv, PastInv, DeadInv, Past
    <2>2. ASSUME NEW r \in Reply, AllSMembers(c, r) PROVE DeadInv'
      <3>1. CASE r = "ok"
        BY <2>2, <3>1 DEF AllSMembers, AllAt, TypeOK, DeadInv, Caller
      <3>2. CASE r # "ok"
        <4>1. AllReturn(c, TRUE, {}) /\ UNCHANGED <<config, redis, revokeVars, losses>>
          BY <2>2, <3>2 DEF AllSMembers
        <4>. QED
          BY <4>1 DEF AllReturn, AllAt, TypeOK, DeadInv, Caller
      <3>. QED BY <3>1, <3>2
    <2>3. ASSUME NEW s \in Sid, NEW r \in Reply, AllDelSession(c, s, r) PROVE DeadInv'
      BY <2>3 DEF AllDelSession, Answer, AllAt, Executed, DelSession, Caller,
         Reply, TypeOK, ControlInv, PastInv, DeadInv, Past
    <2>4. ASSUME NEW r \in Reply, AllDelSet(c, r) PROVE DeadInv'
      BY <2>4 DEF AllDelSet, Answer, Executed, SetMembers, AllReturn, Granted, AllAt,
         Caller, Reply, TypeOK, ControlInv, PastInv, DeadInv, Past
    <2>5. ASSUME NEW r \in Reply, AllGetActive(c, r) PROVE DeadInv'
      BY <2>5 DEF AllGetActive, Answer, AllAt, AllReturn, Granted, Caller, Reply,
         TypeOK, ControlInv, PastInv, DeadInv, Past
    <2>6. ASSUME NEW r \in Reply, AllDelActive(c, r) PROVE DeadInv'
      BY <2>6, SessionAssumption DEF AllDelActive, Answer, Executed,
         DelSession, SetActive, AllReturn, Granted, AllAt, Caller, Reply, TypeOK,
         ControlInv, PastInv, DeadInv, Past
    <2>. QED BY <1>3, <2>1, <2>2, <2>3, <2>4, <2>5, <2>6 DEF RevokeAll
  <1>4. ASSUME Validate PROVE DeadInv'
    <2>1. ASSUME NEW s \in Sid, ValidateStart(s) PROVE DeadInv'
      BY <2>1 DEF ValidateStart, TypeOK, ControlInv, PastInv, DeadInv, Past,
         Caller
    <2>2. ASSUME NEW r \in Reply, ValidateTracked(r) PROVE DeadInv'
      BY <2>2 DEF ValidateTracked, Answer, Reply, TypeOK, ControlInv, PastInv,
         DeadInv, Past, Granted, Caller
    <2>3. ASSUME NEW r \in Reply, ValidateFallback(r) PROVE DeadInv'
      BY <2>3 DEF ValidateFallback, Answer, Reply, TypeOK, ControlInv,
         PastInv, DeadInv, Past, Granted, Caller
    <2>4. CASE ValidateEnd
      BY <2>4 DEF ValidateEnd, NoCheck, TypeOK, ControlInv, PastInv, DeadInv,
         Past, Granted, Caller
    <2>. QED BY <1>4, <2>1, <2>2, <2>3, <2>4 DEF Validate
  <1>5. ASSUME Abandon PROVE DeadInv'
    <2>1. ASSUME NEW s \in Sid, AbandonRegister(s) PROVE DeadInv'
      BY <2>1 DEF AbandonRegister, Answer, RegisterAt, AllAt, Caller, TypeOK,
         ControlInv, PastInv, DeadInv, Past
    <2>2. ASSUME NEW s \in Sid, AbandonRevoke(s) PROVE DeadInv'
      BY <2>2 DEF AbandonRevoke, Answer, RevokeReturn, TypeOK, ControlInv,
         PastInv, DeadInv, Past, Granted, Caller
    <2>3. ASSUME NEW c \in Admin, AbandonRevokeAll(c) PROVE DeadInv'
      BY <2>3 DEF AbandonRevokeAll, Answer, AllReturn, Granted, AllAt, Caller, TypeOK,
         ControlInv, PastInv, DeadInv, Past
    <2>. QED BY <1>5, <2>1, <2>2, <2>3 DEF Abandon
  <1>6. ASSUME Tick PROVE DeadInv'
    BY <1>6, SessionAssumption DEF Tick, Less, TypeOK, ControlInv, PastInv,
       DeadInv, Past, Granted, Caller
  <1>7. CASE UNCHANGED vars
    BY <1>7 DEF vars, TypeOK, ControlInv, PastInv, DeadInv, Past, Granted, Caller
  <1>8. ASSUME Resend PROVE DeadInv'
    <2>1. ASSUME NEW s \in Sid, ResendRegister(s) PROVE DeadInv'
      BY <2>1, SessionAssumption DEF ResendRegister, Answer, SetMembers, SetActive,
         TypeOK, ControlInv, PastInv, DeadInv, Past, Granted, Caller
    <2>2. ASSUME NEW s \in Sid, ResendRevoke(s) PROVE DeadInv'
      BY <2>2, SessionAssumption DEF ResendRevoke, Answer, DelSession, SetMembers,
         SetActive, TypeOK, ControlInv, PastInv, DeadInv, Past, Granted, Caller
    <2>3. ASSUME NEW c \in Caller, ResendRevokeAll(c) PROVE DeadInv'
      BY <2>3, SessionAssumption DEF ResendRevokeAll, Answer, DelSession, SetMembers,
         SetActive, TypeOK, ControlInv, PastInv, DeadInv, Past, Granted, Caller
    <2>. QED BY <1>8, <2>1, <2>2, <2>3 DEF Resend
  <1>. QED BY <1>1, <1>2, <1>3, <1>4, <1>5, <1>6, <1>7, <1>8 DEF Next, Write

(* The inductive invariant: what the properties need, made inductive.        *)
IInv == TypeOK /\ ControlInv /\ PastInv /\ AliveInv /\ DeadInv

(* The empty Redis satisfies the invariant.                                 *)
LEMMA InitInv == Init => IInv
  <1> SUFFICES ASSUME Init PROVE IInv
      OBVIOUS
  <1>1. TypeOK
    <2>1. check \in Checks
      BY DEF Init, Checks, NoCheck
    <2>2. 0 \in 0..SessionTTL /\ 0 \in 0..MaxFaults
      BY SessionAssumption
    <2>. QED
      BY <2>1, <2>2 DEF Init, TypeOK
  <1>2. ControlInv /\ PastInv
    BY DEF Init, ControlInv, PastInv, Caller
  <1>3. AliveInv /\ DeadInv
    BY DEF Init, AliveInv, DeadInv, Caller
  <1>. QED BY <1>1, <1>2, <1>3 DEF IInv

(* Every step keeps the invariant.                                          *)
LEMMA StepInv == IInv /\ [Next]_vars => IInv'
  BY TypeStep, ControlStep, PastStep, AliveStep, DeadStep DEF IInv

(* The inductive invariant of the store.                                    *)
THEOREM Invariance == Spec => []IInv
  BY InitInv, StepInv, PTL DEF Spec

(* Every variable stays in its type, with any number of sessions, callers   *)
(* and failures.                                                            *)
THEOREM TypeCorrect == Spec => []TypeOK
  <1>1. IInv => TypeOK  BY DEF IInv
  <1>. QED BY Invariance, <1>1, PTL

(* A session reported as ended (Revoke or RevokeAll returned nil) is never  *)
(* valid again.                                                             *)
THEOREM RevokedForever == Spec => []RevokedStaysDead
  <1>1. IInv => RevokedStaysDead
    BY DEF IInv, TypeOK, DeadInv, RevokedStaysDead, Valid, Tracked
  <1>. QED BY Invariance, <1>1, PTL

(* A login survives whatever is not aimed at it.                            *)
THEOREM LoginsSurvive == Spec => []LoginSurvives
  <1>1. IInv => LoginSurvives
    BY DEF IInv, AliveInv, LoginSurvives, Granted
  <1>. QED BY Invariance, <1>1, PTL

-------------------------------------------------------------------------------
(***************************************************************************)
(* Validate. What its two reads saw still bounds its answer.               *)
(***************************************************************************)
(* What the answer of Validate may still depend on.                         *)
CheckInv ==
    /\ check.at # "idle" => check.sid \in Granted
    /\ check.promised => check.sid \in revoked
    /\ NoLateAccept
    /\ NoFalseReject

(* The record of the Validate in flight stays consistent with the history.  *)
LEMMA CheckStep == IInv /\ CheckInv /\ [Next]_vars => CheckInv'
  <1> SUFFICES ASSUME IInv, CheckInv, [Next]_vars PROVE CheckInv'
      OBVIOUS
  <1> USE DEF IInv, config, redis, setKey, activeKey, revokeVars, allVars, history,
      losses
  <1>1. ASSUME NEW s \in Sid, Register(s) PROVE CheckInv'
    <2>1. CASE RegisterStart(s)
      BY <2>1 DEF RegisterStart, RegisterAt, TypeOK, Checks, ControlInv,
         PastInv, AliveInv, DeadInv, CheckInv, NoLateAccept, NoFalseReject,
         Granted, Tracked, NoCheck
    <2>2. ASSUME NEW r \in Reply, RegisterSet(s, r) PROVE CheckInv'
      BY <2>2, SessionAssumption DEF RegisterSet, RegisterAt, Answer,
         Executed, Reply, TypeOK, Checks, ControlInv, PastInv, AliveInv,
         DeadInv, CheckInv, NoLateAccept, NoFalseReject, Granted, Tracked,
         NoCheck
    <2>3. ASSUME NEW r \in Reply, RegisterSAdd(s, r) PROVE CheckInv'
      BY <2>3 DEF RegisterSAdd, RegisterAt, Answer, Executed, SetMembers,
         Reply, TypeOK, Checks, ControlInv, PastInv, AliveInv, DeadInv,
         CheckInv, NoLateAccept, NoFalseReject, Granted, Tracked, NoCheck
    <2>4. ASSUME NEW r \in Reply, RegisterExpire(s, r) PROVE CheckInv'
      BY <2>4 DEF RegisterExpire, RegisterAt, Answer, Executed, Reply, TypeOK,
         Checks, ControlInv, PastInv, AliveInv, DeadInv, CheckInv,
         NoLateAccept, NoFalseReject, Granted, Tracked, NoCheck
    <2>5. ASSUME NEW r \in Reply, RegisterActive(s, r) PROVE CheckInv'
      BY <2>5 DEF RegisterActive, RegisterAt, Answer, Executed, SetActive,
         Reply, TypeOK, Checks, ControlInv, PastInv, AliveInv, DeadInv,
         CheckInv, NoLateAccept, NoFalseReject, Granted, Tracked, NoCheck
    <2>. QED BY <1>1, <2>1, <2>2, <2>3, <2>4, <2>5 DEF Register
  <1>2. ASSUME NEW s \in Sid, Revoke(s) PROVE CheckInv'
    <2>1. CASE RevokeStart(s)
      BY <2>1 DEF RevokeStart, TypeOK, Checks, ControlInv, PastInv, AliveInv,
         DeadInv, CheckInv, NoLateAccept, NoFalseReject, Granted, Tracked,
         NoCheck
    <2>2. ASSUME NEW r \in Reply, RevokeDel(s, r) PROVE CheckInv'
      BY <2>2 DEF RevokeDel, Answer, Executed, DelSession, Reply, TypeOK,
         Checks, ControlInv, PastInv, AliveInv, DeadInv, CheckInv,
         NoLateAccept, NoFalseReject, Granted, Tracked, NoCheck
    <2>3. ASSUME NEW r \in Reply, RevokeSRem(s, r) PROVE CheckInv'
      BY <2>3 DEF RevokeSRem, Answer, Executed, SetMembers, RevokeReturn,
         Reply, TypeOK, Checks, ControlInv, PastInv, AliveInv, DeadInv,
         CheckInv, NoLateAccept, NoFalseReject, Granted, Tracked, NoCheck
    <2>4. ASSUME NEW r \in Reply, RevokeGetActive(s, r) PROVE CheckInv'
      BY <2>4 DEF RevokeGetActive, Answer, RevokeReturn, Reply, TypeOK,
         Checks, ControlInv, PastInv, AliveInv, DeadInv, CheckInv,
         NoLateAccept, NoFalseReject, Granted, Tracked, NoCheck
    <2>5. ASSUME NEW r \in Reply, RevokeDelActive(s, r) PROVE CheckInv'
      BY <2>5, SessionAssumption DEF RevokeDelActive, Answer, Executed,
         SetActive, RevokeReturn, Reply, TypeOK, Checks, ControlInv, PastInv,
         AliveInv, DeadInv, CheckInv, NoLateAccept, NoFalseReject, Granted,
         Tracked, NoCheck
    <2>. QED BY <1>2, <2>1, <2>2, <2>3, <2>4, <2>5 DEF Revoke
  <1>3. ASSUME NEW c \in Caller, RevokeAll(c) PROVE CheckInv'
    <2>1. CASE RevokeAllStart(c)
      BY <2>1, SessionAssumption DEF RevokeAllStart, AllAt, Caller, TypeOK,
         Checks, ControlInv, PastInv, AliveInv, DeadInv, CheckInv,
         NoLateAccept, NoFalseReject, Granted, Tracked, NoCheck
    <2>2. ASSUME NEW r \in Reply, AllSMembers(c, r) PROVE CheckInv'
      BY <2>2, SessionAssumption DEF AllSMembers, Answer, AllAt, AllReturn,
         Caller, Reply, TypeOK, Checks, ControlInv, PastInv, AliveInv,
         DeadInv, CheckInv, NoLateAccept, NoFalseReject, Granted, Tracked,
         NoCheck
    <2>3. ASSUME NEW s \in Sid, NEW r \in Reply, AllDelSession(c, s, r) PROVE CheckInv'
      BY <2>3 DEF AllDelSession, Answer, AllAt, Executed, DelSession, Caller,
         Reply, TypeOK, Checks, ControlInv, PastInv, AliveInv, DeadInv,
         CheckInv, NoLateAccept, NoFalseReject, Granted, Tracked, NoCheck
    <2>4. ASSUME NEW r \in Reply, AllDelSet(c, r) PROVE CheckInv'
      BY <2>4 DEF AllDelSet, Answer, Executed, SetMembers, AllReturn, AllAt,
         Caller, Reply, TypeOK, Checks, ControlInv, PastInv, AliveInv,
         DeadInv, CheckInv, NoLateAccept, NoFalseReject, Granted, Tracked,
         NoCheck
    <2>5. ASSUME NEW r \in Reply, AllGetActive(c, r) PROVE CheckInv'
      BY <2>5 DEF AllGetActive, Answer, AllAt, AllReturn, Caller, Reply,
         TypeOK, Checks, ControlInv, PastInv, AliveInv, DeadInv, CheckInv,
         NoLateAccept, NoFalseReject, Granted, Tracked, NoCheck
    <2>6. ASSUME NEW r \in Reply, AllDelActive(c, r) PROVE CheckInv'
      BY <2>6, SessionAssumption DEF AllDelActive, Answer, Executed,
         DelSession, SetActive, AllReturn, AllAt, Caller, Reply, TypeOK,
         Checks, ControlInv, PastInv, AliveInv, DeadInv, CheckInv,
         NoLateAccept, NoFalseReject, Granted, Tracked, NoCheck
    <2>. QED BY <1>3, <2>1, <2>2, <2>3, <2>4, <2>5, <2>6 DEF RevokeAll
  <1>4. ASSUME Validate PROVE CheckInv'
    <2>1. ASSUME NEW s \in Sid, ValidateStart(s) PROVE CheckInv'
      BY <2>1 DEF ValidateStart, TypeOK, Checks, ControlInv, PastInv,
         AliveInv, DeadInv, CheckInv, NoLateAccept, NoFalseReject, Granted,
         Tracked, NoCheck
    <2>2. ASSUME NEW r \in Reply, ValidateTracked(r) PROVE CheckInv'
      BY <2>2 DEF ValidateTracked, Answer, Reply, TypeOK, Checks, ControlInv,
         PastInv, AliveInv, DeadInv, CheckInv, NoLateAccept, NoFalseReject,
         Granted, Tracked, NoCheck
    <2>3. ASSUME NEW r \in Reply, ValidateFallback(r) PROVE CheckInv'
      <3>1. /\ check'.sid = check.sid /\ check'.promised = check.promised
            /\ check'.err = (check.err \/ r # "ok")
            /\ check'.at \in {"accepted", "rejected"}
            /\ check'.at = "accepted" =>
                 (r = "ok" /\ sessTTL[check.sid] > 0) \/ (check'.err /\ failOpen)
            /\ check'.at = "rejected" =>
                 ~(r = "ok" /\ sessTTL[check.sid] > 0) /\ ~(check'.err /\ failOpen)
        BY <2>3 DEF ValidateFallback, TypeOK, Checks
      <3>2. check.sid \in Granted /\ (check.promised => sessTTL[check.sid] = 0)
        BY <2>3 DEF ValidateFallback, CheckInv, DeadInv
      <3>3. Granted' = Granted /\ UNCHANGED <<revoked, ended, failOpen, multiDevice, dropped>>
        BY <2>3 DEF ValidateFallback, Granted
      <3>4. NoLateAccept'
        BY <3>1, <3>2, <3>3 DEF NoLateAccept, TypeOK
      <3>5. NoFalseReject'
        BY <3>1, <3>2, <3>3 DEF NoFalseReject, AliveInv, Granted, TypeOK
      <3>. QED
        BY <3>1, <3>2, <3>3, <3>4, <3>5 DEF CheckInv
    <2>4. CASE ValidateEnd
      BY <2>4 DEF ValidateEnd, NoCheck, TypeOK, Checks, ControlInv, PastInv,
         AliveInv, DeadInv, CheckInv, NoLateAccept, NoFalseReject, Granted,
         Tracked
    <2>. QED BY <1>4, <2>1, <2>2, <2>3, <2>4 DEF Validate
  <1>5. ASSUME Abandon PROVE CheckInv'
    <2>1. ASSUME NEW s \in Sid, AbandonRegister(s) PROVE CheckInv'
      BY <2>1 DEF AbandonRegister, Answer, RegisterAt, AllAt, Caller, TypeOK,
         Checks, ControlInv, PastInv, AliveInv, DeadInv, CheckInv,
         NoLateAccept, NoFalseReject, Granted, Tracked, NoCheck
    <2>2. ASSUME NEW s \in Sid, AbandonRevoke(s) PROVE CheckInv'
      BY <2>2 DEF AbandonRevoke, Answer, RevokeReturn, TypeOK, Checks,
         ControlInv, PastInv, AliveInv, DeadInv, CheckInv, NoLateAccept,
         NoFalseReject, Granted, Tracked, NoCheck
    <2>3. ASSUME NEW c \in Admin, AbandonRevokeAll(c) PROVE CheckInv'
      BY <2>3 DEF AbandonRevokeAll, Answer, AllReturn, AllAt, Caller, TypeOK,
         Checks, ControlInv, PastInv, AliveInv, DeadInv, CheckInv,
         NoLateAccept, NoFalseReject, Granted, Tracked, NoCheck
    <2>. QED BY <1>5, <2>1, <2>2, <2>3 DEF Abandon
  <1>6. ASSUME Tick PROVE CheckInv'
    BY <1>6, SessionAssumption DEF Tick, Less, TypeOK, Checks, ControlInv,
       PastInv, AliveInv, DeadInv, CheckInv, NoLateAccept, NoFalseReject,
       Granted, Tracked, NoCheck
  <1>7. CASE UNCHANGED vars
    BY <1>7 DEF vars, TypeOK, Checks, ControlInv, PastInv, AliveInv, DeadInv,
       CheckInv, NoLateAccept, NoFalseReject, Granted, Tracked, NoCheck
  <1>8. ASSUME Resend PROVE CheckInv'
    <2>1. ASSUME NEW s \in Sid, ResendRegister(s) PROVE CheckInv'
      BY <2>1, SessionAssumption DEF ResendRegister, Answer, SetMembers, SetActive,
         TypeOK, Checks, ControlInv,
         PastInv, AliveInv, DeadInv, CheckInv, NoLateAccept, NoFalseReject,
         Granted, Tracked, NoCheck, Caller
    <2>2. ASSUME NEW s \in Sid, ResendRevoke(s) PROVE CheckInv'
      BY <2>2, SessionAssumption DEF ResendRevoke, Answer, DelSession, SetMembers,
         SetActive, TypeOK, Checks, ControlInv,
         PastInv, AliveInv, DeadInv, CheckInv, NoLateAccept, NoFalseReject,
         Granted, Tracked, NoCheck, Caller
    <2>3. ASSUME NEW c \in Caller, ResendRevokeAll(c) PROVE CheckInv'
      BY <2>3, SessionAssumption DEF ResendRevokeAll, Answer, DelSession, SetMembers,
         SetActive, TypeOK, Checks, ControlInv,
         PastInv, AliveInv, DeadInv, CheckInv, NoLateAccept, NoFalseReject,
         Granted, Tracked, NoCheck, Caller
    <2>. QED BY <1>8, <2>1, <2>2, <2>3 DEF Resend
  <1>. QED BY <1>1, <1>2, <1>3, <1>4, <1>5, <1>6, <1>7, <1>8 DEF Next, Write

(* Everything Validate has concluded so far is consistent with the history. *)
THEOREM ValidateCorrect == Spec => []CheckInv
  <1>1. Init => CheckInv
    BY DEF Init, CheckInv, NoCheck, NoLateAccept, NoFalseReject, Granted
  <1>. QED BY <1>1, Invariance, CheckStep, PTL DEF Spec

(* Validate never accepts a session that was reported as ended before the   *)
(* call began, except when an error met failOpen.                           *)
THEOREM NoAcceptAfterRevoke == Spec => []NoLateAccept
  <1>1. CheckInv => NoLateAccept  BY DEF CheckInv
  <1>. QED BY ValidateCorrect, <1>1, PTL

(* Validate never rejects a session nobody set out to end, except when an   *)
(* error met a closed failOpen.                                             *)
THEOREM NoRejectOfLive == Spec => []NoFalseReject
  <1>1. CheckInv => NoFalseReject  BY DEF CheckInv
  <1>. QED BY ValidateCorrect, <1>1, PTL

-------------------------------------------------------------------------------
(***************************************************************************)
(* The store implements SessionRegistry.                                   *)
(***************************************************************************)
(* A step in which no granted session becomes valid again.                  *)
NoReturn == \A s \in Granted : Valid(s)' => Valid(s)

(* What a step of the store looks like from the registry.                   *)
StepFacts ==
    /\ NoReturn
    /\ ended \subseteq ended'
    /\ \/ Granted' = Granted
       \/ \E s \in Sid \ Granted : Granted' = Granted \cup {s} /\ ended' = ended

(* No step makes a granted session valid that was not, un-ends one, or      *)
(* grants more than one.                                                    *)
LEMMA StepRefines == IInv /\ [Next]_vars => StepFacts
  <1> SUFFICES ASSUME IInv, [Next]_vars PROVE StepFacts
      OBVIOUS
  <1> USE DEF IInv, config, redis, setKey, activeKey, revokeVars, allVars, history,
      losses
  <1>1. ASSUME NEW s \in Sid, Register(s) PROVE StepFacts
    <2>1. CASE RegisterStart(s)
      BY <2>1 DEF RegisterStart, RegisterAt, TypeOK, ControlInv, PastInv,
         Past, StepFacts, NoReturn, Granted, Valid, Tracked, Caller
    <2>2. ASSUME NEW r \in Reply, RegisterSet(s, r) PROVE StepFacts
      BY <2>2, SessionAssumption DEF RegisterSet, RegisterAt, Answer,
         Executed, Reply, TypeOK, ControlInv, PastInv, Past, StepFacts,
         NoReturn, Granted, Valid, Tracked, Caller
    <2>3. ASSUME NEW r \in Reply, RegisterSAdd(s, r) PROVE StepFacts
      BY <2>3 DEF RegisterSAdd, RegisterAt, Answer, Executed, SetMembers,
         Reply, TypeOK, ControlInv, PastInv, Past, StepFacts, NoReturn,
         Granted, Valid, Tracked, Caller
    <2>4. ASSUME NEW r \in Reply, RegisterExpire(s, r) PROVE StepFacts
      BY <2>4 DEF RegisterExpire, RegisterAt, Answer, Executed, Reply, TypeOK,
         ControlInv, PastInv, Past, StepFacts, NoReturn, Granted, Valid,
         Tracked, Caller
    <2>5. ASSUME NEW r \in Reply, RegisterActive(s, r) PROVE StepFacts
      BY <2>5 DEF RegisterActive, RegisterAt, Answer, Executed, SetActive,
         Reply, TypeOK, ControlInv, PastInv, Past, StepFacts, NoReturn,
         Granted, Valid, Tracked, Caller
    <2>. QED BY <1>1, <2>1, <2>2, <2>3, <2>4, <2>5 DEF Register
  <1>2. ASSUME NEW s \in Sid, Revoke(s) PROVE StepFacts
    <2>1. CASE RevokeStart(s)
      BY <2>1 DEF RevokeStart, TypeOK, ControlInv, PastInv, Past, StepFacts,
         NoReturn, Granted, Valid, Tracked, Caller
    <2>2. ASSUME NEW r \in Reply, RevokeDel(s, r) PROVE StepFacts
      BY <2>2 DEF RevokeDel, Answer, Executed, DelSession, Reply, TypeOK,
         ControlInv, PastInv, Past, StepFacts, NoReturn, Granted, Valid,
         Tracked, Caller
    <2>3. ASSUME NEW r \in Reply, RevokeSRem(s, r) PROVE StepFacts
      BY <2>3 DEF RevokeSRem, Answer, Executed, SetMembers, RevokeReturn,
         Reply, TypeOK, ControlInv, PastInv, Past, StepFacts, NoReturn,
         Granted, Valid, Tracked, Caller
    <2>4. ASSUME NEW r \in Reply, RevokeGetActive(s, r) PROVE StepFacts
      BY <2>4 DEF RevokeGetActive, Answer, RevokeReturn, Reply, TypeOK,
         ControlInv, PastInv, Past, StepFacts, NoReturn, Granted, Valid,
         Tracked, Caller
    <2>5. ASSUME NEW r \in Reply, RevokeDelActive(s, r) PROVE StepFacts
      BY <2>5, SessionAssumption DEF RevokeDelActive, Answer, Executed,
         SetActive, RevokeReturn, Reply, TypeOK, ControlInv, PastInv, Past,
         StepFacts, NoReturn, Granted, Valid, Tracked, Caller
    <2>. QED BY <1>2, <2>1, <2>2, <2>3, <2>4, <2>5 DEF Revoke
  <1>3. ASSUME NEW c \in Caller, RevokeAll(c) PROVE StepFacts
    <2>1. CASE RevokeAllStart(c)
      BY <2>1, SessionAssumption DEF RevokeAllStart, AllAt, Caller, TypeOK,
         ControlInv, PastInv, Past, StepFacts, NoReturn, Granted, Valid,
         Tracked
    <2>2. ASSUME NEW r \in Reply, AllSMembers(c, r) PROVE StepFacts
      BY <2>2, SessionAssumption DEF AllSMembers, Answer, AllAt, AllReturn,
         Caller, Reply, TypeOK, ControlInv, PastInv, Past, StepFacts,
         NoReturn, Granted, Valid, Tracked
    <2>3. ASSUME NEW s \in Sid, NEW r \in Reply, AllDelSession(c, s, r) PROVE StepFacts
      BY <2>3 DEF AllDelSession, Answer, AllAt, Executed, DelSession, Caller,
         Reply, TypeOK, ControlInv, PastInv, Past, StepFacts, NoReturn,
         Granted, Valid, Tracked
    <2>4. ASSUME NEW r \in Reply, AllDelSet(c, r) PROVE StepFacts
      BY <2>4 DEF AllDelSet, Answer, Executed, SetMembers, AllReturn, AllAt,
         Caller, Reply, TypeOK, ControlInv, PastInv, Past, StepFacts,
         NoReturn, Granted, Valid, Tracked
    <2>5. ASSUME NEW r \in Reply, AllGetActive(c, r) PROVE StepFacts
      BY <2>5 DEF AllGetActive, Answer, AllAt, AllReturn, Caller, Reply,
         TypeOK, ControlInv, PastInv, Past, StepFacts, NoReturn, Granted,
         Valid, Tracked
    <2>6. ASSUME NEW r \in Reply, AllDelActive(c, r) PROVE StepFacts
      BY <2>6, SessionAssumption DEF AllDelActive, Answer, Executed,
         DelSession, SetActive, AllReturn, AllAt, Caller, Reply, TypeOK,
         ControlInv, PastInv, Past, StepFacts, NoReturn, Granted, Valid,
         Tracked
    <2>. QED BY <1>3, <2>1, <2>2, <2>3, <2>4, <2>5, <2>6 DEF RevokeAll
  <1>4. ASSUME Validate PROVE StepFacts
    <2>1. ASSUME NEW s \in Sid, ValidateStart(s) PROVE StepFacts
      BY <2>1 DEF ValidateStart, TypeOK, ControlInv, PastInv, Past, StepFacts,
         NoReturn, Granted, Valid, Tracked, Caller
    <2>2. ASSUME NEW r \in Reply, ValidateTracked(r) PROVE StepFacts
      BY <2>2 DEF ValidateTracked, Answer, Reply, TypeOK, ControlInv, PastInv,
         Past, StepFacts, NoReturn, Granted, Valid, Tracked, Caller
    <2>3. ASSUME NEW r \in Reply, ValidateFallback(r) PROVE StepFacts
      BY <2>3 DEF ValidateFallback, Answer, Reply, TypeOK, ControlInv,
         PastInv, Past, StepFacts, NoReturn, Granted, Valid, Tracked, Caller
    <2>4. CASE ValidateEnd
      BY <2>4 DEF ValidateEnd, NoCheck, TypeOK, ControlInv, PastInv, Past,
         StepFacts, NoReturn, Granted, Valid, Tracked, Caller
    <2>. QED BY <1>4, <2>1, <2>2, <2>3, <2>4 DEF Validate
  <1>5. ASSUME Abandon PROVE StepFacts
    <2>1. ASSUME NEW s \in Sid, AbandonRegister(s) PROVE StepFacts
      BY <2>1 DEF AbandonRegister, Answer, RegisterAt, AllAt, Caller, TypeOK,
         ControlInv, PastInv, Past, StepFacts, NoReturn, Granted, Valid,
         Tracked
    <2>2. ASSUME NEW s \in Sid, AbandonRevoke(s) PROVE StepFacts
      BY <2>2 DEF AbandonRevoke, Answer, RevokeReturn, TypeOK, ControlInv,
         PastInv, Past, StepFacts, NoReturn, Granted, Valid, Tracked, Caller
    <2>3. ASSUME NEW c \in Admin, AbandonRevokeAll(c) PROVE StepFacts
      BY <2>3 DEF AbandonRevokeAll, Answer, AllReturn, AllAt, Caller, TypeOK,
         ControlInv, PastInv, Past, StepFacts, NoReturn, Granted, Valid,
         Tracked
    <2>. QED BY <1>5, <2>1, <2>2, <2>3 DEF Abandon
  <1>6. ASSUME Tick PROVE StepFacts
    BY <1>6, SessionAssumption DEF Tick, Less, TypeOK, ControlInv, PastInv,
       Past, StepFacts, NoReturn, Granted, Valid, Tracked, Caller
  <1>7. CASE UNCHANGED vars
    BY <1>7 DEF vars, TypeOK, ControlInv, PastInv, Past, StepFacts, NoReturn,
       Granted, Valid, Tracked, Caller
  <1>8. ASSUME Resend PROVE StepFacts
    <2>1. ASSUME NEW s \in Sid, ResendRegister(s) PROVE StepFacts
      BY <2>1, SessionAssumption DEF ResendRegister, Answer, SetMembers, SetActive,
         TypeOK, ControlInv,
         PastInv, Past, StepFacts, NoReturn, Granted, Valid, Tracked, Caller
    <2>2. ASSUME NEW s \in Sid, ResendRevoke(s) PROVE StepFacts
      BY <2>2, SessionAssumption DEF ResendRevoke, Answer, DelSession, SetMembers,
         SetActive, TypeOK, ControlInv,
         PastInv, Past, StepFacts, NoReturn, Granted, Valid, Tracked, Caller
    <2>3. ASSUME NEW c \in Caller, ResendRevokeAll(c) PROVE StepFacts
      BY <2>3, SessionAssumption DEF ResendRevokeAll, Answer, DelSession, SetMembers,
         SetActive, TypeOK, ControlInv,
         PastInv, Past, StepFacts, NoReturn, Granted, Valid, Tracked, Caller
    <2>. QED BY <1>8, <2>1, <2>2, <2>3 DEF Resend
  <1>. QED BY <1>1, <1>2, <1>3, <1>4, <1>5, <1>6, <1>7, <1>8 DEF Next, Write

(* Every behaviour of the store, with all its interleavings and failures,   *)
(* is one of the registry: no session ends unasked and none comes back.     *)
THEOREM Refinement == Spec => OneWayLife
  <1>1. Init => Registry!RInit
    BY DEF Init, Registry!RInit, Granted, Live
  <1>2. IInv /\ IInv' /\ [Next]_vars => [Registry!RNext]_(Registry!rvars)
    <2> SUFFICES ASSUME IInv, IInv', [Next]_vars
                 PROVE  Registry!RNext
        OBVIOUS
    <2>1. StepFacts
      BY StepRefines
    <2>2. Granted \subseteq Granted' /\ ended' \subseteq Sid
      BY <2>1 DEF StepFacts, IInv, TypeOK
    <2>3. \A s \in Granted' \ ended' : s \in Live'
      BY DEF IInv, AliveInv, TypeOK, Granted, Live, Valid
    <2>4. \A s \in Live' : s \in Granted => s \in Live
      BY <2>1 DEF StepFacts, NoReturn, Live
    <2>5. CASE Granted' = Granted
      <3> DEFINE T == Live \ Live'
      <3>1. T \in SUBSET ended'
        BY <2>2, <2>3 DEF Live
      <3>2. Live' = Live \ T
        BY <2>4, <2>5 DEF Live
      <3>3. ended' = ended \cup (ended' \ ended) /\ ended' \ ended \in SUBSET Sid
        BY <2>1, <2>2 DEF StepFacts
      <3>4. Registry!Doom(ended' \ ended)
        BY <2>5, <3>1, <3>2, <3>3 DEF Registry!Doom, Registry!EndSome
      <3>. QED
        BY <3>3, <3>4 DEF Registry!RNext
    <2>6. ASSUME NEW s \in Sid \ Granted, Granted' = Granted \cup {s}, ended' = ended
          PROVE  Registry!RNext
      <3> DEFINE T == (Live \cup {s}) \ Live'
      <3>1. T \in SUBSET ended'
        BY <2>2, <2>3, <2>6 DEF Live
      <3>2. Live' = (Live \cup {s}) \ T
        BY <2>4, <2>6 DEF Live
      <3>3. Registry!Grant(s)
        BY <2>6, <3>1, <3>2 DEF Registry!Grant, Registry!EndSome
      <3>. QED
        BY <3>3 DEF Registry!RNext
    <2>. QED
      BY <2>1, <2>5, <2>6 DEF StepFacts
  <1>. QED
    BY <1>1, <1>2, Invariance, PTL DEF Spec, OneWayLife, Registry!RSpec

-------------------------------------------------------------------------------
(***************************************************************************)
(* One call at a time.                                                     *)
(***************************************************************************)
Acting(a) ==
    IF a \in Sid THEN a \in Registering \/ revoke[a] # "idle"
                 ELSE revokeAll[a] # "idle"
Alone == \A a, b \in Caller : Acting(a) /\ Acting(b) => a = b

(* Nobody but a is in a call.                                               *)
Quiet(a) ==
    \A b \in Caller \ {a} :
        /\ revokeAll[b] = "idle"
        /\ b \in Sid => register[b] \in {"idle", "in", "failed"} /\ revoke[b] = "idle"

LEMMA AtMostOne ==
    ASSUME NEW S, IsFiniteSet(S)
    PROVE  /\ Cardinality(S) \in Nat
           /\ Cardinality(S) = 0 <=> S = {}
           /\ Cardinality(S) <= 1 => \A x, y \in S : x = y
  <1>1. Cardinality(S) \in Nat /\ (Cardinality(S) = 0 <=> S = {})
    BY FS_CardinalityType, FS_EmptySet
  <1>2. ASSUME NEW x \in S, NEW y \in S, Cardinality(S) <= 1, x # y PROVE FALSE
    <2>1. IsFiniteSet({x}) /\ Cardinality({x}) = 1
      BY FS_Singleton
    <2>2. Cardinality({x} \cup {y}) = 2
      BY <2>1, <1>2, FS_AddElement
    <2>3. Cardinality({x} \cup {y}) <= Cardinality(S)
      BY FS_Subset
    <2>. QED BY <1>1, <1>2, <2>2, <2>3
  <1>. QED BY <1>1, <1>2

(* The count of the specification says just that.                           *)
LEMMA CountedAlone == TypeOK /\ InFlight <= 1 => Alone
  <1> DEFINE V == {s \in Sid : revoke[s] # "idle"}
             A == {c \in Admin : revokeAll[c] # "idle"}
  <1>1. IsFiniteSet(Registering) /\ IsFiniteSet(V) /\ IsFiniteSet(A)
    BY FiniteCallers, FS_Subset DEF Registering
  <1>2. /\ Cardinality(Registering) \in Nat /\ (Cardinality(Registering) = 0 <=> Registering = {})
        /\ Cardinality(Registering) <= 1 => \A x, y \in Registering : x = y
    BY <1>1, AtMostOne
  <1>3. /\ Cardinality(V) \in Nat /\ (Cardinality(V) = 0 <=> V = {})
        /\ Cardinality(V) <= 1 => \A x, y \in V : x = y
    BY <1>1, AtMostOne
  <1>4. /\ Cardinality(A) \in Nat /\ (Cardinality(A) = 0 <=> A = {})
        /\ Cardinality(A) <= 1 => \A x, y \in A : x = y
    BY <1>1, AtMostOne
  <1> SUFFICES ASSUME TypeOK, InFlight <= 1, NEW a \in Caller, NEW b \in Caller,
                      Acting(a), Acting(b)
               PROVE  a = b
    BY DEF Alone
  <1>5. Cardinality(Registering) + Cardinality(V) + Cardinality(A) <= 1
    BY DEF InFlight
  <1>6. \A c \in {a, b} : c \in Registering \/ c \in V \/ c \in A
    BY DEF Acting, Caller
  <1> HIDE DEF V, A
  <1>7. \/ V = {} /\ A = {} /\ Cardinality(Registering) <= 1
        \/ Registering = {} /\ A = {} /\ Cardinality(V) <= 1
        \/ Registering = {} /\ V = {} /\ Cardinality(A) <= 1
    BY <1>2, <1>3, <1>4, <1>5
  <1>. QED BY <1>2, <1>3, <1>4, <1>6, <1>7

LEMMA NobodyActs == TypeOK /\ InFlight = 0 => \A a \in Caller : ~Acting(a)
  <1> DEFINE V == {s \in Sid : revoke[s] # "idle"}
             A == {c \in Admin : revokeAll[c] # "idle"}
  <1>1. IsFiniteSet(Registering) /\ IsFiniteSet(V) /\ IsFiniteSet(A)
    BY FiniteCallers, FS_Subset DEF Registering
  <1>2. /\ Cardinality(Registering) \in Nat /\ (Cardinality(Registering) = 0 <=> Registering = {})
        /\ Cardinality(V) \in Nat /\ (Cardinality(V) = 0 <=> V = {})
        /\ Cardinality(A) \in Nat /\ (Cardinality(A) = 0 <=> A = {})
    BY <1>1, AtMostOne
  <1> SUFFICES ASSUME TypeOK, InFlight = 0 PROVE \A a \in Caller : ~Acting(a)
    OBVIOUS
  <1>3. Cardinality(Registering) + Cardinality(V) + Cardinality(A) = 0
    BY DEF InFlight
  <1> HIDE DEF V, A
  <1>4. /\ Cardinality(Registering) <= 0 /\ Cardinality(V) <= 0 /\ Cardinality(A) <= 0
    BY <1>2, <1>3
  <1>5. Registering = {} /\ V = {} /\ A = {}
    BY <1>2, <1>4
  <1>. QED BY <1>5 DEF Acting, Caller, V, A

LEMMA ActingAlone ==
    ASSUME TypeOK, ControlInv, Alone, NEW a \in Caller, Acting(a)
    PROVE  Quiet(a)
  BY DEF TypeOK, ControlInv, Alone, Quiet, Acting, Registering, Caller

(* The login in flight has passed no command of the other device mode.      *)
ModeInv ==
    \A s \in Sid : /\ register[s] \in {"sAdd", "expire"} => multiDevice
                   /\ register[s] = "setActive" => ~multiDevice

(* The granted sessions that have a key: what looks them up names them, and *)
(* lives as long as they do.                                                *)
Keyed == {s \in Granted : sessTTL[s] > 0}
Held(s) ==
    IF multiDevice THEN s \in members /\ (setTTL = 0 \/ setTTL >= sessTTL[s])
                   ELSE active = s /\ activeTTL >= sessTTL[s]

(* What the call in flight has still to delete, and what it has deleted.    *)
TrackInv ==
    /\ \A s \in Keyed : Held(s)
    /\ \A s \in Sid :
          /\ register[s] = "expire" => s \in members
          /\ register[s] \in {"setSession", "setActive"} /\ ~multiDevice => Keyed = {}
          /\ revoke[s] \in {"sRem", "getActive", "delActive"} => s \notin Keyed
          /\ revoke[s] = "delActive" => Keyed = {}
    /\ \A c \in Caller :
          /\ revokeAll[c] = "delSession" => Keyed \subseteq todo[c]
          /\ revokeAll[c] = "delSet" => Keyed = {}
          /\ revokeAll[c] = "delActive" => Keyed \subseteq ids[c]

LEMMA ModeStep == TypeOK /\ ModeInv /\ [Next]_vars => ModeInv'
  <1> SUFFICES ASSUME TypeOK, ModeInv, [Next]_vars PROVE ModeInv'
      OBVIOUS
  <1> USE DEF config, redis, setKey, activeKey, revokeVars, allVars, history, losses
  <1>1. ASSUME NEW s \in Sid, Register(s) PROVE ModeInv'
    BY <1>1 DEF Register, RegisterStart, RegisterSet, RegisterSAdd, RegisterExpire,
       RegisterActive, RegisterAt, TypeOK, ModeInv
  <1>2. ASSUME NEW s \in Sid, Revoke(s) PROVE ModeInv'
    BY <1>2 DEF Revoke, RevokeStart, RevokeDel, RevokeSRem, RevokeGetActive,
       RevokeDelActive, TypeOK, ModeInv
  <1>3. ASSUME NEW c \in Caller, RevokeAll(c) PROVE ModeInv'
    <2>1. multiDevice' = multiDevice
      BY <1>3 DEF RevokeAll, RevokeAllStart, AllSMembers, AllDelSession, AllDelSet,
         AllGetActive, AllDelActive
    <2>2. \/ register' = register
          \/ \E at \in {"failed", "setSession"} : register' = [register EXCEPT ![c] = at]
      BY <1>3 DEF RevokeAll, RevokeAllStart, AllSMembers, AllDelSession, AllDelSet,
         AllGetActive, AllDelActive, AllReturn
    <2>. QED BY <2>1, <2>2 DEF TypeOK, ModeInv
  <1>4. ASSUME Validate PROVE ModeInv'
    BY <1>4 DEF Validate, ValidateStart, ValidateTracked, ValidateFallback, ValidateEnd,
       TypeOK, ModeInv
  <1>5. ASSUME Abandon PROVE ModeInv'
    <2>1. multiDevice' = multiDevice
      BY <1>5 DEF Abandon, AbandonRegister, AbandonRevoke, AbandonRevokeAll
    <2>2. \/ register' = register
          \/ \E c \in Caller : register' = [register EXCEPT ![c] = "failed"]
      BY <1>5 DEF Abandon, AbandonRegister, AbandonRevoke, AbandonRevokeAll, AllReturn,
         RegisterAt, Caller
    <2>. QED BY <2>1, <2>2 DEF TypeOK, ModeInv
  <1>6. ASSUME Resend PROVE ModeInv'
    BY <1>6 DEF Resend, ResendRegister, ResendRevoke, ResendRevokeAll, TypeOK, ModeInv
  <1>7. ASSUME Tick PROVE ModeInv'
    BY <1>7 DEF Tick, TypeOK, ModeInv
  <1>8. CASE UNCHANGED vars
    BY <1>8 DEF vars, TypeOK, ModeInv
  <1>. QED BY <1>1, <1>2, <1>3, <1>4, <1>5, <1>6, <1>7, <1>8 DEF Next, Write

(* A login in flight.                                                       *)
LEMMA TrackRegister ==
    ASSUME TypeOK, ControlInv, ModeInv, TrackInv, NEW s \in Sid, Quiet(s), Register(s)
    PROVE  TrackInv'
  <1> USE SessionAssumption
      DEF config, redis, setKey, activeKey, revokeVars, allVars, history, losses
  <1>0. /\ revoke[s] = "idle" \/ register[s] = "in"
        /\ revokeAll[s] = "idle" \/ register[s] = "revokeAll"
    BY DEF ControlInv
  <1>1. CASE RegisterStart(s)
    BY <1>0, <1>1 DEF RegisterStart, RegisterAt, TypeOK, TrackInv, Keyed, Held, Granted, Caller
  <1>2. ASSUME NEW r \in Reply, RegisterSet(s, r) PROVE TrackInv'
    BY <1>0, <1>2 DEF RegisterSet, RegisterAt, TypeOK, Quiet, TrackInv, Keyed, Held, Granted, Caller
  <1>3. ASSUME NEW r \in Reply, RegisterSAdd(s, r) PROVE TrackInv'
    BY <1>0, <1>3 DEF RegisterSAdd, RegisterAt, SetMembers, Executed, TypeOK, ModeInv, Quiet,
       TrackInv, Keyed, Held, Granted, Caller
  <1>4. ASSUME NEW r \in Reply, RegisterExpire(s, r) PROVE TrackInv'
    <2>1. multiDevice /\ s \in members
      BY <1>4 DEF RegisterExpire, ModeInv, TrackInv
    <2>2. /\ setTTL' \in {setTTL, SessionTTL} /\ (r = "ok" => setTTL' = SessionTTL)
          /\ register' = [register EXCEPT ![s] = IF r = "ok" THEN "in" ELSE "failed"]
          /\ UNCHANGED <<config, sessTTL, members, activeKey, revokeVars, allVars>>
      BY <1>4, <2>1 DEF RegisterExpire, RegisterAt, Executed
    <2>3. Keyed' \subseteq Keyed \cup {s} /\ (r # "ok" => Keyed' = Keyed)
      BY <1>4, <2>2 DEF RegisterExpire, Keyed, Granted, TypeOK
    <2>4. \A t \in Keyed' : Held(t)'
      <3> SUFFICES ASSUME NEW t \in Keyed' PROVE Held(t)'
        OBVIOUS
      <3>1. t \in Sid /\ t \in members
        BY <2>1, <2>3 DEF TrackInv, Held, Keyed, Granted
      <3>2. setTTL' = 0 \/ setTTL' >= sessTTL[t]
        <4>1. CASE setTTL' = SessionTTL
          BY <4>1, <3>1 DEF TypeOK
        <4>2. CASE setTTL' = setTTL /\ r # "ok"
          BY <4>2, <2>1, <2>3 DEF TrackInv, Held
        <4>. QED BY <4>1, <4>2, <2>2
      <3>. QED BY <2>1, <2>2, <3>1, <3>2 DEF Held
    <2>. QED BY <1>0, <1>4, <2>1, <2>2, <2>4 DEF RegisterExpire, TypeOK, Quiet, TrackInv, Caller
  <1>5. ASSUME NEW r \in Reply, RegisterActive(s, r) PROVE TrackInv'
    <2>1. ~multiDevice /\ Keyed = {}
      BY <1>5 DEF RegisterActive, ModeInv, TrackInv
    <2>2. /\ r = "ok" => active' = s /\ activeTTL' = SessionTTL
          /\ register' = [register EXCEPT ![s] = IF r = "ok" THEN "in" ELSE "failed"]
          /\ UNCHANGED <<config, sessTTL, setKey, revokeVars, allVars>>
      BY <1>5 DEF RegisterActive, RegisterAt, SetActive, Executed
    <2>3. Keyed' \subseteq {s} /\ (r # "ok" => Keyed' = {})
      BY <2>1, <2>2 DEF Keyed, Granted, TypeOK
    <2>4. \A t \in Keyed' : Held(t)'
      BY <2>1, <2>2, <2>3 DEF Held, TypeOK
    <2>. QED BY <1>0, <1>5, <2>1, <2>2, <2>4 DEF RegisterActive, TypeOK, Quiet, TrackInv, Caller
  <1>. QED BY <1>1, <1>2, <1>3, <1>4, <1>5 DEF Register

(* A logout in flight.                                                      *)
LEMMA TrackRevoke ==
    ASSUME TypeOK, ControlInv, ModeInv, TrackInv, NEW s \in Sid, Quiet(s), Revoke(s),
           ~Lossy'
    PROVE  TrackInv'
  <1> USE SessionAssumption
      DEF config, redis, setKey, activeKey, revokeVars, allVars, history, losses
  <1>0. (register[s] = "in" \/ revoke[s] = "idle") /\ (register[s] = "in" => revokeAll[s] = "idle")
    BY DEF ControlInv
  <1>1. CASE RevokeStart(s)
    BY <1>0, <1>1 DEF RevokeStart, TypeOK, TrackInv, Keyed, Held, Granted, Caller
  <1>2. ASSUME NEW r \in Reply, RevokeDel(s, r) PROVE TrackInv'
    <2>1. r # "refused"
      BY <1>2 DEF RevokeDel, Lossy
    <2>2. /\ sessTTL' = [t \in Sid |-> IF t = s THEN 0 ELSE sessTTL[t]]
          /\ revoke' = [revoke EXCEPT ![s] = IF multiDevice THEN "sRem" ELSE "getActive"]
          /\ UNCHANGED <<config, setKey, activeKey, register, allVars>>
      BY <1>2, <2>1 DEF RevokeDel, Executed, DelSession
    <2>3. Keyed' = Keyed \ {s}
      BY <2>2 DEF Keyed, Granted, TypeOK
    <2>4. \A t \in Keyed' : Held(t)'
      BY <2>2, <2>3 DEF Held, TypeOK, TrackInv, Keyed, Granted
    <2>. QED BY <1>0, <1>2, <2>2, <2>3, <2>4 DEF RevokeDel, TypeOK, Quiet, TrackInv, Caller
  <1>3. ASSUME NEW r \in Reply, RevokeSRem(s, r) PROVE TrackInv'
    <2>1. multiDevice /\ s \notin Keyed
      BY <1>3 DEF RevokeSRem, ControlInv, TrackInv
    <2>2. /\ \/ members' = members /\ setTTL' = setTTL
             \/ members' = members \ {s} /\ setTTL' \in {0, setTTL}
          /\ revoke' = [revoke EXCEPT ![s] = "idle"]
          /\ UNCHANGED <<config, sessTTL, activeKey, register, allVars>>
      BY <1>3 DEF RevokeSRem, Executed, SetMembers, RevokeReturn
    <2>3. Keyed' = Keyed
      BY <2>2 DEF Keyed, Granted
    <2>4. \A t \in Keyed' : Held(t)'
      BY <2>1, <2>2, <2>3 DEF Held, TrackInv
    <2>. QED BY <1>0, <1>3, <2>1, <2>2, <2>3, <2>4 DEF RevokeSRem, TypeOK, Quiet, TrackInv, Caller
  <1>4. ASSUME NEW r \in Reply, RevokeGetActive(s, r) PROVE TrackInv'
    <2>1. ~multiDevice /\ s \notin Keyed
      BY <1>4 DEF RevokeGetActive, ControlInv, TrackInv
    <2>2. /\ \/ revoke' = [revoke EXCEPT ![s] = "idle"]
             \/ revoke' = [revoke EXCEPT ![s] = "delActive"] /\ active = s
          /\ UNCHANGED <<config, redis, register, allVars>>
      BY <1>4 DEF RevokeGetActive, RevokeReturn
    <2>3. Keyed' = Keyed
      BY <2>2 DEF Keyed, Granted
    <2>4. \A t \in Keyed' : Held(t)'
      BY <2>2, <2>3 DEF Held, TrackInv
    <2>5. active = s => Keyed = {}
      BY <2>1 DEF TrackInv, Held
    <2>. QED BY <1>0, <1>4, <2>1, <2>2, <2>3, <2>4, <2>5 DEF RevokeGetActive, TypeOK, Quiet, TrackInv, Caller
  <1>5. ASSUME NEW r \in Reply, RevokeDelActive(s, r) PROVE TrackInv'
    <2>1. Keyed = {}
      BY <1>5 DEF RevokeDelActive, TrackInv
    <2>2. /\ revoke' = [revoke EXCEPT ![s] = "idle"]
          /\ UNCHANGED <<config, sessTTL, setKey, register, allVars>>
      BY <1>5 DEF RevokeDelActive, RevokeReturn
    <2>3. Keyed' = {}
      BY <2>1, <2>2 DEF Keyed, Granted
    <2>. QED BY <1>0, <1>5, <2>2, <2>3 DEF RevokeDelActive, TypeOK, Quiet, TrackInv, Caller
  <1>. QED BY <1>1, <1>2, <1>3, <1>4, <1>5 DEF Revoke

(* A RevokeAll in flight, of an administrator's call or of a login.         *)
LEMMA TrackRevokeAll ==
    ASSUME TypeOK, ControlInv, ModeInv, TrackInv, NEW c \in Caller, Quiet(c), RevokeAll(c),
           ~Lossy'
    PROVE  TrackInv'
  <1> USE SessionAssumption
      DEF config, redis, setKey, activeKey, revokeVars, allVars, history, losses
  <1>0. /\ \A s \in Sid : revoke[s] = "idle" \/ register[s] = "in"
        /\ \A s \in Sid : revokeAll[s] = "idle" \/ register[s] = "revokeAll"
        /\ \A s \in Sid : s # c => register[s] \in {"idle", "in", "failed"} /\ revoke[s] = "idle"
        /\ \A d \in Caller : d # c => revokeAll[d] = "idle"
    BY DEF ControlInv, Quiet, Caller
  <1>1. CASE RevokeAllStart(c)
    BY <1>0, <1>1 DEF RevokeAllStart, AllAt, TypeOK, TrackInv, Keyed, Held, Granted, Caller
  <1>2. ASSUME NEW S, NEW err, AllReturn(c, err, S), revokeAll[c] # "idle",
               UNCHANGED <<config, revokeVars>>,
               Keyed' \subseteq Keyed, \A t \in Keyed' : Held(t)',
               ~err /\ ~multiDevice => Keyed' = {}
        PROVE  TrackInv'
    <2>1. /\ register' \in [Sid -> {"idle", "revokeAll", "setSession", "sAdd", "expire",
                                    "setActive", "in", "failed"}]
          /\ \A s \in Sid : s # c => register'[s] = register[s]
          /\ c \in Sid => register'[c] = "failed" \/ (register'[c] = "setSession" /\ ~err)
      BY <1>2 DEF AllReturn, TypeOK
    <2>2. \A d \in Caller : revokeAll'[d] = "idle"
      BY <1>0, <1>2 DEF AllReturn, AllAt, TypeOK
    <2>3. \A s \in Sid : revoke'[s] \in {"sRem", "getActive", "delActive"} => s # c /\ FALSE
      BY <1>0, <1>2
    <2>. QED BY <1>0, <1>2, <2>1, <2>2, <2>3 DEF TrackInv
  <1>3. ASSUME NEW r \in Reply, AllSMembers(c, r) PROVE TrackInv'
    <2>1. CASE r = "ok"
      <3>1. /\ ids' = [ids EXCEPT ![c] = members] /\ todo' = [todo EXCEPT ![c] = members]
            /\ revokeAll' = [revokeAll EXCEPT ![c] = IF members = {} THEN "delSet" ELSE "delSession"]
            /\ UNCHANGED <<config, redis, register, revokeVars>>
        BY <1>3, <2>1 DEF AllSMembers, AllAt
      <3>2. Keyed' = Keyed
        BY <3>1 DEF Keyed, Granted
      <3>3. Keyed \subseteq members
        BY <1>3 DEF AllSMembers, ControlInv, TrackInv, Held
      <3>4. \A t \in Keyed' : Held(t)'
        BY <3>1, <3>2 DEF Held, TrackInv
      <3>. QED BY <1>0, <3>1, <3>2, <3>3, <3>4 DEF TypeOK, TrackInv, Caller
    <2>2. CASE r # "ok"
      <3>1. AllReturn(c, TRUE, {}) /\ UNCHANGED <<config, redis, revokeVars>>
        BY <1>3, <2>2 DEF AllSMembers
      <3>2. Keyed' \subseteq Keyed /\ \A t \in Keyed' : Held(t)'
        BY <3>1 DEF AllReturn, Keyed, Granted, Held, TrackInv, TypeOK
      <3>. QED BY <1>2, <1>3, <3>1, <3>2 DEF AllSMembers
    <2>. QED BY <2>1, <2>2
  <1>4. ASSUME NEW s \in Sid, NEW r \in Reply, AllDelSession(c, s, r) PROVE TrackInv'
    <2>1. r # "refused"
      BY <1>4 DEF AllDelSession, Lossy
    <2>2. /\ sessTTL' = [t \in Sid |-> IF t = s THEN 0 ELSE sessTTL[t]]
          /\ todo' = [todo EXCEPT ![c] = @ \ {s}]
          /\ revokeAll' = [revokeAll EXCEPT ![c] = IF todo[c] = {s} THEN "delSet" ELSE "delSession"]
          /\ UNCHANGED <<config, setKey, activeKey, register, revokeVars, ids>>
      BY <1>4, <2>1 DEF AllDelSession, Executed, DelSession, AllAt
    <2>3. Keyed' = Keyed \ {s}
      BY <2>2 DEF Keyed, Granted, TypeOK
    <2>4. \A t \in Keyed' : Held(t)'
      BY <2>2, <2>3 DEF Held, TypeOK, TrackInv, Keyed, Granted
    <2>5. Keyed \subseteq todo[c]
      BY <1>4 DEF AllDelSession, TrackInv
    <2>. QED BY <1>0, <2>2, <2>3, <2>4, <2>5 DEF TypeOK, TrackInv, Caller
  <1>5. ASSUME NEW r \in Reply, AllDelSet(c, r) PROVE TrackInv'
    <2>1. Keyed = {} /\ revokeAll[c] # "idle"
      BY <1>5 DEF AllDelSet, TrackInv
    <2>2. AllReturn(c, allErr[c] \/ r # "ok", ids[c]) /\ UNCHANGED <<config, sessTTL, activeKey, revokeVars>>
      BY <1>5 DEF AllDelSet
    <2>3. Keyed' = {}
      BY <2>1, <2>2 DEF AllReturn, Keyed, Granted, TypeOK
    <2>. QED BY <1>2, <2>1, <2>2, <2>3
  <1>6. ASSUME NEW r \in Reply, AllGetActive(c, r) PROVE TrackInv'
    <2>1. r = "ok" /\ ~multiDevice
      BY <1>6 DEF AllGetActive, Lossy, ControlInv
    <2>2. Keyed \subseteq {active}
      BY <2>1 DEF TrackInv, Held
    <2>3. CASE active # NoSid
      <3>1. /\ ids' = [ids EXCEPT ![c] = {active}]
            /\ revokeAll' = [revokeAll EXCEPT ![c] = "delActive"]
            /\ UNCHANGED <<config, redis, register, revokeVars, todo>>
        BY <1>6, <2>1, <2>3 DEF AllGetActive, AllAt
      <3>2. Keyed' = Keyed
        BY <3>1 DEF Keyed, Granted
      <3>3. \A t \in Keyed' : Held(t)'
        BY <3>1, <3>2 DEF Held, TrackInv
      <3>. QED BY <1>0, <2>2, <3>1, <3>2, <3>3 DEF TypeOK, TrackInv, Caller
    <2>4. CASE active = NoSid
      <3>1. AllReturn(c, FALSE, {}) /\ UNCHANGED <<config, redis, revokeVars>>
        BY <1>6, <2>4 DEF AllGetActive
      <3>2. Keyed = {}
        BY <2>2, <2>4 DEF Keyed, Granted
      <3>3. Keyed' = {}
        BY <3>1, <3>2 DEF AllReturn, Keyed, Granted, TypeOK
      <3>. QED BY <1>2, <1>6, <3>1, <3>3 DEF AllGetActive
    <2>. QED BY <2>3, <2>4
  <1>7. ASSUME NEW r \in Reply, AllDelActive(c, r) PROVE TrackInv'
    <2>1. ~multiDevice /\ Keyed \subseteq ids[c] /\ revokeAll[c] # "idle"
      BY <1>7 DEF AllDelActive, ControlInv, TrackInv
    <2>2. AllReturn(c, r # "ok", ids[c]) /\ UNCHANGED <<config, setKey, revokeVars>>
      BY <1>7 DEF AllDelActive
    <2>3. CASE r = "refused"
      <3>1. UNCHANGED <<sessTTL, activeKey>>
        BY <1>7, <2>3 DEF AllDelActive, Executed
      <3>2. Keyed' \subseteq Keyed /\ \A t \in Keyed' : Held(t)'
        BY <2>2, <3>1 DEF AllReturn, Keyed, Granted, Held, TrackInv, TypeOK
      <3>. QED BY <1>2, <2>1, <2>2, <2>3, <3>2
    <2>4. CASE r # "refused"
      <3>1. sessTTL' = [s \in Sid |-> IF s \in ids[c] THEN 0 ELSE sessTTL[s]]
        BY <1>7, <2>4 DEF AllDelActive, Executed, DelSession
      <3>2. Keyed' = {}
        BY <2>1, <2>2, <3>1 DEF AllReturn, Keyed, Granted, TypeOK
      <3>. QED BY <1>2, <2>1, <2>2, <3>2
    <2>. QED BY <2>3, <2>4
  <1>. QED BY <1>1, <1>3, <1>4, <1>5, <1>6, <1>7 DEF RevokeAll

(* A command sent again, a handler that disappears, and time.               *)
LEMMA TrackResend ==
    ASSUME TypeOK, ControlInv, ModeInv, TrackInv, Resend, Alone
    PROVE  TrackInv'
  <1> USE SessionAssumption
      DEF config, redis, setKey, activeKey, revokeVars, allVars, history, losses
  <1>1. ASSUME NEW s \in Sid, ResendRegister(s) PROVE TrackInv'
    <2>1. Quiet(s) /\ register[s] # "in"
      BY <1>1, ActingAlone DEF ResendRegister, Acting, Registering, Caller
    <2>2. UNCHANGED <<config, register, revokeVars, allVars>>
      BY <1>1 DEF ResendRegister
    <2>3. Keyed' = Keyed
      BY <1>1, <2>1, <2>2 DEF ResendRegister, Keyed, Granted, TypeOK
    <2>4. \A t \in Keyed' : Held(t)'
      BY <1>1, <2>2, <2>3 DEF ResendRegister, SetMembers, SetActive, Held, TrackInv, ModeInv,
         TypeOK, Keyed, Granted
    <2>5. members \subseteq members'
      BY <1>1 DEF ResendRegister, SetMembers
    <2>. QED BY <2>2, <2>3, <2>4, <2>5 DEF TrackInv
  <1>2. ASSUME NEW s \in Sid, ResendRevoke(s) PROVE TrackInv'
    <2>1. Quiet(s)
      BY <1>2, ActingAlone DEF ResendRevoke, Acting, Caller
    <2>2. UNCHANGED <<config, register, revokeVars, allVars>> /\ register[s] = "in"
      BY <1>2 DEF ResendRevoke, ControlInv
    <2>3. Keyed' \subseteq Keyed
      BY <1>2, <2>2 DEF ResendRevoke, DelSession, Keyed, Granted, TypeOK
    <2>4. \A t \in Keyed' : Held(t)'
      BY <1>2, <2>2, <2>3 DEF ResendRevoke, DelSession, SetMembers, SetActive, Held, TrackInv,
         ControlInv, TypeOK, Keyed, Granted
    <2>. QED BY <2>1, <2>2, <2>3, <2>4 DEF TrackInv, Quiet, Caller
  <1>3. ASSUME NEW c \in Caller, ResendRevokeAll(c) PROVE TrackInv'
    <2>1. Quiet(c) /\ (c \in Sid => register[c] = "revokeAll")
      BY <1>3, ActingAlone DEF ResendRevokeAll, Acting, Registering, ControlInv, Caller
    <2>2. UNCHANGED <<config, register, revokeVars, allVars>>
      BY <1>3 DEF ResendRevokeAll
    <2>3. Keyed' \subseteq Keyed
      BY <1>3, <2>2 DEF ResendRevokeAll, DelSession, Keyed, Granted, TypeOK
    <2>4. \A t \in Keyed' : Held(t)'
      BY <1>3, <2>2, <2>3 DEF ResendRevokeAll, DelSession, SetMembers, SetActive, Held, TrackInv,
         ControlInv, TypeOK, Keyed, Granted
    <2>. QED BY <2>1, <2>2, <2>3, <2>4 DEF TrackInv, Quiet, Caller
  <1>. QED BY <1>1, <1>2, <1>3 DEF Resend

LEMMA TrackAbandon ==
    ASSUME TypeOK, ControlInv, ModeInv, TrackInv, Abandon, Alone
    PROVE  TrackInv'
  <1> USE SessionAssumption
      DEF config, redis, setKey, activeKey, revokeVars, allVars, history, losses
  <1>1. ASSUME NEW s \in Sid, AbandonRegister(s) PROVE TrackInv'
    <2>1. Quiet(s) /\ revoke[s] = "idle"
      BY <1>1, ActingAlone DEF AbandonRegister, Acting, Registering, ControlInv, Caller
    <2>2. /\ register' = [register EXCEPT ![s] = "failed"]
          /\ revokeAll' = [revokeAll EXCEPT ![s] = "idle"]
          /\ register[s] # "in"
          /\ UNCHANGED <<config, redis, revokeVars>>
      BY <1>1 DEF AbandonRegister, RegisterAt, AllAt
    <2>3. Keyed' = Keyed
      BY <2>2 DEF Keyed, Granted, TypeOK
    <2>4. \A t \in Keyed' : Held(t)'
      BY <2>2, <2>3 DEF Held, TrackInv
    <2>5. \A d \in Caller : revokeAll'[d] = "idle"
      BY <2>1, <2>2 DEF Quiet, TypeOK
    <2>6. \A t \in Sid : register'[t] \in {"idle", "in", "failed"} /\ revoke'[t] = "idle"
      BY <2>1, <2>2 DEF Quiet, TypeOK, Caller
    <2>. QED BY <2>4, <2>5, <2>6 DEF TrackInv
  <1>2. ASSUME NEW s \in Sid, AbandonRevoke(s) PROVE TrackInv'
    <2>1. Quiet(s) /\ register[s] = "in" /\ revokeAll[s] = "idle"
      BY <1>2, ActingAlone DEF AbandonRevoke, Acting, ControlInv, Caller
    <2>2. /\ revoke' = [revoke EXCEPT ![s] = "idle"]
          /\ UNCHANGED <<config, redis, register, allVars>>
      BY <1>2 DEF AbandonRevoke, RevokeReturn
    <2>3. Keyed' = Keyed
      BY <2>2 DEF Keyed, Granted
    <2>4. \A t \in Keyed' : Held(t)'
      BY <2>2, <2>3 DEF Held, TrackInv
    <2>. QED BY <2>1, <2>2, <2>4 DEF TrackInv, Quiet, TypeOK, Caller
  <1>3. ASSUME NEW c \in Admin, AbandonRevokeAll(c) PROVE TrackInv'
    <2>1. Quiet(c) /\ c \notin Sid
      BY <1>3, ActingAlone DEF AbandonRevokeAll, Acting, Caller
    <2>2. /\ revokeAll' = [revokeAll EXCEPT ![c] = "idle"]
          /\ UNCHANGED <<config, redis, register, revokeVars>>
      BY <1>3, <2>1 DEF AbandonRevokeAll, AllReturn, AllAt
    <2>3. Keyed' = Keyed
      BY <2>2 DEF Keyed, Granted
    <2>4. \A t \in Keyed' : Held(t)'
      BY <2>2, <2>3 DEF Held, TrackInv
    <2>. QED BY <2>1, <2>2, <2>4 DEF TrackInv, Quiet, TypeOK, Caller
  <1>. QED BY <1>1, <1>2, <1>3 DEF Abandon

LEMMA TrackTick ==
    ASSUME TypeOK, ControlInv, TrackInv, Tick, \A a \in Caller : ~Acting(a)
    PROVE  TrackInv'
  <1> USE SessionAssumption
      DEF config, redis, setKey, activeKey, revokeVars, allVars, history, losses
  <1>1. /\ \A s \in Sid : register[s] \in {"idle", "in", "failed"} /\ revoke[s] = "idle"
        /\ \A c \in Caller : revokeAll[c] = "idle"
    BY DEF Acting, Registering, ControlInv, Caller
  <1>2. UNCHANGED <<multiDevice, register, revoke, revokeAll>>
    BY DEF Tick
  <1>3. \A t \in Keyed' : t \in Keyed /\ sessTTL[t] > 1 /\ sessTTL'[t] = sessTTL[t] - 1
    BY <1>2 DEF Tick, Less, Keyed, Granted, TypeOK
  <1>4. \A t \in Keyed' : Held(t)'
    BY <1>2, <1>3 DEF Tick, Less, Held, TrackInv, Keyed, Granted, TypeOK
  <1>. QED BY <1>1, <1>2, <1>4 DEF TrackInv

(* A call that starts alone is alone.                                       *)
LEMMA StartsAlone ==
    ASSUME TypeOK', ControlInv', Alone', NEW a \in Caller, Acting(a)'
    PROVE  Quiet(a)'
  BY DEF TypeOK, ControlInv, Alone, Quiet, Acting, Registering, Caller

LEMMA QuietRegister ==
    ASSUME IInv, IInv', Alone, Alone', NEW s \in Sid, Register(s)
    PROVE  Quiet(s)
  <1>1. CASE RegisterStart(s)
    <2>1. /\ register'[s] \in {"setSession", "revokeAll"}
          /\ \A t \in Sid : t # s => register'[t] = register[t]
          /\ \A c \in Caller : c # s => revokeAll'[c] = revokeAll[c]
          /\ revoke' = revoke
      BY <1>1 DEF RegisterStart, RegisterAt, revokeVars, IInv, TypeOK, Caller
    <2>2. Quiet(s)'
      BY <2>1, StartsAlone DEF Acting, Registering, IInv, Caller
    <2>. QED BY <2>1, <2>2 DEF Quiet, Caller
  <1>2. CASE ~RegisterStart(s)
    <2>1. register[s] \in {"setSession", "sAdd", "expire", "setActive"}
      BY <1>2 DEF Register, RegisterSet, RegisterSAdd, RegisterExpire, RegisterActive
    <2>. QED BY <2>1, ActingAlone DEF Acting, Registering, IInv, Caller
  <1>. QED BY <1>1, <1>2

LEMMA QuietRevoke ==
    ASSUME IInv, IInv', Alone, Alone', NEW s \in Sid, Revoke(s)
    PROVE  Quiet(s)
  <1>1. CASE RevokeStart(s)
    <2>1. /\ revoke'[s] = "delSession"
          /\ \A t \in Sid : t # s => revoke'[t] = revoke[t]
          /\ revokeAll' = revokeAll /\ register' = register
      BY <1>1 DEF RevokeStart, allVars, IInv, TypeOK
    <2>2. Quiet(s)'
      BY <2>1, StartsAlone DEF Acting, IInv, Caller
    <2>. QED BY <2>1, <2>2 DEF Quiet, Caller
  <1>2. CASE ~RevokeStart(s)
    <2>1. revoke[s] # "idle"
      BY <1>2 DEF Revoke, RevokeDel, RevokeSRem, RevokeGetActive, RevokeDelActive
    <2>. QED BY <2>1, ActingAlone DEF Acting, IInv, Caller
  <1>. QED BY <1>1, <1>2

LEMMA LossyStays ==
    ASSUME TypeOK, Write \/ Validate \/ Tick PROVE Lossy => Lossy'
  <1> USE DEF history, losses, Lossy, TypeOK
  <1>1. ASSUME NEW s \in Sid, Register(s) PROVE Lossy => Lossy'
    BY <1>1 DEF Register, RegisterStart, RegisterSet, RegisterSAdd, RegisterExpire,
       RegisterActive
  <1>2. ASSUME NEW s \in Sid, Revoke(s) PROVE Lossy => Lossy'
    BY <1>2 DEF Revoke, RevokeStart, RevokeDel, RevokeSRem, RevokeGetActive, RevokeDelActive
  <1>3. ASSUME NEW c \in Caller, RevokeAll(c) PROVE Lossy => Lossy'
    BY <1>3 DEF RevokeAll, RevokeAllStart, AllSMembers, AllDelSession, AllDelSet,
       AllGetActive, AllDelActive
  <1>4. ASSUME Validate PROVE Lossy => Lossy'
    BY <1>4 DEF Validate, ValidateStart, ValidateTracked, ValidateFallback, ValidateEnd
  <1>5. ASSUME Abandon PROVE Lossy => Lossy'
    BY <1>5 DEF Abandon, AbandonRegister, AbandonRevoke, AbandonRevokeAll
  <1>6. ASSUME Resend PROVE Lossy => Lossy'
    BY <1>6 DEF Resend, ResendRegister, ResendRevoke, ResendRevokeAll
  <1>7. ASSUME Tick PROVE Lossy => Lossy'
    BY <1>7 DEF Tick
  <1>. QED BY <1>1, <1>2, <1>3, <1>4, <1>5, <1>6, <1>7 DEF Write

LEMMA CountedAloneNext == (TypeOK /\ InFlight <= 1 => Alone)'
  BY CountedAlone, PTL

LEMMA CountIsNat == InFlight \in Nat
  <1>1. /\ IsFiniteSet(Registering)
        /\ IsFiniteSet({s \in Sid : revoke[s] # "idle"})
        /\ IsFiniteSet({c \in Admin : revokeAll[c] # "idle"})
    BY FiniteCallers, FS_Subset DEF Registering
  <1>2. /\ Cardinality(Registering) \in Nat
        /\ Cardinality({s \in Sid : revoke[s] # "idle"}) \in Nat
        /\ Cardinality({c \in Admin : revokeAll[c] # "idle"}) \in Nat
    BY <1>1, AtMostOne
  <1>. QED BY <1>2 DEF InFlight

-------------------------------------------------------------------------------
(***************************************************************************)
(* Multi device mode: logins and logouts overlap, RevokeAll is apart.      *)
(***************************************************************************)
AllAlone == \A a, b \in Caller : revokeAll[a] # "idle" /\ Acting(b) => a = b

(* What is left of TrackInv then.                                           *)
Overlap ==
    /\ \A s \in Keyed : s \in members /\ (setTTL = 0 \/ setTTL >= sessTTL[s])
    /\ \A s \in Sid : /\ register[s] = "expire" => s \in members
                      /\ revoke[s] = "sRem" => s \notin Keyed

LEMMA OverlapTracks ==
    ASSUME ControlInv, multiDevice, NoAll
    PROVE  TrackInv <=> Overlap
  <1>1. \A s \in Sid : revoke[s] \notin {"getActive", "delActive"}
    BY DEF ControlInv
  <1>2. \A s \in Keyed : Held(s) <=> s \in members /\ (setTTL = 0 \/ setTTL >= sessTTL[s])
    BY DEF Held
  <1>. QED BY <1>1, <1>2 DEF TrackInv, Overlap, NoAll

LEMMA OverlapTracksNext ==
    (ControlInv /\ multiDevice /\ NoAll => (TrackInv <=> Overlap))'
  <1>1. ControlInv /\ multiDevice /\ NoAll => (TrackInv <=> Overlap)
    BY OverlapTracks
  <1>. QED BY <1>1, PTL

LEMMA AllIsAlone == AllAlone /\ ~NoAll /\ TypeOK /\ ControlInv => Alone
  BY DEF AllAlone, NoAll, Alone

LEMMA QuietAll ==
    ASSUME IInv, IInv', AllAlone, AllAlone', NEW c \in Caller, RevokeAll(c)
    PROVE  Quiet(c)
  <1>1. CASE RevokeAllStart(c)
    <2>1. /\ revokeAll'[c] # "idle" /\ c \notin Sid
          /\ \A d \in Caller : d # c => revokeAll'[d] = revokeAll[d]
          /\ revoke' = revoke /\ register' = register
      BY <1>1, SessionAssumption DEF RevokeAllStart, AllAt, revokeVars, IInv, TypeOK
    <2>2. Quiet(c)'
      BY <2>1 DEF IInv, TypeOK, ControlInv, AllAlone, Quiet, Acting, Registering, Caller
    <2>. QED BY <2>1, <2>2 DEF Quiet, Caller
  <1>2. CASE ~RevokeAllStart(c)
    <2>1. revokeAll[c] # "idle"
      BY <1>2 DEF RevokeAll, AllSMembers, AllDelSession, AllDelSet, AllGetActive, AllDelActive
    <2>. QED BY <2>1 DEF IInv, TypeOK, ControlInv, AllAlone, Quiet, Acting, Registering, Caller
  <1>. QED BY <1>1, <1>2

(* No RevokeAll is there when somebody logs in or out.                      *)
LEMMA ApartRegister ==
    ASSUME IInv, IInv', AllAlone, AllAlone', multiDevice, NEW s \in Sid, Register(s)
    PROVE  NoAll /\ revokeAll' = revokeAll
  <1>1. revokeAll' = revokeAll
    BY DEF Register, RegisterStart, RegisterSet, RegisterSAdd, RegisterExpire, RegisterActive,
       allVars
  <1>2. register[s] # "revokeAll"
    BY DEF Register, RegisterStart, RegisterSet, RegisterSAdd, RegisterExpire, RegisterActive
  <1>3. Acting(s) \/ Acting(s)'
    <2>1. CASE RegisterStart(s)
      BY <2>1 DEF RegisterStart, RegisterAt, Acting, Registering, IInv, TypeOK
    <2>2. CASE ~RegisterStart(s)
      BY <2>2 DEF Register, RegisterSet, RegisterSAdd, RegisterExpire, RegisterActive, Acting,
         Registering
    <2>. QED BY <2>1, <2>2
  <1>. QED BY <1>1, <1>2, <1>3 DEF AllAlone, NoAll, IInv, ControlInv, Caller

LEMMA ApartRevoke ==
    ASSUME IInv, IInv', AllAlone, AllAlone', NEW s \in Sid, Revoke(s)
    PROVE  NoAll /\ revokeAll' = revokeAll
  <1>1. revokeAll' = revokeAll
    BY DEF Revoke, RevokeStart, RevokeDel, RevokeSRem, RevokeGetActive, RevokeDelActive, allVars
  <1>2. revoke[s] # "idle" \/ revoke'[s] # "idle"
    BY DEF Revoke, RevokeStart, RevokeDel, RevokeSRem, RevokeGetActive, RevokeDelActive, IInv,
       TypeOK
  <1>3. (Acting(s) /\ register[s] = "in") \/ (Acting(s)' /\ register'[s] = "in")
    BY <1>2 DEF Acting, IInv, ControlInv
  <1>. QED BY <1>1, <1>3 DEF AllAlone, NoAll, IInv, ControlInv, Caller

LEMMA OverlapRegister ==
    ASSUME TypeOK, ControlInv, ModeInv, Overlap, multiDevice, NEW s \in Sid, Register(s)
    PROVE  Overlap'
  <1> USE SessionAssumption
      DEF config, redis, setKey, activeKey, revokeVars, allVars, history, losses
  <1>0. revoke[s] = "idle" \/ register[s] = "in"
    BY DEF ControlInv
  <1>1. CASE RegisterStart(s)
    BY <1>1 DEF RegisterStart, RegisterAt, TypeOK, Overlap, Keyed, Granted
  <1>2. ASSUME NEW r \in Reply, RegisterSet(s, r) PROVE Overlap'
    BY <1>0, <1>2 DEF RegisterSet, RegisterAt, TypeOK, Overlap, Keyed, Granted
  <1>3. ASSUME NEW r \in Reply, RegisterSAdd(s, r) PROVE Overlap'
    BY <1>0, <1>3 DEF RegisterSAdd, RegisterAt, SetMembers, Executed, TypeOK, Overlap, Keyed,
       Granted
  <1>4. ASSUME NEW r \in Reply, RegisterExpire(s, r) PROVE Overlap'
    <2>1. s \in members /\ revoke[s] = "idle"
      BY <1>0, <1>4 DEF RegisterExpire, Overlap
    <2>2. /\ setTTL' \in {setTTL, SessionTTL} /\ (r = "ok" => setTTL' = SessionTTL)
          /\ register' = [register EXCEPT ![s] = IF r = "ok" THEN "in" ELSE "failed"]
          /\ UNCHANGED <<config, sessTTL, members, activeKey, revokeVars, allVars>>
      BY <1>4, <2>1 DEF RegisterExpire, RegisterAt, Executed
    <2>3. Keyed' \subseteq Keyed \cup {s} /\ (r # "ok" => Keyed' = Keyed)
      BY <1>4, <2>2 DEF RegisterExpire, Keyed, Granted, TypeOK
    <2>4. \A t \in Keyed' : t \in members' /\ (setTTL' = 0 \/ setTTL' >= sessTTL'[t])
      <3> SUFFICES ASSUME NEW t \in Keyed'
                   PROVE  t \in members /\ (setTTL' = 0 \/ setTTL' >= sessTTL[t])
        BY <2>2
      <3>1. t \in Sid /\ t \in members
        BY <2>1, <2>3 DEF Overlap, Keyed, Granted
      <3>2. CASE setTTL' = SessionTTL
        BY <3>1, <3>2 DEF TypeOK
      <3>3. CASE setTTL' = setTTL /\ r # "ok"
        BY <3>1, <3>3, <2>3 DEF Overlap
      <3>. QED BY <2>2, <3>1, <3>2, <3>3
    <2>. QED BY <2>1, <2>2, <2>3, <2>4 DEF TypeOK, Overlap
  <1>5. ASSUME NEW r \in Reply, RegisterActive(s, r) PROVE Overlap'
    BY <1>5 DEF RegisterActive, ModeInv
  <1>. QED BY <1>1, <1>2, <1>3, <1>4, <1>5 DEF Register

LEMMA OverlapRevoke ==
    ASSUME TypeOK, ControlInv, Overlap, multiDevice, NEW s \in Sid, Revoke(s), ~Lossy'
    PROVE  Overlap'
  <1> USE SessionAssumption
      DEF config, redis, setKey, activeKey, revokeVars, allVars, history, losses
  <1>0. revoke[s] = "idle" \/ register[s] = "in"
    BY DEF ControlInv
  <1>1. CASE RevokeStart(s)
    BY <1>1 DEF RevokeStart, TypeOK, Overlap, Keyed, Granted
  <1>2. ASSUME NEW r \in Reply, RevokeDel(s, r) PROVE Overlap'
    <2>1. r # "refused"
      BY <1>2 DEF RevokeDel, Lossy
    <2>2. /\ sessTTL' = [t \in Sid |-> IF t = s THEN 0 ELSE sessTTL[t]]
          /\ revoke' = [revoke EXCEPT ![s] = IF multiDevice THEN "sRem" ELSE "getActive"]
          /\ UNCHANGED <<config, setKey, activeKey, register, allVars>>
      BY <1>2, <2>1 DEF RevokeDel, Executed, DelSession
    <2>3. Keyed' = Keyed \ {s} /\ \A t \in Keyed' : sessTTL'[t] = sessTTL[t]
      BY <2>2 DEF Keyed, Granted, TypeOK
    <2>. QED BY <2>2, <2>3 DEF TypeOK, Overlap
  <1>3. ASSUME NEW r \in Reply, RevokeSRem(s, r) PROVE Overlap'
    <2>1. s \notin Keyed /\ register[s] # "expire"
      BY <1>0, <1>3 DEF RevokeSRem, Overlap
    <2>2. /\ \/ members' = members /\ setTTL' = setTTL
             \/ members' = members \ {s} /\ setTTL' \in {0, setTTL}
          /\ revoke' = [revoke EXCEPT ![s] = "idle"]
          /\ UNCHANGED <<config, sessTTL, activeKey, register, allVars>>
      BY <1>3 DEF RevokeSRem, Executed, SetMembers, RevokeReturn
    <2>3. Keyed' = Keyed
      BY <2>2 DEF Keyed, Granted
    <2>. QED BY <2>1, <2>2, <2>3 DEF TypeOK, Overlap
  <1>4. ASSUME NEW r \in Reply, RevokeGetActive(s, r) \/ RevokeDelActive(s, r) PROVE Overlap'
    BY <1>4 DEF RevokeGetActive, RevokeDelActive, ControlInv
  <1>. QED BY <1>1, <1>2, <1>3, <1>4 DEF Revoke

(* A command sent again, or a handler that disappears, among overlapping    *)
(* calls.                                                                   *)
LEMMA OverlapFails ==
    ASSUME TypeOK, ControlInv, ModeInv, Overlap, multiDevice, NoAll, Resend \/ Abandon
    PROVE  Overlap' /\ revokeAll' = revokeAll
  <1> USE SessionAssumption
      DEF config, redis, setKey, activeKey, revokeVars, allVars, history, losses
  <1>1. ASSUME NEW s \in Sid, ResendRegister(s) PROVE Overlap' /\ revokeAll' = revokeAll
    <2>1. revoke[s] = "idle" /\ register[s] # "in" /\ register[s] # "setActive"
      BY <1>1 DEF ResendRegister, ControlInv, ModeInv
    <2>. QED BY <1>1, <2>1 DEF ResendRegister, SetMembers, TypeOK, Overlap, Keyed, Granted
  <1>2. ASSUME NEW s \in Sid, ResendRevoke(s) PROVE Overlap' /\ revokeAll' = revokeAll
    <2>1. revoke[s] # "delActive" /\ register[s] = "in"
      BY <1>2 DEF ResendRevoke, ControlInv
    <2>. QED BY <1>2, <2>1 DEF ResendRevoke, DelSession, SetMembers, TypeOK, Overlap, Keyed, Granted
  <1>3. \A c \in Caller : ~ResendRevokeAll(c)
    BY DEF ResendRevokeAll, NoAll
  <1>4. ASSUME NEW s \in Sid, AbandonRegister(s) PROVE Overlap' /\ revokeAll' = revokeAll
    <2>1. /\ register' = [register EXCEPT ![s] = "failed"] /\ register[s] # "in"
          /\ UNCHANGED <<config, redis, revokeVars>>
          /\ revokeAll' = [revokeAll EXCEPT ![s] = "idle"]
      BY <1>4 DEF AbandonRegister, RegisterAt, AllAt
    <2>2. revokeAll' = revokeAll
      BY <2>1 DEF NoAll, TypeOK, Caller
    <2>. QED BY <2>1, <2>2 DEF TypeOK, Overlap, Keyed, Granted
  <1>5. ASSUME NEW s \in Sid, AbandonRevoke(s) PROVE Overlap' /\ revokeAll' = revokeAll
    BY <1>5 DEF AbandonRevoke, RevokeReturn, TypeOK, Overlap, Keyed, Granted
  <1>6. \A c \in Admin : ~AbandonRevokeAll(c)
    BY DEF AbandonRevokeAll, NoAll, Caller
  <1>. QED BY <1>1, <1>2, <1>3, <1>4, <1>5, <1>6 DEF Resend, Abandon

(* No call changes the configuration.                                       *)
LEMMA ModeFixed ==
    ASSUME Write \/ Validate \/ Tick
    PROVE  multiDevice' = multiDevice
  <1> USE DEF config
  <1>1. ASSUME NEW s \in Sid, Register(s) PROVE multiDevice' = multiDevice
    BY <1>1 DEF Register, RegisterStart, RegisterSet, RegisterSAdd, RegisterExpire,
       RegisterActive
  <1>2. ASSUME NEW s \in Sid, Revoke(s) PROVE multiDevice' = multiDevice
    BY <1>2 DEF Revoke, RevokeStart, RevokeDel, RevokeSRem, RevokeGetActive, RevokeDelActive
  <1>3. ASSUME NEW c \in Caller, RevokeAll(c) PROVE multiDevice' = multiDevice
    BY <1>3 DEF RevokeAll, RevokeAllStart, AllSMembers, AllDelSession, AllDelSet, AllGetActive,
       AllDelActive
  <1>4. CASE Abandon
    BY <1>4 DEF Abandon, AbandonRegister, AbandonRevoke, AbandonRevokeAll
  <1>5. CASE Resend
    BY <1>5 DEF Resend, ResendRegister, ResendRevoke, ResendRevokeAll
  <1>6. CASE Validate \/ Tick
    BY <1>6 DEF Validate, ValidateStart, ValidateTracked, ValidateFallback, ValidateEnd, Tick
  <1>. QED BY <1>1, <1>2, <1>3, <1>4, <1>5, <1>6 DEF Write

-------------------------------------------------------------------------------
(***************************************************************************)
(* Both modes together.                                                    *)
(***************************************************************************)
ApartInv ==
    /\ IInv /\ ModeInv
    /\ ~overlap => AllAlone /\ (multiDevice \/ Alone) /\ (~Lossy => TrackInv)

LEMMA AloneAll == TypeOK /\ ControlInv /\ Alone => AllAlone
  BY DEF Alone, AllAlone, Acting, Registering, TypeOK, ControlInv, Caller

LEMMA AloneAllNext == (TypeOK /\ ControlInv /\ Alone => AllAlone)'
  BY AloneAll, PTL

(* What a step that does not overlap is like.                               *)
LEMMA Apartness ==
    ASSUME Next, ~overlap', TypeOK, TypeOK', ControlInv'
    PROVE  /\ ~overlap /\ multiDevice' = multiDevice
           /\ Write \/ Validate \/ (InFlight = 0 /\ Tick)
           /\ Tick \/ (AllAlone' /\ (multiDevice \/ Alone'))
  <1>1. CASE (Write \/ Validate) /\ overlap' = (overlap \/ ~Apart')
    <2>1. ~overlap /\ Apart'
      BY <1>1
    <2>2. multiDevice' = multiDevice
      BY <1>1, ModeFixed
    <2>3. CASE InFlight' <= 1
      BY <1>1, <2>1, <2>2, <2>3, CountedAloneNext, AloneAllNext
    <2>4. CASE multiDevice' /\ NoAll'
      BY <1>1, <2>1, <2>2, <2>4 DEF NoAll, AllAlone
    <2>. QED BY <2>1, <2>3, <2>4 DEF Apart
  <1>2. CASE Tick /\ overlap' = (overlap \/ InFlight > 0)
    <2>1. ~overlap /\ ~(InFlight > 0)
      BY <1>2
    <2>2. InFlight \in Nat
      BY CountIsNat
    <2>. QED BY <1>2, <2>1, <2>2, ModeFixed
  <1>. QED BY <1>1, <1>2 DEF Next

(* Single device mode: the call in flight is the only one.                  *)
LEMMA ApartSingle ==
    ASSUME IInv, IInv', ModeInv, TrackInv, Alone, Alone', ~Lossy',
           Write \/ (InFlight = 0 /\ Tick)
    PROVE  TrackInv'
  <1>1. TypeOK /\ ControlInv /\ AllAlone /\ AllAlone'
    BY AloneAll, AloneAllNext DEF IInv
  <1>2. ASSUME NEW s \in Sid, Register(s) PROVE TrackInv'
    BY <1>1, <1>2, QuietRegister, TrackRegister
  <1>3. ASSUME NEW s \in Sid, Revoke(s) PROVE TrackInv'
    BY <1>1, <1>3, QuietRevoke, TrackRevoke
  <1>4. ASSUME NEW c \in Caller, RevokeAll(c) PROVE TrackInv'
    BY <1>1, <1>4, QuietAll, TrackRevokeAll
  <1>5. CASE Abandon
    BY <1>1, <1>5, TrackAbandon
  <1>6. CASE Resend
    BY <1>1, <1>6, TrackResend
  <1>7. CASE InFlight = 0 /\ Tick
    BY <1>1, <1>7, NobodyActs, TrackTick
  <1>. QED BY <1>2, <1>3, <1>4, <1>5, <1>6, <1>7 DEF Write

(* Multi device mode: only a RevokeAll is.                                  *)
LEMMA ApartMulti ==
    ASSUME IInv, IInv', ModeInv, TrackInv, AllAlone, AllAlone', multiDevice, multiDevice',
           ~Lossy', Write \/ (InFlight = 0 /\ Tick)
    PROVE  TrackInv'
  <1>1. TypeOK /\ ControlInv /\ ControlInv'
    BY DEF IInv
  <1>2. ASSUME NoAll, revokeAll' = revokeAll, Overlap => Overlap' PROVE TrackInv'
    <2>1. NoAll'
      BY <1>2 DEF NoAll
    <2>2. Overlap'
      BY <1>1, <1>2, OverlapTracks
    <2>. QED BY <1>1, <2>1, <2>2, OverlapTracksNext
  <1>3. ASSUME NEW s \in Sid, Register(s) PROVE TrackInv'
    <2>1. NoAll /\ revokeAll' = revokeAll
      BY <1>3, ApartRegister
    <2>. QED BY <1>1, <1>2, <1>3, <2>1, OverlapRegister
  <1>4. ASSUME NEW s \in Sid, Revoke(s) PROVE TrackInv'
    <2>1. NoAll /\ revokeAll' = revokeAll
      BY <1>4, ApartRevoke
    <2>. QED BY <1>1, <1>2, <1>4, <2>1, OverlapRevoke
  <1>5. ASSUME NEW c \in Caller, RevokeAll(c) PROVE TrackInv'
    BY <1>1, <1>5, QuietAll, TrackRevokeAll
  <1>6. CASE Abandon \/ Resend
    <2>1. CASE NoAll
      <3>1. Overlap
        BY <1>1, <2>1, OverlapTracks
      <3>. QED BY <1>1, <1>2, <1>6, <2>1, <3>1, OverlapFails
    <2>2. CASE ~NoAll
      BY <1>1, <1>6, <2>2, AllIsAlone, TrackAbandon, TrackResend
    <2>. QED BY <2>1, <2>2
  <1>7. CASE InFlight = 0 /\ Tick
    BY <1>1, <1>7, NobodyActs, TrackTick
  <1>. QED BY <1>3, <1>4, <1>5, <1>6, <1>7 DEF Write

(* A Validate and a tick start and end no call.                             *)
LEMMA Bystander ==
    ASSUME Validate \/ Tick
    PROVE  /\ UNCHANGED <<register, revoke, revokeAll>>
           /\ AllAlone => AllAlone'
           /\ Alone => Alone'
  <1>1. UNCHANGED <<register, revoke, revokeAll>>
    BY DEF Validate, ValidateStart, ValidateTracked, ValidateFallback, ValidateEnd, Tick,
       revokeVars, allVars
  <1>. QED BY <1>1 DEF AllAlone, Alone, Acting, Registering

LEMMA ApartStep == ApartInv /\ [Next]_vars => ApartInv'
  <1> SUFFICES ASSUME ApartInv, [Next]_vars PROVE ApartInv'
      OBVIOUS
  <1>1. IInv' /\ ModeInv' /\ IInv /\ TypeOK /\ TypeOK' /\ ControlInv'
    BY StepInv, ModeStep DEF ApartInv, IInv
  <1>2. CASE UNCHANGED vars
    <2>1. /\ (AllAlone => AllAlone') /\ Lossy' = Lossy /\ (Alone => Alone')
          /\ multiDevice' = multiDevice /\ overlap' = overlap /\ (TrackInv => TrackInv')
      BY <1>2 DEF vars, config, redis, revokeVars, allVars, history, losses, setKey,
         activeKey, AllAlone, Alone, Acting, Registering, Lossy, TrackInv, Keyed, Held, Granted
    <2>. QED BY <1>1, <2>1 DEF ApartInv
  <1>3. CASE Next
    <2> SUFFICES ASSUME ~overlap'
                 PROVE  AllAlone' /\ (multiDevice' \/ Alone') /\ (~Lossy' => TrackInv')
      BY <1>1 DEF ApartInv
    <2>1. /\ ~overlap /\ multiDevice' = multiDevice
          /\ Write \/ Validate \/ (InFlight = 0 /\ Tick)
          /\ Tick \/ (AllAlone' /\ (multiDevice \/ Alone'))
      BY <1>1, <1>3, Apartness
    <2>2. AllAlone /\ (multiDevice \/ Alone) /\ (~Lossy => TrackInv)
      BY <2>1 DEF ApartInv
    <2>3. AllAlone' /\ (multiDevice' \/ Alone')
      BY <2>1, <2>2, Bystander
    <2>4. ASSUME ~Lossy' PROVE TrackInv'
      <3>1. ModeInv /\ TrackInv
        BY <1>1, <2>1, <2>2, <2>4, LossyStays DEF ApartInv
      <3>2. CASE Validate
        <4>1. UNCHANGED <<config, redis, register, revokeVars, allVars>>
          BY <3>2 DEF Validate, ValidateStart, ValidateTracked, ValidateFallback, ValidateEnd
        <4>. QED
          BY <3>1, <4>1 DEF config, redis, revokeVars, allVars, TrackInv, Keyed, Held, Granted
      <3>3. CASE ~Validate /\ multiDevice
        BY <1>1, <2>1, <2>2, <2>3, <2>4, <3>1, <3>3, ApartMulti
      <3>4. CASE ~Validate /\ ~multiDevice
        BY <1>1, <2>1, <2>2, <2>3, <2>4, <3>1, <3>4, ApartSingle
      <3>. QED BY <3>2, <3>3, <3>4
    <2>. QED BY <2>3, <2>4
  <1>. QED BY <1>2, <1>3

LEMMA ApartInit == Init => ApartInv
  <1> SUFFICES ASSUME Init PROVE ApartInv
      OBVIOUS
  <1>1. IInv
    BY InitInv
  <1>. QED
    BY <1>1 DEF Init, ApartInv, Alone, AllAlone, Acting, Registering, ModeInv, TrackInv, Keyed,
       Held, Granted, Caller

(* The inductive invariant of the store, with what more is known until a    *)
(* call overlaps a RevokeAll.                                               *)
THEOREM ApartInvariance == Spec => []ApartInv
  BY ApartInit, ApartStep, PTL DEF Spec

(* Every valid session is named by what RevokeAll looks up, however         *)
(* logins and logouts of several devices overlap and whatever has failed    *)
(* short of a refused DEL or a dropped GET error.                           *)
THEOREM AllSessionsTracked == Spec => []EverySessionTracked
  <1>1. ApartInv => EverySessionTracked
    BY DEF ApartInv, TrackInv, EverySessionTracked, Live, Granted, Keyed, Held, Valid, Tracked
  <1>. QED BY ApartInvariance, <1>1, PTL

(* Single device mode, while calls come one at a time, leaves at most       *)
(* one session valid.                                                       *)
THEOREM OneDeviceValid == Spec => []OneDevice
  <1>1. ApartInv => OneDevice
    <2> SUFFICES ASSUME ApartInv, ~overlap, ~multiDevice, ~Lossy
                 PROVE  Cardinality(Live) <= 1
        BY DEF OneDevice, SingleDevice
    <2>1. Live \subseteq {active}
      BY DEF ApartInv, TrackInv, Live, Granted, Keyed, Held, Valid, Tracked
    <2>2. IsFiniteSet({active}) /\ Cardinality({active}) = 1
      BY FS_Singleton
    <2>3. IsFiniteSet(Live) /\ Cardinality(Live) <= Cardinality({active})
      BY <2>1, <2>2, FS_Subset
    <2>. QED BY <2>2, <2>3
  <1>. QED BY ApartInvariance, <1>1, PTL

(* What is tracked is what a RevokeAll that returns nil ends.               *)
LEMMA LeavesStep ==
    ASSUME TypeOK, ControlInv, ~Lossy => TrackInv, Write \/ Tick
    PROVE  LeavesNone
  <1> SUFFICES ASSUME NEW c \in Admin, revokeAll[c] # "idle", revokeAll'[c] = "idle",
                      faults' = faults, ~Lossy', ~overlap'
               PROVE  Live' = {}
      BY DEF LeavesNone
  <1> USE SessionAssumption
      DEF config, redis, setKey, activeKey, revokeVars, allVars, history, losses
  <1>1. TypeOK /\ ControlInv /\ TrackInv /\ c \in Caller /\ c \notin Sid
    BY LossyStays DEF Caller
  <1>2. ~Abandon /\ ~Resend
    <2>1. \A r : Answer(r) => r = "ok"
      BY <1>1 DEF Answer, TypeOK
    <2>. QED BY <2>1 DEF Abandon, AbandonRegister, AbandonRevoke, AbandonRevokeAll, Resend,
            ResendRegister, ResendRevoke, ResendRevokeAll
  <1>3. \A s \in Sid : ~Register(s) /\ ~Revoke(s)
    BY <1>1 DEF Register, RegisterStart, RegisterSet, RegisterSAdd, RegisterExpire,
       RegisterActive, Revoke, RevokeStart, RevokeDel, RevokeSRem, RevokeGetActive,
       RevokeDelActive, TypeOK
  <1>4. ~Tick
    BY DEF Tick
  <1>5. PICK d \in Caller : RevokeAll(d)
    BY <1>2, <1>3, <1>4 DEF Write
  <1>6. d = c
    BY <1>1, <1>5 DEF RevokeAll, RevokeAllStart, AllSMembers, AllDelSession, AllDelSet,
       AllGetActive, AllDelActive, AllReturn, AllAt, TypeOK
  <1>7. PICK r \in Reply : /\ r = "ok"
                           /\ \/ AllSMembers(c, r) \/ AllDelSet(c, r)
                              \/ AllGetActive(c, r) \/ AllDelActive(c, r)
                              \/ \E s \in Sid : AllDelSession(c, s, r)
    <2>1. ~RevokeAllStart(c)
      BY DEF RevokeAllStart
    <2>2. \A r : Answer(r) => r = "ok"
      BY <1>1 DEF Answer, TypeOK
    <2>3. PICK r \in Reply :
             \/ AllSMembers(c, r) \/ AllDelSet(c, r)
             \/ AllGetActive(c, r) \/ AllDelActive(c, r)
             \/ \E s \in Sid : AllDelSession(c, s, r)
      BY <1>5, <1>6, <2>1 DEF RevokeAll
    <2>4. Answer(r)
      BY <2>3 DEF AllSMembers, AllDelSession, AllDelSet, AllGetActive, AllDelActive
    <2>. QED BY <2>2, <2>3, <2>4
  <1>8. CASE AllSMembers(c, r)
    BY <1>1, <1>7, <1>8 DEF AllSMembers, AllAt, TypeOK
  <1>9. ASSUME NEW s \in Sid, AllDelSession(c, s, r) PROVE Live' = {}
    BY <1>1, <1>9 DEF AllDelSession, AllAt, TypeOK
  <1>10. CASE AllDelSet(c, r)
    <2>1. /\ Keyed = {} /\ multiDevice'
          /\ members' = {} /\ sessTTL' = sessTTL /\ register' = register
      BY <1>1, <1>7, <1>10 DEF AllDelSet, Executed, SetMembers, AllReturn, TrackInv, ControlInv
    <2>. QED BY <2>1, <1>1 DEF Live, Granted, Valid, Tracked, Keyed, TypeOK
  <1>11. CASE AllGetActive(c, r)
    <2>1. active = NoSid /\ ~multiDevice' /\ UNCHANGED <<redis, register>>
      BY <1>1, <1>7, <1>11 DEF AllGetActive, AllReturn, AllAt, ControlInv, TypeOK
    <2>2. Keyed = {}
      BY <1>1, <2>1, <1>11 DEF TrackInv, Held, AllGetActive, Keyed, Granted
    <2>. QED BY <2>1, <2>2, <1>1 DEF Live, Granted, Valid, Tracked, Keyed, TypeOK
  <1>12. CASE AllDelActive(c, r)
    <2>1. /\ Keyed \subseteq ids[c] /\ ~multiDevice' /\ active' = NoSid /\ register' = register
          /\ sessTTL' = [s \in Sid |-> IF s \in ids[c] THEN 0 ELSE sessTTL[s]]
      BY <1>1, <1>7, <1>12 DEF AllDelActive, Executed, DelSession, SetActive, AllReturn,
         TrackInv, ControlInv
    <2>. QED BY <2>1, <1>1 DEF Live, Granted, Valid, Tracked, Keyed, TypeOK
  <1>. QED BY <1>7, <1>8, <1>9, <1>10, <1>11, <1>12

(* A RevokeAll that nothing overlaps and that returns nil leaves no valid   *)
(* session.                                                                 *)
THEOREM RevokeAllEmpties == Spec => RevokeAllLeavesNone
  <1>1. ApartInv /\ ApartInv' /\ [Next]_vars => [LeavesNone]_vars
    <2> SUFFICES ASSUME ApartInv, ApartInv', Next, ~overlap' PROVE LeavesNone
      BY DEF LeavesNone
    <2>1. /\ ~overlap /\ (Write \/ Validate \/ Tick)
      BY Apartness DEF ApartInv, IInv
    <2>2. CASE Validate
      BY <2>2 DEF LeavesNone, Validate, ValidateStart, ValidateTracked, ValidateFallback,
         ValidateEnd, allVars
    <2>3. CASE Write \/ Tick
      BY <2>1, <2>3, LeavesStep DEF ApartInv, IInv
    <2>. QED BY <2>1, <2>2, <2>3
  <1>. QED BY ApartInvariance, <1>1, PTL DEF Spec, RevokeAllLeavesNone

-------------------------------------------------------------------------------
(***************************************************************************)
(* How long a session lasts.                                               *)
(***************************************************************************)
(* The set of sessions has a TTL whenever it names a granted session.       *)
Lasting == multiDevice => \A s \in Granted \cap members : setTTL > 0

(* The EXPIRE of a login that is not granted yet.                           *)
Renewal ==
    multiDevice /\ setTTL' = SessionTTL /\ \E t \in Sid \ Granted : register[t] = "expire"

(* No command adds to what Redis holds of a granted session, a renewal of   *)
(* the set apart.                                                           *)
Fades(s) ==
    /\ sessTTL'[s] <= sessTTL[s]
    /\ s \in members' => s \in members /\ (setTTL' = setTTL \/ Renewal)
    /\ active' = s => active = s /\ activeTTL' = activeTTL

Faded ==
    /\ \A s \in Granted : Fades(s)
    /\ \A s \in Granted' \ Granted : multiDevice => s \notin members' \/ setTTL' = SessionTTL

(* The three deletions, whoever sends them.                                 *)
LEMMA DeletesFade ==
    ASSUME TypeOK, register' = register \/ Granted' \subseteq Granted,
           sessTTL' = sessTTL \/ \E S \in SUBSET Sid : DelSession(S),
           UNCHANGED setKey \/ \E S \in SUBSET members : SetMembers(S),
           UNCHANGED activeKey \/ SetActive(NoSid)
    PROVE  Faded
  <1>1. Granted' \subseteq Granted
    BY DEF Granted
  <1>2. \A s \in Sid : sessTTL'[s] <= sessTTL[s]
    BY SessionAssumption DEF DelSession, TypeOK
  <1>3. \A s \in members' : s \in members /\ setTTL' = setTTL
    BY DEF setKey, SetMembers
  <1>4. \A s \in Sid : active' = s => active = s /\ activeTTL' = activeTTL
    BY SessionAssumption DEF activeKey, SetActive
  <1>. QED BY <1>1, <1>2, <1>3, <1>4 DEF Faded, Fades, Granted

LEMMA FadesRegister ==
    ASSUME TypeOK, ModeInv, NEW s \in Sid, Register(s)
    PROVE  Faded
  <1> USE SessionAssumption
      DEF config, redis, setKey, activeKey, Granted, TypeOK, Faded, Fades, RegisterAt
  <1>1. CASE RegisterStart(s)
    BY <1>1 DEF RegisterStart
  <1>2. ASSUME NEW r \in Reply, RegisterSet(s, r) PROVE Faded
    BY <1>2 DEF RegisterSet
  <1>3. ASSUME NEW r \in Reply, RegisterSAdd(s, r) PROVE Faded
    <2>1. s \notin Granted /\ Granted' \subseteq Granted /\ UNCHANGED <<sessTTL, active, activeTTL>>
      BY <1>3 DEF RegisterSAdd
    <2>2. \A t \in Granted : t \in members' => t \in members /\ setTTL' = setTTL
      BY <1>3, <2>1 DEF RegisterSAdd, SetMembers
    <2>. QED BY <2>1, <2>2
  <1>4. ASSUME NEW r \in Reply, RegisterExpire(s, r) PROVE Faded
    <2>1. /\ s \in Sid \ Granted /\ register[s] = "expire" /\ multiDevice
          /\ UNCHANGED <<sessTTL, members, active, activeTTL>>
      BY <1>4 DEF RegisterExpire, ModeInv
    <2>2. setTTL' = setTTL \/ Renewal
      BY <1>4, <2>1 DEF RegisterExpire, Renewal
    <2>3. \A t \in Granted' \ Granted : t = s /\ r = "ok"
      BY <1>4 DEF RegisterExpire
    <2>4. r = "ok" => members = {} \/ setTTL' = SessionTTL
      BY <1>4 DEF RegisterExpire, Executed
    <2>. QED BY <2>1, <2>2, <2>3, <2>4
  <1>5. ASSUME NEW r \in Reply, RegisterActive(s, r) PROVE Faded
    <2>1. /\ s \notin Granted /\ ~multiDevice /\ UNCHANGED <<sessTTL, members, setTTL>>
          /\ UNCHANGED <<active, activeTTL>> \/ active' = s
      BY <1>5 DEF RegisterActive, ModeInv, SetActive
    <2>. QED BY <2>1
  <1>. QED BY <1>1, <1>2, <1>3, <1>4, <1>5 DEF Register

LEMMA FadesRevoke ==
    ASSUME TypeOK, NEW s \in Sid, Revoke(s)
    PROVE  Faded
  <1> USE DEF config, redis
  <1>1. register' = register
    BY DEF Revoke, RevokeStart, RevokeDel, RevokeSRem, RevokeGetActive, RevokeDelActive
  <1>2. CASE RevokeStart(s)
    <2>1. UNCHANGED <<sessTTL, setKey, activeKey>>
      BY <1>2 DEF RevokeStart, setKey, activeKey
    <2>. QED BY <1>1, <2>1, DeletesFade
  <1>3. ASSUME NEW r \in Reply, RevokeDel(s, r) PROVE Faded
    <2>1. sessTTL' = sessTTL \/ DelSession({s})
      BY <1>3 DEF RevokeDel
    <2>. QED BY <1>1, <1>3, <2>1, DeletesFade DEF RevokeDel
  <1>4. ASSUME NEW r \in Reply, RevokeSRem(s, r) PROVE Faded
    <2>1. UNCHANGED setKey \/ SetMembers(members \ {s})
      BY <1>4 DEF RevokeSRem
    <2>. QED BY <1>1, <1>4, <2>1, DeletesFade DEF RevokeSRem
  <1>5. ASSUME NEW r \in Reply, RevokeGetActive(s, r) PROVE Faded
    <2>1. UNCHANGED <<sessTTL, setKey, activeKey>>
      BY <1>5 DEF RevokeGetActive, setKey, activeKey
    <2>. QED BY <1>1, <2>1, DeletesFade
  <1>6. ASSUME NEW r \in Reply, RevokeDelActive(s, r) PROVE Faded
    <2>1. UNCHANGED activeKey \/ SetActive(NoSid)
      BY <1>6 DEF RevokeDelActive
    <2>. QED BY <1>1, <1>6, <2>1, DeletesFade DEF RevokeDelActive
  <1>. QED BY <1>2, <1>3, <1>4, <1>5, <1>6 DEF Revoke

LEMMA FadesRevokeAll ==
    ASSUME TypeOK, NEW c \in Caller, RevokeAll(c)
    PROVE  Faded
  <1> USE DEF config, redis
  <1>1. register' = register \/ Granted' \subseteq Granted
    BY DEF RevokeAll, RevokeAllStart, AllSMembers, AllDelSession, AllDelSet, AllGetActive,
       AllDelActive, AllReturn, Granted, TypeOK
  <1>2. CASE RevokeAllStart(c)
    <2>1. UNCHANGED <<sessTTL, setKey, activeKey>>
      BY <1>2 DEF RevokeAllStart, setKey, activeKey
    <2>. QED BY <1>1, <2>1, DeletesFade
  <1>3. ASSUME NEW r \in Reply, AllSMembers(c, r) PROVE Faded
    <2>1. UNCHANGED <<sessTTL, setKey, activeKey>>
      BY <1>3 DEF AllSMembers, setKey, activeKey
    <2>. QED BY <1>1, <2>1, DeletesFade
  <1>4. ASSUME NEW s \in Sid, NEW r \in Reply, AllDelSession(c, s, r) PROVE Faded
    <2>1. sessTTL' = sessTTL \/ DelSession({s})
      BY <1>4 DEF AllDelSession
    <2>. QED BY <1>1, <1>4, <2>1, DeletesFade DEF AllDelSession
  <1>5. ASSUME NEW r \in Reply, AllDelSet(c, r) PROVE Faded
    <2>1. UNCHANGED setKey \/ SetMembers({})
      BY <1>5 DEF AllDelSet
    <2>. QED BY <1>1, <1>5, <2>1, DeletesFade DEF AllDelSet
  <1>6. ASSUME NEW r \in Reply, AllGetActive(c, r) PROVE Faded
    <2>1. UNCHANGED <<sessTTL, setKey, activeKey>>
      BY <1>6 DEF AllGetActive, setKey, activeKey
    <2>. QED BY <1>1, <2>1, DeletesFade
  <1>7. ASSUME NEW r \in Reply, AllDelActive(c, r) PROVE Faded
    <2>1. /\ sessTTL' = sessTTL \/ DelSession(ids[c])
          /\ UNCHANGED activeKey \/ SetActive(NoSid)
      BY <1>7 DEF AllDelActive
    <2>2. ids[c] \in SUBSET Sid
      BY DEF TypeOK
    <2>. QED BY <1>1, <1>7, <2>1, <2>2, DeletesFade DEF AllDelActive
  <1>. QED BY <1>2, <1>3, <1>4, <1>5, <1>6, <1>7 DEF RevokeAll

LEMMA FadesResend ==
    ASSUME TypeOK, ModeInv, Resend
    PROVE  Faded
  <1> USE DEF config, redis
  <1>1. ASSUME NEW s \in Sid, ResendRegister(s) PROVE Faded
    <2> USE SessionAssumption DEF setKey, activeKey, Granted, TypeOK, Faded, Fades
    <2>1. register' = register /\ s \notin Granted
      BY <1>1 DEF ResendRegister
    <2>2. CASE register[s] = "setSession"
      BY <1>1, <2>1, <2>2 DEF ResendRegister
    <2>3. CASE register[s] = "sAdd"
      <3>1. \A t \in Granted : t \in members' => t \in members /\ setTTL' = setTTL
        BY <1>1, <2>1, <2>3 DEF ResendRegister, SetMembers
      <3>. QED BY <1>1, <2>1, <2>3, <3>1 DEF ResendRegister
    <2>4. CASE register[s] = "expire"
      BY <1>1, <2>1, <2>4 DEF ResendRegister, ModeInv, Renewal
    <2>5. CASE register[s] = "setActive"
      BY <1>1, <2>1, <2>5 DEF ResendRegister, SetActive
    <2>. QED BY <1>1, <2>2, <2>3, <2>4, <2>5 DEF ResendRegister
  <1>2. ASSUME NEW s \in Sid, ResendRevoke(s) PROVE Faded
    <2>1. /\ register' = register
          /\ sessTTL' = sessTTL \/ DelSession({s})
          /\ UNCHANGED setKey \/ SetMembers(members \ {s})
          /\ UNCHANGED activeKey \/ SetActive(NoSid)
      BY <1>2 DEF ResendRevoke
    <2>. QED BY <2>1, DeletesFade
  <1>3. ASSUME NEW c \in Caller, ResendRevokeAll(c) PROVE Faded
    <2>1. /\ register' = register
          /\ UNCHANGED setKey \/ SetMembers({})
          /\ UNCHANGED activeKey \/ SetActive(NoSid)
      BY <1>3 DEF ResendRevokeAll
    <2>2. sessTTL' = sessTTL \/ \E S \in SUBSET Sid : DelSession(S)
      BY <1>3 DEF ResendRevokeAll, TypeOK
    <2>. QED BY <2>1, <2>2, DeletesFade
  <1>. QED BY <1>1, <1>2, <1>3 DEF Resend

(* Whatever runs, the sessions fade.                                        *)
LEMMA FadesStep ==
    ASSUME TypeOK, ModeInv, Write \/ Validate
    PROVE  Faded
  <1> USE DEF config, redis
  <1>1. CASE Abandon
    <2>1. /\ register' = register \/ Granted' \subseteq Granted
          /\ UNCHANGED <<sessTTL, setKey, activeKey>>
      BY <1>1 DEF Abandon, AbandonRegister, AbandonRevoke, AbandonRevokeAll, AllReturn,
         RegisterAt, Granted, TypeOK, setKey, activeKey
    <2>. QED BY <2>1, DeletesFade
  <1>2. CASE Validate
    <2>1. register' = register /\ UNCHANGED <<sessTTL, setKey, activeKey>>
      BY <1>2 DEF Validate, ValidateStart, ValidateTracked, ValidateFallback, ValidateEnd,
         setKey, activeKey
    <2>. QED BY <2>1, DeletesFade
  <1>. QED BY <1>1, <1>2, FadesRegister, FadesRevoke, FadesRevokeAll, FadesResend DEF Write

LEMMA LastingStep ==
    ASSUME TypeOK, ModeInv, Lasting, [Next]_vars
    PROVE  Lasting'
  <1>1. CASE Write \/ Validate
    <2>1. Faded /\ multiDevice' = multiDevice
      BY <1>1, FadesStep, ModeFixed
    <2>. QED BY <2>1, SessionAssumption DEF Lasting, Faded, Fades, Renewal
  <1>2. CASE Tick
    BY <1>2 DEF Tick, Lasting, Granted, config, Less, TypeOK
  <1>3. CASE UNCHANGED vars
    BY <1>3 DEF vars, Lasting, Granted, config, redis
  <1>. QED BY <1>1, <1>2, <1>3 DEF Next

(* A granted session has at most the TTL left.                              *)
LEMMA LeftBound ==
    TypeOK /\ Lasting => \A s \in Granted : Left(s) \in 0..SessionTTL
  BY SessionAssumption DEF TypeOK, Lasting, Left, TrackedFor, Tracked, Granted

LEMMA LeftBoundNext ==
    (TypeOK /\ Lasting => \A s \in Granted : Left(s) \in 0..SessionTTL)'
  BY LeftBound, PTL

(* A tick takes one off.                                                    *)
LEMMA TickLapses ==
    ASSUME TypeOK, Lasting, Tick, NEW s \in Granted
    PROVE  Left(s)' = Less(Left(s))
  <1>1. /\ sessTTL'[s] = Less(sessTTL[s]) /\ sessTTL[s] \in Nat
        /\ multiDevice' = multiDevice
    BY SessionAssumption DEF Tick, TypeOK, config, Granted
  <1>2. TrackedFor(s)' = Less(TrackedFor(s)) /\ TrackedFor(s) \in Nat
    BY <1>1, SessionAssumption DEF Tick, Less, TrackedFor, Tracked, Lasting, TypeOK, Granted
  <1>. QED BY <1>1, <1>2 DEF Left, Less

(* What fades has no more left than before, unless the set was renewed.     *)
LEMMA FadesLapse ==
    ASSUME TypeOK, multiDevice' = multiDevice, NEW s \in Granted, Fades(s), TypeOK'
    PROVE  \/ Left(s)' <= Left(s)
           \/ multiDevice /\ \E t \in Sid \ {s} : register[t] = "expire"
  <1> SUFFICES ASSUME ~Renewal PROVE Left(s)' <= Left(s)
      BY DEF Renewal
  <1>1. sessTTL'[s] <= sessTTL[s] /\ sessTTL[s] \in Nat /\ sessTTL'[s] \in Nat
    BY DEF Fades, TypeOK, Granted
  <1>2. TrackedFor(s)' <= TrackedFor(s) /\ TrackedFor(s) \in Nat /\ TrackedFor(s)' \in Nat
    BY SessionAssumption DEF Fades, TrackedFor, Tracked, TypeOK, Granted
  <1>. QED BY <1>1, <1>2 DEF Left

(* A granted session never has more than the TTL left, loses one at every   *)
(* tick, and gets something back only from another login's EXPIRE.          *)
THEOREM LoginsRenew == Spec => OnlyLoginsRenew
  <1>1. Init => Lasting
    BY DEF Init, Lasting
  <1>2. ApartInv /\ Lasting /\ [Next]_vars => Lasting'
    BY LastingStep DEF ApartInv, IInv
  <1>3. Spec => []Lasting
    BY <1>1, <1>2, ApartInvariance, PTL DEF Spec
  <1>4. ApartInv /\ ApartInv' /\ Lasting /\ Lasting' /\ [Next]_vars => [LapsesStep]_vars
    <2> SUFFICES ASSUME TypeOK, TypeOK', ModeInv, Lasting, Lasting', Next PROVE LapsesStep
      BY DEF ApartInv, IInv
    <2>1. \A s \in Granted' : Left(s)' <= SessionTTL
      BY LeftBoundNext, SessionAssumption
    <2>2. \A s \in Granted : Tick => Left(s)' = Less(Left(s))
      BY TickLapses
    <2>3. \A s \in Granted : \/ Left(s)' <= Left(s)
                             \/ multiDevice /\ \E t \in Sid \ {s} : register[t] = "expire"
      <3>1. CASE Tick
        BY <3>1, <2>2, LeftBound, SessionAssumption DEF Less
      <3>2. CASE Write \/ Validate
        BY <3>2, FadesStep, ModeFixed, FadesLapse DEF Faded
      <3>. QED BY <3>1, <3>2 DEF Next
    <2>. QED BY <2>1, <2>2, <2>3 DEF LapsesStep
  <1>. QED BY <1>3, <1>4, ApartInvariance, PTL DEF Spec, OnlyLoginsRenew
=============================================================================
