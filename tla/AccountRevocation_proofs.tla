----------------------- MODULE AccountRevocation_proofs -----------------------
(***************************************************************************)
(* Proofs about AccountRevocation: what the row (Disabled), the sessions   *)
(* (Scopes) and the revocation key (Keys) each keep away, and since when.  *)
(***************************************************************************)
EXTENDS AccountRevocation, TLAPS

Busy(s) == op[s] \in {"read", "registered", "found", "validated"}
Revokes(c) == kind[c] # "enable"
Stamped(c) == Revokes(c) /\ step[c] \in {"set", "done"}

(* Tokens and readings of the row are of the past; tokens have sessions.    *)
Times ==
    /\ \A t \in access : t.iat <= now /\ t.made <= epoch /\ t.sid \in granted
    /\ \A s \in Sid : since[s] <= now
    /\ \A s \in Sid : Busy(s) => now <= since[s] + MaxLag
    /\ \A s \in Sid : op[s] \in {"registered", "in", "found", "validated"} => s \in granted
    /\ disabledAt <= now
    /\ \A c \in Change : stamp[c] <= now

(* Whoever is still busy on a disabled account read its row before.         *)
Disabled == status = "disabled" => \A s \in Sid : Busy(s) => since[s] <= disabledAt

(* The order of the changes.                                                *)
Calls ==
    /\ \A c \in Change : step[c] # "idle" => made[c] <= epoch
    /\ \A c \in Change : kind[c] = "enable" => step[c] \in {"idle", "done", "failed"}
    /\ \A c, d \in Change : d \in before[c] => step[c] # "idle" /\ step[d] = "done"
    /\ \A c \in missed : step[c] \notin {"idle", "revokeAll", "revoking"}
    /\ \A c \in unset : step[c] = "done"
    /\ \A c, d \in Change :
          Stamped(c) /\ Stamped(d) /\ d \in before[c] => stamp[d] <= stamp[c]

(* What a change has reached by its RevokeAll.                              *)
Scopes ==
    /\ \A c \in Change : scope[c] \subseteq granted
    /\ \A c \in Change : Revokes(c) /\ step[c] \in {"revoking", "set", "done"} =>
          \A t \in access : t.made < made[c] => t.sid \in scope[c]
    /\ \A c \in Change : Stamped(c) =>
          \A t \in access : t.made < made[c] => t.iat <= stamp[c]
    /\ \A c \in Change : Stamped(c) /\ c \notin missed => scope[c] \cap live = {}

(* What the key stands for.                                                 *)
Keys ==
    /\ key.exp = 0 \/ key.at + AccessTTL <= key.exp
    /\ key.exp # 0 => \E c \in Change :
          Revokes(c) /\ step[c] \in {"set", "done", "failed"} /\ key.at = stamp[c]
    /\ \A c \in Change : Revokes(c) /\ step[c] = "done" /\ c \notin unset =>
          \/ stamp[c] <= key.at /\ stamp[c] + AccessTTL <= key.exp
          \/ \E d \in Change : Overlap(c, d)

AInv == AccountTypeOK /\ Times /\ Disabled /\ DisabledFadesOut /\ Calls /\ Scopes /\ Keys

------------------------------------------------------------------------------
(* Every step keeps the types.                                              *)
LEMMA TypeStep ==
    ASSUME AccountTypeOK, [ANext]_avars
    PROVE  AccountTypeOK'
<1> USE AccountAssumption
    DEF AccountTypeOK, Token, Reply, Kind, rvars, session, row, changes
<1>1. ASSUME NEW s \in Sid, LoginRead(s) PROVE AccountTypeOK'
    BY <1>1 DEF LoginRead, OpAt
<1>2. ASSUME NEW s \in Sid, LoginRegister(s) PROVE AccountTypeOK'
    BY <1>2 DEF LoginRegister, Grant, EndSome, OpAt
<1>3. ASSUME NEW s \in Sid, LoginSign(s) PROVE AccountTypeOK'
    BY <1>3 DEF LoginSign, Sign, Rests, OpAt
<1>4. ASSUME NEW s \in Sid, RefreshRead(s) PROVE AccountTypeOK'
    BY <1>4 DEF RefreshRead, OpAt
<1>5. ASSUME NEW s \in Sid, NEW r \in Reply, RefreshValidate(s, r) PROVE AccountTypeOK'
    BY <1>5 DEF RefreshValidate, Answer, Rests, OpAt
<1>6. ASSUME NEW s \in Sid, RefreshSign(s) PROVE AccountTypeOK'
    BY <1>6 DEF RefreshSign, Sign, Rests, OpAt
<1>7. ASSUME NEW s \in Sid, Abandon(s) PROVE AccountTypeOK'
    BY <1>7 DEF Abandon, Rests, OpAt
<1>8. ASSUME NEW s \in Sid, SessionEnds(s) PROVE AccountTypeOK'
    BY <1>8 DEF SessionEnds, Doom, EndSome
<1>9. ASSUME NEW c \in Change, NEW k \in Kind, NEW new \in Role, NEW r \in Reply,
                  ChangeRow(c, k, new, r)
      PROVE  AccountTypeOK'
    BY <1>9 DEF ChangeRow, Answer, StepAt, Kind, Done
<1>10. ASSUME NEW c \in Change, RevokeAllStart(c) PROVE AccountTypeOK'
    BY <1>10 DEF RevokeAllStart, StepAt
<1>11. ASSUME NEW c \in Change, NEW r \in Reply, RevokeAllEnd(c, r) PROVE AccountTypeOK'
    BY <1>11 DEF RevokeAllEnd, Answer, Doom, EndSome, StepAt
<1>12. ASSUME NEW c \in Change, NEW r \in Reply, SetKey(c, r) PROVE AccountTypeOK'
    BY <1>12 DEF SetKey, Answer, StepAt
<1>13. ASSUME NEW c \in Change, ChangeDies(c) PROVE AccountTypeOK'
    BY <1>13 DEF ChangeDies, Answer, StepAt
<1>14. ASSUME Tick PROVE AccountTypeOK'
    BY <1>14 DEF Tick
<1>15. CASE UNCHANGED avars
    BY <1>15 DEF avars
<1>16. ASSUME NEW c \in Change, ResendKey(c) PROVE AccountTypeOK'
    BY <1>16 DEF ResendKey, Answer
<1>17. QED
    BY <1>1, <1>2, <1>3, <1>4, <1>5, <1>6, <1>7, <1>8,
       <1>9, <1>10, <1>11, <1>12, <1>13, <1>14, <1>15, <1>16
    DEF ANext, Login, Refresh, ChangeCall

(* Time runs forward.                                                       *)
LEMMA TimesStep ==
    ASSUME AccountTypeOK, Times, [ANext]_avars
    PROVE  Times'
<1> USE AccountAssumption
    DEF AccountTypeOK, Token, Reply, Kind, Times, Busy, rvars, session, row, changes
<1>1. ASSUME NEW s \in Sid, LoginRead(s) PROVE Times'
    BY <1>1 DEF LoginRead, OpAt
<1>2. ASSUME NEW s \in Sid, LoginRegister(s) PROVE Times'
    BY <1>2 DEF LoginRegister, Grant, EndSome, OpAt
<1>3. ASSUME NEW s \in Sid, LoginSign(s) PROVE Times'
    BY <1>3 DEF LoginSign, Sign, Rests, OpAt
<1>4. ASSUME NEW s \in Sid, RefreshRead(s) PROVE Times'
    BY <1>4 DEF RefreshRead, OpAt
<1>5. ASSUME NEW s \in Sid, NEW r \in Reply, RefreshValidate(s, r) PROVE Times'
    BY <1>5 DEF RefreshValidate, Answer, Rests, OpAt
<1>6. ASSUME NEW s \in Sid, RefreshSign(s) PROVE Times'
    BY <1>6 DEF RefreshSign, Sign, Rests, OpAt
<1>7. ASSUME NEW s \in Sid, Abandon(s) PROVE Times'
    BY <1>7 DEF Abandon, Rests, OpAt
<1>8. ASSUME NEW s \in Sid, SessionEnds(s) PROVE Times'
    BY <1>8 DEF SessionEnds, Doom, EndSome
<1>9. ASSUME NEW c \in Change, NEW k \in Kind, NEW new \in Role, NEW r \in Reply,
                  ChangeRow(c, k, new, r)
      PROVE  Times'
    BY <1>9 DEF ChangeRow, Answer, StepAt, Kind, Done
<1>10. ASSUME NEW c \in Change, RevokeAllStart(c) PROVE Times'
    BY <1>10 DEF RevokeAllStart, StepAt
<1>11. ASSUME NEW c \in Change, NEW r \in Reply, RevokeAllEnd(c, r) PROVE Times'
    BY <1>11 DEF RevokeAllEnd, Answer, Doom, EndSome, StepAt
<1>12. ASSUME NEW c \in Change, NEW r \in Reply, SetKey(c, r) PROVE Times'
    BY <1>12 DEF SetKey, Answer, StepAt
<1>13. ASSUME NEW c \in Change, ChangeDies(c) PROVE Times'
    BY <1>13 DEF ChangeDies, Answer, StepAt
<1>14. ASSUME Tick PROVE Times'
    BY <1>14 DEF Tick
<1>15. CASE UNCHANGED avars
    BY <1>15 DEF avars
<1>16. ASSUME NEW c \in Change, ResendKey(c) PROVE Times'
    BY <1>16 DEF ResendKey, Answer
<1>17. QED
    BY <1>1, <1>2, <1>3, <1>4, <1>5, <1>6, <1>7, <1>8,
       <1>9, <1>10, <1>11, <1>12, <1>13, <1>14, <1>15, <1>16
    DEF ANext, Login, Refresh, ChangeCall

(* After the UPDATE nobody new gets busy, and the busy ones are done soon.  *)
LEMMA DisabledStep ==
    ASSUME AccountTypeOK, Times, Disabled, DisabledFadesOut, [ANext]_avars
    PROVE  Disabled' /\ DisabledFadesOut'
<1> USE AccountAssumption
    DEF AccountTypeOK, Token, Reply, Kind, Times, Busy, Disabled, DisabledFadesOut,
        rvars, session, row, changes
<1>1. ASSUME NEW s \in Sid, LoginRead(s) PROVE Disabled' /\ DisabledFadesOut'
    BY <1>1 DEF LoginRead, OpAt
<1>2. ASSUME NEW s \in Sid, LoginRegister(s) PROVE Disabled' /\ DisabledFadesOut'
    BY <1>2 DEF LoginRegister, Grant, EndSome, OpAt
<1>3. ASSUME NEW s \in Sid, LoginSign(s) PROVE Disabled' /\ DisabledFadesOut'
    BY <1>3 DEF LoginSign, Sign, Rests, OpAt
<1>4. ASSUME NEW s \in Sid, RefreshRead(s) PROVE Disabled' /\ DisabledFadesOut'
    BY <1>4 DEF RefreshRead, OpAt
<1>5. ASSUME NEW s \in Sid, NEW r \in Reply, RefreshValidate(s, r)
      PROVE  Disabled' /\ DisabledFadesOut'
    BY <1>5 DEF RefreshValidate, Answer, Rests, OpAt
<1>6. ASSUME NEW s \in Sid, RefreshSign(s) PROVE Disabled' /\ DisabledFadesOut'
    BY <1>6 DEF RefreshSign, Sign, Rests, OpAt
<1>7. ASSUME NEW s \in Sid, Abandon(s) PROVE Disabled' /\ DisabledFadesOut'
    BY <1>7 DEF Abandon, Rests, OpAt
<1>8. ASSUME NEW s \in Sid, SessionEnds(s) PROVE Disabled' /\ DisabledFadesOut'
    BY <1>8 DEF SessionEnds, Doom, EndSome
<1>9. ASSUME NEW c \in Change, NEW k \in Kind, NEW new \in Role, NEW r \in Reply,
                  ChangeRow(c, k, new, r)
      PROVE  Disabled' /\ DisabledFadesOut'
    BY <1>9 DEF ChangeRow, Answer, StepAt, Kind, Done
<1>10. ASSUME NEW c \in Change, RevokeAllStart(c) PROVE Disabled' /\ DisabledFadesOut'
    BY <1>10 DEF RevokeAllStart, StepAt
<1>11. ASSUME NEW c \in Change, NEW r \in Reply, RevokeAllEnd(c, r)
      PROVE  Disabled' /\ DisabledFadesOut'
    BY <1>11 DEF RevokeAllEnd, Answer, Doom, EndSome, StepAt
<1>12. ASSUME NEW c \in Change, NEW r \in Reply, SetKey(c, r)
      PROVE  Disabled' /\ DisabledFadesOut'
    BY <1>12 DEF SetKey, Answer, StepAt
<1>13. ASSUME NEW c \in Change, ChangeDies(c) PROVE Disabled' /\ DisabledFadesOut'
    BY <1>13 DEF ChangeDies, Answer, StepAt
<1>14. ASSUME Tick PROVE Disabled' /\ DisabledFadesOut'
    BY <1>14 DEF Tick
<1>15. CASE UNCHANGED avars
    BY <1>15 DEF avars
<1>16. ASSUME NEW c \in Change, ResendKey(c) PROVE Disabled' /\ DisabledFadesOut'
    BY <1>16 DEF ResendKey, Answer
<1>17. QED
    BY <1>1, <1>2, <1>3, <1>4, <1>5, <1>6, <1>7, <1>8,
       <1>9, <1>10, <1>11, <1>12, <1>13, <1>14, <1>15, <1>16
    DEF ANext, Login, Refresh, ChangeCall

(* The changes stay in order.                                               *)
LEMMA CallsStep ==
    ASSUME AccountTypeOK, Times, Calls, [ANext]_avars
    PROVE  Calls'
<1> USE AccountAssumption
    DEF AccountTypeOK, Token, Reply, Kind, Times, Calls, Revokes, Stamped, rvars, session, row, changes
<1>1. ASSUME NEW s \in Sid, LoginRead(s) PROVE Calls'
    BY <1>1 DEF LoginRead, OpAt
<1>2. ASSUME NEW s \in Sid, LoginRegister(s) PROVE Calls'
    BY <1>2 DEF LoginRegister, Grant, EndSome, OpAt
<1>3. ASSUME NEW s \in Sid, LoginSign(s) PROVE Calls'
    BY <1>3 DEF LoginSign, Sign, Rests, OpAt
<1>4. ASSUME NEW s \in Sid, RefreshRead(s) PROVE Calls'
    BY <1>4 DEF RefreshRead, OpAt
<1>5. ASSUME NEW s \in Sid, NEW r \in Reply, RefreshValidate(s, r) PROVE Calls'
    BY <1>5 DEF RefreshValidate, Answer, Rests, OpAt
<1>6. ASSUME NEW s \in Sid, RefreshSign(s) PROVE Calls'
    BY <1>6 DEF RefreshSign, Sign, Rests, OpAt
<1>7. ASSUME NEW s \in Sid, Abandon(s) PROVE Calls'
    BY <1>7 DEF Abandon, Rests, OpAt
<1>8. ASSUME NEW s \in Sid, SessionEnds(s) PROVE Calls'
    BY <1>8 DEF SessionEnds, Doom, EndSome
<1>9. ASSUME NEW c \in Change, NEW k \in Kind, NEW new \in Role, NEW r \in Reply,
                  ChangeRow(c, k, new, r)
      PROVE  Calls'
    BY <1>9 DEF ChangeRow, Answer, StepAt, Kind, Done
<1>10. ASSUME NEW c \in Change, RevokeAllStart(c) PROVE Calls'
    BY <1>10 DEF RevokeAllStart, StepAt
<1>11. ASSUME NEW c \in Change, NEW r \in Reply, RevokeAllEnd(c, r) PROVE Calls'
    BY <1>11 DEF RevokeAllEnd, Answer, Doom, EndSome, StepAt
<1>12. ASSUME NEW c \in Change, NEW r \in Reply, SetKey(c, r) PROVE Calls'
    BY <1>12 DEF SetKey, Answer, StepAt
<1>13. ASSUME NEW c \in Change, ChangeDies(c) PROVE Calls'
    BY <1>13 DEF ChangeDies, Answer, StepAt
<1>14. ASSUME Tick PROVE Calls'
    BY <1>14 DEF Tick
<1>15. CASE UNCHANGED avars
    BY <1>15 DEF avars
<1>16. ASSUME NEW c \in Change, ResendKey(c) PROVE Calls'
    BY <1>16 DEF ResendKey, Answer
<1>17. QED
    BY <1>1, <1>2, <1>3, <1>4, <1>5, <1>6, <1>7, <1>8,
       <1>9, <1>10, <1>11, <1>12, <1>13, <1>14, <1>15, <1>16
    DEF ANext, Login, Refresh, ChangeCall

(* What RevokeAll ended stays ended.                                        *)
LEMMA ScopesStep ==
    ASSUME AccountTypeOK, Times, Calls, Scopes, [ANext]_avars
    PROVE  Scopes'
<1> USE AccountAssumption
    DEF AccountTypeOK, Token, Reply, Kind, Times, Calls, Scopes, Revokes, Stamped,
        rvars, session, row, changes
<1>1. ASSUME NEW s \in Sid, LoginRead(s) PROVE Scopes'
    BY <1>1 DEF LoginRead, OpAt
<1>2. ASSUME NEW s \in Sid, LoginRegister(s) PROVE Scopes'
    BY <1>2 DEF LoginRegister, Grant, EndSome, OpAt
<1>3. ASSUME NEW s \in Sid, LoginSign(s) PROVE Scopes'
    BY <1>3 DEF LoginSign, Sign, Rests, OpAt
<1>4. ASSUME NEW s \in Sid, RefreshRead(s) PROVE Scopes'
    BY <1>4 DEF RefreshRead, OpAt
<1>5. ASSUME NEW s \in Sid, NEW r \in Reply, RefreshValidate(s, r) PROVE Scopes'
    BY <1>5 DEF RefreshValidate, Answer, Rests, OpAt
<1>6. ASSUME NEW s \in Sid, RefreshSign(s) PROVE Scopes'
    BY <1>6 DEF RefreshSign, Sign, Rests, OpAt
<1>7. ASSUME NEW s \in Sid, Abandon(s) PROVE Scopes'
    BY <1>7 DEF Abandon, Rests, OpAt
<1>8. ASSUME NEW s \in Sid, SessionEnds(s) PROVE Scopes'
    BY <1>8 DEF SessionEnds, Doom, EndSome
<1>9. ASSUME NEW c \in Change, NEW k \in Kind, NEW new \in Role, NEW r \in Reply,
                  ChangeRow(c, k, new, r)
      PROVE  Scopes'
    BY <1>9 DEF ChangeRow, Answer, StepAt, Kind, Done
<1>10. ASSUME NEW c \in Change, RevokeAllStart(c) PROVE Scopes'
    BY <1>10 DEF RevokeAllStart, StepAt
<1>11. ASSUME NEW c \in Change, NEW r \in Reply, RevokeAllEnd(c, r) PROVE Scopes'
    BY <1>11 DEF RevokeAllEnd, Answer, Doom, EndSome, StepAt
<1>12. ASSUME NEW c \in Change, NEW r \in Reply, SetKey(c, r) PROVE Scopes'
    BY <1>12 DEF SetKey, Answer, StepAt
<1>13. ASSUME NEW c \in Change, ChangeDies(c) PROVE Scopes'
    BY <1>13 DEF ChangeDies, Answer, StepAt
<1>14. ASSUME Tick PROVE Scopes'
    BY <1>14 DEF Tick
<1>15. CASE UNCHANGED avars
    BY <1>15 DEF avars
<1>16. ASSUME NEW c \in Change, ResendKey(c) PROVE Scopes'
    BY <1>16 DEF ResendKey, Answer
<1>17. QED
    BY <1>1, <1>2, <1>3, <1>4, <1>5, <1>6, <1>7, <1>8,
       <1>9, <1>10, <1>11, <1>12, <1>13, <1>14, <1>15, <1>16
    DEF ANext, Login, Refresh, ChangeCall

(* The key stays the one of the last change, overlaps apart.                *)
LEMMA KeysStep ==
    ASSUME AccountTypeOK, Times, Calls, Keys, [ANext]_avars
    PROVE  Keys'
<1> USE AccountAssumption
    DEF AccountTypeOK, Token, Reply, Kind, Times, Calls, Keys, Revokes, Stamped, Overlap,
        rvars, session, row, changes
<1>1. ASSUME NEW s \in Sid, LoginRead(s) PROVE Keys'
    BY <1>1 DEF LoginRead, OpAt
<1>2. ASSUME NEW s \in Sid, LoginRegister(s) PROVE Keys'
    BY <1>2 DEF LoginRegister, Grant, EndSome, OpAt
<1>3. ASSUME NEW s \in Sid, LoginSign(s) PROVE Keys'
    BY <1>3 DEF LoginSign, Sign, Rests, OpAt
<1>4. ASSUME NEW s \in Sid, RefreshRead(s) PROVE Keys'
    BY <1>4 DEF RefreshRead, OpAt
<1>5. ASSUME NEW s \in Sid, NEW r \in Reply, RefreshValidate(s, r) PROVE Keys'
    BY <1>5 DEF RefreshValidate, Answer, Rests, OpAt
<1>6. ASSUME NEW s \in Sid, RefreshSign(s) PROVE Keys'
    BY <1>6 DEF RefreshSign, Sign, Rests, OpAt
<1>7. ASSUME NEW s \in Sid, Abandon(s) PROVE Keys'
    BY <1>7 DEF Abandon, Rests, OpAt
<1>8. ASSUME NEW s \in Sid, SessionEnds(s) PROVE Keys'
    BY <1>8 DEF SessionEnds, Doom, EndSome
<1>9. ASSUME NEW c \in Change, NEW k \in Kind, NEW new \in Role, NEW r \in Reply,
                  ChangeRow(c, k, new, r)
      PROVE  Keys'
    BY <1>9 DEF ChangeRow, Answer, StepAt, Kind, Done
<1>10. ASSUME NEW c \in Change, RevokeAllStart(c) PROVE Keys'
    BY <1>10 DEF RevokeAllStart, StepAt
<1>11. ASSUME NEW c \in Change, NEW r \in Reply, RevokeAllEnd(c, r) PROVE Keys'
    BY <1>11 DEF RevokeAllEnd, Answer, Doom, EndSome, StepAt
<1>12. ASSUME NEW c \in Change, NEW r \in Reply, SetKey(c, r) PROVE Keys'
    BY <1>12 DEF SetKey, Answer, StepAt
<1>13. ASSUME NEW c \in Change, ChangeDies(c) PROVE Keys'
    BY <1>13 DEF ChangeDies, Answer, StepAt
<1>14. ASSUME Tick PROVE Keys'
    BY <1>14 DEF Tick
<1>15. CASE UNCHANGED avars
    BY <1>15 DEF avars
<1>16. ASSUME NEW c \in Change, ResendKey(c) PROVE Keys'
    BY <1>16 DEF ResendKey, Answer
<1>17. QED
    BY <1>1, <1>2, <1>3, <1>4, <1>5, <1>6, <1>7, <1>8,
       <1>9, <1>10, <1>11, <1>12, <1>13, <1>14, <1>15, <1>16
    DEF ANext, Login, Refresh, ChangeCall

LEMMA InitAInv == AInit => AInv
  BY AccountAssumption
     DEF AInit, RInit, AInv, AccountTypeOK, Times, Busy, Disabled, DisabledFadesOut,
         Calls, Scopes, Keys, Revokes, Stamped

(* AInv is inductive, so it holds of every reachable state.                 *)
THEOREM AccountInvariance == ASpec => []AInv
<1>1. AInv /\ [ANext]_avars => AInv'
    BY TypeStep, TimesStep, DisabledStep, CallsStep, ScopesStep, KeysStep DEF AInv
<1>2. QED
    BY <1>1, InitAInv, PTL DEF ASpec

(* AccountTypeOK.                                                           *)
THEOREM AccountTypes == ASpec => []AccountTypeOK
<1>1. AInv => AccountTypeOK
    BY DEF AInv
<1>2. QED
    BY <1>1, AccountInvariance, PTL

(* DisabledFadesOut: for any number of sessions, calls and Redis errors, an *)
(* account that is and stays disabled gets its last token within MaxLag.    *)
THEOREM DisabledAccountsFadeOut == ASpec => []DisabledFadesOut
<1>1. AInv => DisabledFadesOut
    BY DEF AInv
<1>2. QED
    BY <1>1, AccountInvariance, PTL

(* OnlyLaterSessions.                                                       *)
THEOREM SurvivorsAreLater == ASpec => []OnlyLaterSessions
<1>1. AInv => OnlyLaterSessions
    BY DEF AInv, Scopes, Stamped, Revokes, OnlyLaterSessions, Revokers, Done, Admitted
<1>2. QED
    BY <1>1, AccountInvariance, PTL

(* OldTokensDie: either revocation alone stops every token signed before    *)
(* the row changed - RevokeAll by its session, the key by its second.       *)
THEOREM EitherRevocationSuffices == ASpec => []OldTokensDie
<1>1. ASSUME AInv, NEW c \in Revokers, NEW t \in access, Admitted(t), t.made < made[c]
      PROVE  c \in missed /\ (c \in unset \/ \E d \in Change : Overlap(c, d))
    <2>1. c \in Change /\ Stamped(c) /\ Revokes(c) /\ step[c] = "done"
        BY DEF Revokers, Done, Stamped, Revokes
    <2>2. t.sid \in scope[c] /\ t.sid \in live /\ t.iat <= stamp[c]
        BY <1>1, <2>1 DEF AInv, Scopes, Admitted
    <2>3. c \in missed
        BY <1>1, <2>1, <2>2 DEF AInv, Scopes
    <2>4. ASSUME stamp[c] <= key.at, stamp[c] + AccessTTL <= key.exp PROVE FALSE
        <3>1. /\ t.iat \in Nat /\ now \in Nat /\ stamp[c] \in Nat
              /\ key.at \in Nat /\ key.exp \in Nat
            BY <1>1, <2>1, AccountAssumption DEF AInv, AccountTypeOK, Token
        <3>2. now < t.iat + AccessTTL /\ ~(key.exp > now /\ t.iat <= key.at)
            BY <1>1 DEF Admitted, Exp, Revoked
        <3>3. QED
            BY <2>2, <2>4, <3>1, <3>2, AccountAssumption
    <2>5. QED
        BY <1>1, <2>1, <2>3, <2>4 DEF AInv, Keys
<1>2. AInv => OldTokensDie
    BY <1>1 DEF OldTokensDie
<1>3. QED
    BY <1>2, AccountInvariance, PTL

(* NoComeback: what could let a rejected token in again is the clock, a     *)
(* session that comes back or another key; only the last can, by overlap.   *)
THEOREM RejectedForGood == ASpec => NoComeback
<1>1. ASSUME AInv, AInv', [ANext]_avars, NEW t \in access, ~Admitted(t), Admitted(t)'
      PROVE  \E c, d \in Change : Overlap(c, d)
    <2>1. /\ t.iat \in Nat /\ now \in Nat /\ now' \in Nat /\ t.sid \in granted
          /\ key.at \in Nat /\ key.exp \in Nat /\ key'.at \in Nat /\ key'.exp \in Nat
        BY <1>1, AccountAssumption DEF AInv, AccountTypeOK, Times, Token
    <2>2. now <= now'
        <3>1. CASE Tick
            BY <2>1, <3>1 DEF Tick
        <3>2. CASE ~Tick
            <4>1. CASE \E s \in Sid : Login(s) \/ Refresh(s) \/ Abandon(s) \/ SessionEnds(s)
                BY <2>1, <4>1
                   DEF Login, Refresh, LoginRead, LoginRegister, LoginSign, RefreshRead,
                       RefreshValidate, RefreshSign, Abandon, SessionEnds
            <4>2. CASE \E c \in Change : ChangeCall(c)
                <5>1. PICK c \in Change : ChangeCall(c)
                    BY <4>2
                <5>2. CASE \E r \in Reply, k \in Kind, new \in Role : ChangeRow(c, k, new, r)
                    <6>1. now' = now
                        BY <5>2 DEF ChangeRow
                    <6>2. QED
                        BY <2>1, <6>1
                <5>3. CASE ~\E r \in Reply, k \in Kind, new \in Role : ChangeRow(c, k, new, r)
                    <6>1. now' = now
                        BY <5>1, <5>3
                           DEF ChangeCall, RevokeAllStart, RevokeAllEnd, SetKey, ResendKey, ChangeDies
                    <6>2. QED
                        BY <2>1, <6>1
                <5>4. QED
                    BY <5>2, <5>3
            <4>3. CASE UNCHANGED avars
                BY <2>1, <4>3 DEF avars
            <4>4. QED
                BY <1>1, <3>2, <4>1, <4>2, <4>3 DEF ANext
        <3>3. QED
            BY <3>1, <3>2
    <2>3. now < Exp(t) /\ now' < Exp(t)
        BY <1>1, <2>1, <2>2, AccountAssumption DEF Admitted, Exp
    <2>4. live' \cap granted \subseteq live
        BY <1>1
           DEF ANext, Login, Refresh, ChangeCall, LoginRead, LoginRegister, LoginSign,
               RefreshRead, RefreshValidate, RefreshSign, Abandon, SessionEnds,
               ChangeRow, RevokeAllStart, RevokeAllEnd, SetKey, ResendKey, ChangeDies, Tick,
               avars, rvars, Grant, Doom, EndSome
    <2>5. Revoked(t) /\ ~Revoked(t)'
        BY <1>1, <2>1, <2>3, <2>4 DEF Admitted
    <2>6. t.iat <= key.at /\ now < key.exp /\ key.at + AccessTTL <= key.exp
        BY <1>1, <2>1, <2>5 DEF Revoked, AInv, Keys
    <2>7. key' # key
        BY <2>1, <2>3, <2>5, <2>6, AccountAssumption DEF Revoked, Exp
    <2>8. PICK d \in Change : ResendKey(d) \/ \E r \in Reply : SetKey(d, r)
        <3>1. CASE \E s \in Sid : Login(s) \/ Refresh(s) \/ Abandon(s) \/ SessionEnds(s)
            BY <2>7, <3>1
               DEF Login, Refresh, LoginRead, LoginRegister, LoginSign, RefreshRead,
                   RefreshValidate, RefreshSign, Abandon, SessionEnds
        <3>2. CASE \E c \in Change : ChangeCall(c)
            <4>1. PICK c \in Change : ChangeCall(c)
                BY <3>2
            <4>2. ~ \E r \in Reply, k \in Kind, new \in Role : ChangeRow(c, k, new, r)
                BY <2>7 DEF ChangeRow
            <4>3. ~(RevokeAllStart(c) \/ ChangeDies(c) \/ \E r \in Reply : RevokeAllEnd(c, r))
                BY <2>7 DEF RevokeAllStart, ChangeDies, RevokeAllEnd
            <4>4. QED
                BY <4>1, <4>2, <4>3 DEF ChangeCall
        <3>3. ~(Tick \/ UNCHANGED avars)
            BY <2>7 DEF Tick, avars
        <3>4. QED
            BY <1>1, <3>1, <3>2, <3>3 DEF ANext
    <2>9. step[d] = "set" /\ key' = [at |-> stamp[d], exp |-> now + AccessTTL] /\ now' = now
        BY <2>7, <2>8 DEF SetKey, ResendKey
    <2>10. ~(t.iat <= stamp[d])
        BY <2>1, <2>5, <2>9, AccountAssumption DEF Revoked
    <2>11. PICK c \in Change :
              Revokes(c) /\ step[c] \in {"set", "done", "failed"} /\ key.at = stamp[c]
        BY <1>1, <2>1, <2>6 DEF AInv, Keys
    <2>12. stamp[c] \in Nat /\ stamp[d] \in Nat
        BY <1>1, AccountAssumption DEF AInv, AccountTypeOK
    <2>13. c \notin before[d]
        <3>1. Revokes(d)
            BY <1>1, <2>9 DEF AInv, Calls, Revokes
        <3>2. c \in before[d] => stamp[c] <= stamp[d]
            BY <1>1, <2>9, <2>11, <3>1 DEF AInv, Calls, Stamped
        <3>3. QED
            BY <2>1, <2>6, <2>10, <2>11, <2>12, <3>2
    <2>14. d \notin before[c]
        BY <1>1, <2>9 DEF AInv, Calls
    <2>15. c # d
        BY <2>1, <2>6, <2>10, <2>11, <2>12
    <2>16. QED
        BY <2>9, <2>11, <2>13, <2>14, <2>15 DEF Overlap
<1>2. AInv /\ AInv' /\ [ANext]_avars =>
        [\A t \in access : ~Admitted(t) /\ Admitted(t)'
             => \E c, d \in Change : Overlap(c, d)]_avars
    BY <1>1
<1>3. QED
    BY <1>2, AccountInvariance, PTL DEF ASpec, NoComeback

(* The account uses the session layer only by the steps of SessionRegistry. *)
THEOREM AccountUsesRegistry == ASpec => RSpec
<1>1. ASSUME [ANext]_avars, AccountTypeOK PROVE [RNext]_rvars
    <2>1. ASSUME NEW c \in Change, NEW r \in Reply, RevokeAllEnd(c, r) PROVE RNext
        <3>1. granted \cup {s \in Sid : op[s] = "read"} \in SUBSET Sid
            BY <1>1 DEF AccountTypeOK
        <3>2. QED
            BY <2>1, <3>1 DEF RevokeAllEnd, RNext
    <2>2. ASSUME NEW s \in Sid, SessionEnds(s) PROVE RNext
        <3>1. {s} \in SUBSET Sid
            OBVIOUS
        <3>2. QED
            BY <2>2, <3>1 DEF SessionEnds, RNext
    <2>3. ASSUME NEW s \in Sid, LoginRegister(s) PROVE RNext
        BY <2>3 DEF LoginRegister, RNext
    <2>4. CASE UNCHANGED rvars
        BY <2>4
    <2>5. CASE \/ \E s \in Sid : \/ LoginRead(s) \/ LoginSign(s) \/ Refresh(s) \/ Abandon(s)
               \/ \E c \in Change : RevokeAllStart(c) \/ ResendKey(c) \/ ChangeDies(c)
               \/ \E c \in Change, r \in Reply : SetKey(c, r)
               \/ \E c \in Change, k \in Kind, new \in Role, r \in Reply :
                     ChangeRow(c, k, new, r)
               \/ Tick \/ UNCHANGED avars
        BY <2>5, <2>4
           DEF LoginRead, LoginSign, Refresh, RefreshRead, RefreshValidate, RefreshSign,
               Abandon, RevokeAllStart, ResendKey, ChangeDies, SetKey, ChangeRow, Tick, avars
    <2>6. QED
        BY <1>1, <2>1, <2>2, <2>3, <2>5 DEF ANext, Login, ChangeCall
<1>2. QED
    BY <1>1, AccountTypes, PTL DEF ASpec, RSpec, AInit
==============================================================================
