------------------------- MODULE TokenRotation_proofs -------------------------
(***************************************************************************)
(* Proofs about TokenRotation, for any TTLs and any delay of a request. The *)
(* blacklist keeps what it promised (Marked): a token that was used or      *)
(* logged out is in it until the second noted in spent or loggedOut. Until  *)
(* a token of a session wins twice, its tokens form a chain: each is the    *)
(* latest, until it is spent, and only the request that spent it may add    *)
(* the next.                                                                *)
(***************************************************************************)
EXTENDS TokenRotation, TLAPS

(* A request holds a token that was handed out before it began; a Refresh   *)
(* before its SETNX holds one that had not expired then.                    *)
Holding ==
    \A h \in Request :
        /\ at[h] # "idle" =>
              tok[h] \in tokens /\ tok[h].iat <= since[h] /\ since[h] <= now
        /\ at[h] \in {"lookup", "validate", "claim"} => since[h] < Exp(tok[h])

(* When the use of a token, or its Logout, was noted.                       *)
Noted(t, until) == until[t] > 0 => until[t] <= black[t] /\ t.iat + BlacklistTTL <= until[t]

(* Used and logged-out tokens are blacklisted as long as noted; what was    *)
(* never handed out is not blacklisted.                                     *)
Marked ==
    /\ \A t \in Token : Noted(t, spent) /\ Noted(t, loggedOut)
    /\ \A t \in Token : black[t] <= now + BlacklistTTL
    /\ \A h \in Request : at[h] = "revoke" /\ ~blackErr[h] =>
          since[h] + BlacklistTTL <= black[tok[h]]
    /\ \A t \in Token \ tokens : black[t] = 0

Chain ==
    /\ \A t \in tokens : t.sid \in granted
    /\ \A t, u \in tokens :
          t.sid = u.sid /\ t.sid \notin replayed /\ spent[t] = 0 => u.iat <= t.iat
    /\ \A h \in Request : at[h] = "issue" /\ tok[h].sid \notin replayed =>
          \A t \in tokens : t.sid = tok[h].sid => spent[t] > 0 /\ t.iat <= tok[h].iat
    /\ \A h, k \in Request :
          /\ at[h] = "issue" /\ at[k] = "issue"
          /\ tok[h].sid = tok[k].sid /\ tok[h].sid \notin replayed
          => h = k

TInv == TokenTypeOK /\ Holding /\ Marked /\ Chain

------------------------------------------------------------------------------
(* The default an idle request holds is a token.                            *)
LEMMA NoTokenType == NoToken \in Token
<1>1. PICK s : s \in Sid
    BY RotationAssumption
<1>2. [sid |-> s, iat |-> 0] \in Token
    BY <1>1, RotationAssumption DEF Token
<1>3. QED
    BY <1>2 DEF NoToken

(* Every time is a natural number.                                          *)
LEMMA Times ==
    ASSUME TokenTypeOK
    PROVE  /\ now \in Nat /\ RefreshTTL \in Nat /\ BlacklistTTL \in Nat \ {0}
           /\ tokens \subseteq Token
           /\ \A t \in Token : /\ t.sid \in Sid /\ t.iat \in Nat /\ t.iat <= MaxNow
                               /\ black[t] \in Nat /\ spent[t] \in Nat
                               /\ loggedOut[t] \in Nat
           /\ \A h \in Request : tok[h] \in Token /\ since[h] \in Nat
<1> USE RotationAssumption DEF TokenTypeOK
<1>1. \A t \in Token : t.sid \in Sid /\ t.iat \in 0..MaxNow
    BY DEF Token
<1>2. 0..MaxNow \subseteq Nat /\ 0..(MaxNow + BlacklistTTL) \subseteq Nat
    OBVIOUS
<1>3. QED
    BY <1>1, <1>2

(* A token is its claims.                                                   *)
LEMMA SameToken ==
    ASSUME NEW t \in Token, NEW u \in Token, t.sid = u.sid, t.iat <= u.iat, u.iat <= t.iat
    PROVE  t = u
<1>1. t.iat \in Nat /\ u.iat \in Nat
    BY RotationAssumption DEF Token
<1>2. t.iat = u.iat
    BY <1>1
<1>3. QED
    BY <1>2 DEF Token

(* How a request moves: to a label or back to idle, and no other request.   *)
LEMMA Moves ==
    ASSUME TokenTypeOK, NEW h \in Request, NEW c, NEW label \in Label,
           Continues(h, c, label) \/ Ends(h)
    PROVE  /\ at' \in [Request -> Label] /\ tok' \in [Request -> Token]
           /\ since' \in [Request -> 0..MaxNow] /\ blackErr' \in [Request -> BOOLEAN]
           /\ \A k \in Request \ {h} : /\ at'[k] = at[k] /\ tok'[k] = tok[k]
                                      /\ since'[k] = since[k] /\ blackErr'[k] = blackErr[k]
           /\ at'[h] = "idle" \/ (at'[h] = label /\ tok'[h] = tok[h] /\ since'[h] = since[h])
<1>1. CASE Ends(h)
    BY <1>1, NoTokenType, RotationAssumption DEF TokenTypeOK, Ends, Goes, Label
<1>2. CASE Continues(h, c, label)
    <2>1. CASE c
        BY <1>2, <2>1 DEF TokenTypeOK, Continues, Goes, Keeps
    <2>2. CASE ~c
        BY <1>2, <2>2, <1>1 DEF Continues
    <2>3. QED
        BY <2>1, <2>2
<1>3. QED
    BY <1>1, <1>2

(* What a SET or SETNX of a held token does to the blacklist.               *)
LEMMA BlackMarks ==
    ASSUME TokenTypeOK, NEW t \in tokens, NEW r, SetBlack(t, r)
    PROVE  /\ black' \in [Token -> 0..(MaxNow + BlacklistTTL)]
           /\ \A u \in Token \ {t} : black'[u] = black[u]
           /\ black'[t] = IF r = "refused" THEN black[t] ELSE now + BlacklistTTL
<1>1. t \in Token /\ now + BlacklistTTL \in 0..(MaxNow + BlacklistTTL)
    BY RotationAssumption DEF TokenTypeOK
<1>2. QED
    BY <1>1 DEF SetBlack, TokenTypeOK

(* What a win and what a successful Logout note.                            *)
LEMMA Notes ==
    ASSUME TokenTypeOK, Holding, NEW h \in Request, at[h] # "idle"
    PROVE  /\ Spend(tok[h]) =>
                /\ spent' \in [Token -> 0..(MaxNow + BlacklistTTL)]
                /\ \A u \in Token \ {tok[h]} : spent'[u] = spent[u]
                /\ spent'[tok[h]] = now + BlacklistTTL
                /\ replayed \subseteq replayed' /\ replayed' \subseteq Sid
                /\ spent[tok[h]] > 0 => tok[h].sid \in replayed'
           /\ \A err : LogoutReturn(h, err) =>
                /\ loggedOut' \in [Token -> 0..(MaxNow + BlacklistTTL)]
                /\ \A u \in Token \ {tok[h]} : loggedOut'[u] = loggedOut[u]
                /\ loggedOut'[tok[h]] = IF err THEN loggedOut[tok[h]]
                                        ELSE since[h] + BlacklistTTL
<1>1. /\ tok[h] \in Token /\ tok[h].sid \in Sid
      /\ now + BlacklistTTL \in 0..(MaxNow + BlacklistTTL)
      /\ since[h] + BlacklistTTL \in 0..(MaxNow + BlacklistTTL)
      /\ spent[tok[h]] \in Nat
    BY RotationAssumption, Times DEF TokenTypeOK
<1>2. Spend(tok[h]) =>
          /\ spent' \in [Token -> 0..(MaxNow + BlacklistTTL)]
          /\ \A u \in Token \ {tok[h]} : spent'[u] = spent[u]
          /\ spent'[tok[h]] = now + BlacklistTTL
    BY <1>1 DEF Spend, TokenTypeOK
<1>3. Spend(tok[h]) =>
          /\ replayed \subseteq replayed' /\ replayed' \subseteq Sid
          /\ spent[tok[h]] > 0 => tok[h].sid \in replayed'
    BY <1>1 DEF Spend, TokenTypeOK
<1>4. ASSUME NEW err, LogoutReturn(h, err)
      PROVE  /\ loggedOut' \in [Token -> 0..(MaxNow + BlacklistTTL)]
             /\ \A u \in Token \ {tok[h]} : loggedOut'[u] = loggedOut[u]
             /\ loggedOut'[tok[h]] = IF err THEN loggedOut[tok[h]]
                                     ELSE since[h] + BlacklistTTL
    <2>1. CASE err
        BY <1>1, <1>4, <2>1 DEF LogoutReturn, TokenTypeOK
    <2>2. CASE ~err
        BY <1>1, <1>4, <2>2 DEF LogoutReturn, TokenTypeOK
    <2>3. QED
        BY <2>1, <2>2
<1>5. QED
    BY <1>2, <1>3, <1>4

(* Every step keeps the types.                                               *)
LEMMA TypeStep ==
    ASSUME TokenTypeOK, Holding, [TNext]_tvars
    PROVE  TokenTypeOK'
<1> USE RotationAssumption, NoTokenType DEF TokenTypeOK, Holding, Token, Label, Exp, Reply, rvars, requests, history
<1>1. ASSUME NEW s \in Sid, Login(s) PROVE TokenTypeOK'
    BY <1>1 DEF Login, Grant, EndSome, SignedNow
<1>2. ASSUME NEW s \in Sid, SessionEnds(s) PROVE TokenTypeOK'
    BY <1>2 DEF SessionEnds, Doom, EndSome
<1>3. ASSUME Tick PROVE TokenTypeOK'
    BY <1>3 DEF Tick
<1>4. ASSUME NEW h \in Request, NEW t \in tokens, RefreshStart(h, t) PROVE TokenTypeOK'
    BY <1>4 DEF RefreshStart, Receives, Goes
<1>5. ASSUME NEW h \in Request, RefreshLookup(h) PROVE TokenTypeOK'
    BY <1>5, Moves DEF RefreshLookup, Label
<1>6. ASSUME NEW h \in Request, NEW r \in Reply, RefreshValidate(h, r) PROVE TokenTypeOK'
    <2>1. faults' \in 0..MaxFaults
        BY <1>6 DEF RefreshValidate, Answer
    <2>2. QED
        BY <1>6, <2>1, Moves DEF RefreshValidate, Label
<1>7. ASSUME NEW h \in Request, NEW r \in Reply, RefreshClaim(h, r) PROVE TokenTypeOK'
    <2>1. faults' \in 0..MaxFaults
        BY <1>7 DEF RefreshClaim, Answer
    <2>2. tok[h] \in tokens
        BY <1>7 DEF RefreshClaim
    <2>3. at' \in [Request -> Label] /\ tok' \in [Request -> Token]
          /\ since' \in [Request -> 0..MaxNow] /\ blackErr' \in [Request -> BOOLEAN]
        BY <1>7, Moves DEF RefreshClaim, Label
    <2>4. black' \in [Token -> 0..(MaxNow + BlacklistTTL)]
        BY <1>7, <2>2, BlackMarks DEF RefreshClaim
    <2>5. spent' \in [Token -> 0..(MaxNow + BlacklistTTL)] /\ replayed' \subseteq Sid
        BY <1>7, Notes DEF RefreshClaim, Unspent
    <2>6. QED
        BY <1>7, <2>1, <2>3, <2>4, <2>5 DEF RefreshClaim
<1>8. ASSUME NEW h \in Request, RefreshIssue(h) PROVE TokenTypeOK'
    BY <1>8 DEF RefreshIssue, SignedNow, Ends, Goes
<1>9. ASSUME NEW h \in Request, NEW t \in tokens, LogoutStart(h, t) PROVE TokenTypeOK'
    BY <1>9 DEF LogoutStart, Receives, Goes
<1>10. ASSUME NEW h \in Request, NEW r \in Reply, LogoutBlacklist(h, r) PROVE TokenTypeOK'
    <2>1. faults' \in 0..MaxFaults
        BY <1>10 DEF LogoutBlacklist, Answer
    <2>2. tok[h] \in tokens
        BY <1>10 DEF LogoutBlacklist
    <2>3. black' \in [Token -> 0..(MaxNow + BlacklistTTL)]
        BY <1>10, <2>2, BlackMarks DEF LogoutBlacklist
    <2>4. CASE since[h] < Exp(tok[h])
        BY <1>10, <2>1, <2>3, <2>4 DEF LogoutBlacklist, Goes, Label
    <2>5. CASE ~(since[h] < Exp(tok[h]))
        <3>1. Ends(h) /\ loggedOut' \in [Token -> 0..(MaxNow + BlacklistTTL)]
              /\ UNCHANGED <<rvars, now, failOpen, tokens, spent, replayed>>
            BY <1>10, <2>5, Notes DEF LogoutBlacklist, LogoutReturn
        <3>2. at' \in [Request -> Label] /\ tok' \in [Request -> Token]
              /\ since' \in [Request -> 0..MaxNow] /\ blackErr' \in [Request -> BOOLEAN]
            BY <3>1, NoTokenType DEF Ends, Goes
        <3>3. QED
            BY <2>1, <2>2, <2>3, <3>1, <3>2
    <2>6. QED
        BY <2>4, <2>5
<1>11. ASSUME NEW h \in Request, NEW r \in Reply, LogoutRevoke(h, r) PROVE TokenTypeOK'
    <2>1. faults' \in 0..MaxFaults
        BY <1>11 DEF LogoutRevoke, Answer
    <2>2. /\ granted' \subseteq Sid /\ doomed' \subseteq Sid /\ live' \subseteq granted'
        BY <1>11 DEF LogoutRevoke, Doom, EndSome
    <2>3. loggedOut' \in [Token -> 0..(MaxNow + BlacklistTTL)]
        BY <1>11, Notes DEF LogoutRevoke
    <2>4. QED
        BY <1>11, <2>1, <2>2, <2>3, Moves DEF LogoutRevoke, LogoutReturn, Label
<1>12. ASSUME NEW h \in Request, Abandon(h) PROVE TokenTypeOK'
    BY <1>12 DEF Abandon, Answer, Goes, Ends
<1>13. CASE UNCHANGED tvars
    BY <1>13 DEF tvars, rvars, requests, history
<1>14. ASSUME NEW h \in Request, ResendBlack(h) PROVE TokenTypeOK'
    <2>1. tok[h] \in tokens /\ faults' \in 0..MaxFaults
        BY <1>14 DEF ResendBlack, Answer
    <2>2. QED
        BY <1>14, <2>1, BlackMarks DEF ResendBlack
<1>15. QED
    BY <1>1, <1>2, <1>3, <1>4, <1>5, <1>6, <1>7, <1>8, <1>9, <1>10, <1>11, <1>12, <1>13,
       <1>14
    DEF TNext, Refresh, Logout

(* A request keeps holding a token it may hold.                              *)
LEMMA HoldingStep ==
    ASSUME TokenTypeOK, Holding, [TNext]_tvars
    PROVE  Holding'
<1> USE RotationAssumption, NoTokenType DEF TokenTypeOK, Label, Holding, Token, Exp, rvars, requests, history
<1>1. ASSUME NEW s \in Sid, Login(s) PROVE Holding'
    BY <1>1 DEF Login, Grant, EndSome, SignedNow
<1>2. ASSUME NEW s \in Sid, SessionEnds(s) PROVE Holding'
    BY <1>2 DEF SessionEnds, Doom, EndSome
<1>3. ASSUME Tick PROVE Holding'
    BY <1>3 DEF Tick
<1>4. ASSUME NEW h \in Request, NEW t \in tokens, RefreshStart(h, t) PROVE Holding'
    BY <1>4 DEF RefreshStart, Receives, Goes
<1>5. ASSUME NEW h \in Request, RefreshLookup(h) PROVE Holding'
    BY <1>5 DEF RefreshLookup, Continues, Goes, Keeps, Ends
<1>6. ASSUME NEW h \in Request, NEW r \in Reply, RefreshValidate(h, r) PROVE Holding'
    BY <1>6 DEF RefreshValidate, Answer, Continues, Goes, Keeps, Ends
<1>7. ASSUME NEW h \in Request, NEW r \in Reply, RefreshClaim(h, r) PROVE Holding'
    BY <1>7 DEF RefreshClaim, Answer, SetBlack, Blacklisted, Continues, Goes, Keeps, Ends
<1>8. ASSUME NEW h \in Request, RefreshIssue(h) PROVE Holding'
    BY <1>8 DEF RefreshIssue, SignedNow, Ends, Goes
<1>9. ASSUME NEW h \in Request, NEW t \in tokens, LogoutStart(h, t) PROVE Holding'
    BY <1>9 DEF LogoutStart, Receives, Goes
<1>10. ASSUME NEW h \in Request, NEW r \in Reply, LogoutBlacklist(h, r) PROVE Holding'
    BY <1>10 DEF LogoutBlacklist, LogoutReturn, Answer, SetBlack, Goes, Ends
<1>11. ASSUME NEW h \in Request, NEW r \in Reply, LogoutRevoke(h, r) PROVE Holding'
    BY <1>11 DEF LogoutRevoke, LogoutReturn, Doom, EndSome, Answer, Goes, Ends
<1>12. ASSUME NEW h \in Request, Abandon(h) PROVE Holding'
    BY <1>12 DEF Abandon, Answer, Goes, Ends
<1>13. CASE UNCHANGED tvars
    BY <1>13 DEF tvars, rvars, requests, history
<1>14. ASSUME NEW h \in Request, ResendBlack(h) PROVE Holding'
    BY <1>14 DEF ResendBlack, Answer, SetBlack, Blacklisted
<1>15. QED
    BY <1>1, <1>2, <1>3, <1>4, <1>5, <1>6, <1>7, <1>8, <1>9, <1>10, <1>11, <1>12, <1>13,
       <1>14
    DEF TNext, Refresh, Logout

(* A SET or SETNX only prolongs an entry.                                   *)
LEMMA MarksLast ==
    ASSUME TokenTypeOK, Marked, NEW t \in tokens, NEW r, SetBlack(t, r)
    PROVE  /\ \A u \in Token : /\ black'[u] \in Nat /\ black[u] <= black'[u]
                               /\ black'[u] <= now + BlacklistTTL
           /\ \A u \in Token \ tokens : black'[u] = 0
           /\ r # "refused" => black'[t] = now + BlacklistTTL
<1>1. /\ \A u \in Token \ {t} : black'[u] = black[u]
      /\ black'[t] = IF r = "refused" THEN black[t] ELSE now + BlacklistTTL
    BY BlackMarks
<1>2. \A u \in Token : black[u] \in Nat /\ black[u] <= now + BlacklistTTL
    BY RotationAssumption DEF Marked, TokenTypeOK
<1>3. now + BlacklistTTL \in Nat
    BY RotationAssumption DEF TokenTypeOK
<1>4. ASSUME NEW u \in Token
      PROVE  /\ black'[u] \in Nat /\ black[u] <= black'[u]
             /\ black'[u] <= now + BlacklistTTL
    <2>1. CASE u = t /\ r # "refused"
        BY <1>1, <1>2, <1>3, <2>1
    <2>2. CASE ~(u = t /\ r # "refused")
        BY <1>1, <1>2, <1>3, <2>2
    <2>3. QED
        BY <2>1, <2>2
<1>5. QED
    BY <1>1, <1>4 DEF Marked

(* The blacklist keeps what it promised, and only what was handed out.       *)
LEMMA MarkedStep ==
    ASSUME TokenTypeOK, Holding, Marked, [TNext]_tvars
    PROVE  Marked'
<1> USE RotationAssumption, NoTokenType DEF TokenTypeOK, Label, Holding, Marked, Noted, Token, Exp, Reply, rvars, requests, history
<1>1. ASSUME NEW s \in Sid, Login(s) PROVE Marked'
    BY <1>1 DEF Login, Grant, EndSome, SignedNow
<1>2. ASSUME NEW s \in Sid, SessionEnds(s) PROVE Marked'
    BY <1>2 DEF SessionEnds, Doom, EndSome
<1>3. ASSUME Tick PROVE Marked'
    BY <1>3, Times DEF Tick
<1>4. ASSUME NEW h \in Request, NEW t \in tokens, RefreshStart(h, t) PROVE Marked'
    BY <1>4 DEF RefreshStart, Receives, Goes
<1>5. ASSUME NEW h \in Request, RefreshLookup(h) PROVE Marked'
    BY <1>5 DEF RefreshLookup, Continues, Goes, Keeps, Ends
<1>6. ASSUME NEW h \in Request, NEW r \in Reply, RefreshValidate(h, r) PROVE Marked'
    BY <1>6 DEF RefreshValidate, Answer, Continues, Goes, Keeps, Ends
<1>7. ASSUME NEW h \in Request, NEW r \in Reply, RefreshClaim(h, r) PROVE Marked'
    <2>1. tok[h] \in tokens /\ tok[h] \in Token /\ tok[h].iat <= now
        BY <1>7 DEF RefreshClaim
    <2>2. \A k \in Request : at'[k] = "revoke" =>
             /\ at[k] = "revoke" /\ tok'[k] = tok[k] /\ since'[k] = since[k]
             /\ blackErr'[k] = blackErr[k]
        BY <1>7, Moves DEF RefreshClaim, Label
    <2>3. CASE Blacklisted(tok[h])
        BY <1>7, <2>2, <2>3 DEF RefreshClaim, Unspent
    <2>4. CASE ~Blacklisted(tok[h])
        <3>1. SetBlack(tok[h], r) /\ UNCHANGED <<now, tokens, loggedOut>>
              /\ IF r = "ok" THEN Spend(tok[h]) ELSE Unspent
            BY <1>7, <2>4 DEF RefreshClaim
        <3>2. /\ \A u \in Token : /\ black'[u] \in Nat /\ black[u] <= black'[u]
                                /\ black'[u] <= now + BlacklistTTL
              /\ \A u \in Token \ tokens : black'[u] = 0
              /\ r # "refused" => black'[tok[h]] = now + BlacklistTTL
            BY <2>1, <3>1, MarksLast
        <3>3. \A u \in Token : spent'[u] = spent[u] \/
                  (u = tok[h] /\ r = "ok" /\ spent'[u] = now + BlacklistTTL)
            BY <1>7, <3>1, Notes DEF RefreshClaim, Unspent
        <3>4. ASSUME NEW u \in Token PROVE Noted(u, spent)' /\ Noted(u, loggedOut)'
            BY <2>1, <3>1, <3>2, <3>3, Times
        <3>5. ASSUME NEW k \in Request, at'[k] = "revoke", ~blackErr'[k]
              PROVE  since'[k] + BlacklistTTL <= black'[tok'[k]]
            BY <2>2, <3>2, <3>5, Times
        <3>6. QED
            BY <3>1, <3>2, <3>4, <3>5
    <2>5. QED
        BY <2>3, <2>4
<1>8. ASSUME NEW h \in Request, RefreshIssue(h) PROVE Marked'
    BY <1>8 DEF RefreshIssue, SignedNow, Ends, Goes
<1>9. ASSUME NEW h \in Request, NEW t \in tokens, LogoutStart(h, t) PROVE Marked'
    BY <1>9 DEF LogoutStart, Receives, Goes
<1>10. ASSUME NEW h \in Request, NEW r \in Reply, LogoutBlacklist(h, r) PROVE Marked'
    <2>1. /\ tok[h] \in tokens /\ tok[h] \in Token
          /\ tok[h].iat <= since[h] /\ since[h] <= now
        BY <1>10 DEF LogoutBlacklist
    <2>2. SetBlack(tok[h], r) /\ UNCHANGED <<now, tokens, spent>>
        BY <1>10 DEF LogoutBlacklist
    <2>3. /\ \A u \in Token : /\ black'[u] \in Nat /\ black[u] <= black'[u]
                            /\ black'[u] <= now + BlacklistTTL
          /\ \A u \in Token \ tokens : black'[u] = 0
          /\ r # "refused" => black'[tok[h]] = now + BlacklistTTL
        BY <2>1, <2>2, MarksLast
    <2>4. \A k \in Request : at'[k] = "revoke" =>
             /\ tok'[k] = tok[k] /\ since'[k] = since[k]
             /\ k # h => at[k] = "revoke" /\ blackErr'[k] = blackErr[k]
             /\ k = h => blackErr'[k] = (r # "ok")
        <3>1. CASE since[h] < Exp(tok[h])
            BY <1>10, <3>1 DEF LogoutBlacklist, Goes
        <3>2. CASE ~(since[h] < Exp(tok[h]))
            BY <1>10, <3>2 DEF LogoutBlacklist, LogoutReturn, Ends, Goes
        <3>3. QED
            BY <3>1, <3>2
    <2>5. \A u \in Token : loggedOut'[u] = loggedOut[u] \/
              (u = tok[h] /\ r = "ok" /\ loggedOut'[u] = since[h] + BlacklistTTL)
        <3>1. CASE since[h] < Exp(tok[h])
            BY <1>10, <3>1 DEF LogoutBlacklist
        <3>2. CASE ~(since[h] < Exp(tok[h]))
            <4>1. LogoutReturn(h, r # "ok") /\ at[h] # "idle"
                BY <1>10, <3>2 DEF LogoutBlacklist
            <4>2. QED
                BY <4>1, Notes
        <3>3. QED
            BY <3>1, <3>2
    <2>6. ASSUME NEW u \in Token PROVE Noted(u, spent)' /\ Noted(u, loggedOut)'
        BY <2>1, <2>2, <2>3, <2>5, Times
    <2>7. ASSUME NEW k \in Request, at'[k] = "revoke", ~blackErr'[k]
          PROVE  since'[k] + BlacklistTTL <= black'[tok'[k]]
        <3>1. CASE k = h
            <4>1. r = "ok"
                BY <2>4, <2>7, <3>1
            <4>2. black'[tok[h]] = now + BlacklistTTL
                BY <2>3, <4>1
            <4>3. since[h] + BlacklistTTL <= now + BlacklistTTL
                BY <2>1, Times
            <4>4. QED
                BY <2>4, <2>7, <3>1, <4>2, <4>3
        <3>2. CASE k # h
            BY <2>3, <2>4, <2>7, <3>2, Times
        <3>3. QED
            BY <3>1, <3>2
    <2>8. QED
        BY <2>2, <2>3, <2>6, <2>7
<1>11. ASSUME NEW h \in Request, NEW r \in Reply, LogoutRevoke(h, r) PROVE Marked'
    <2>1. /\ at[h] = "revoke" /\ tok[h] \in tokens /\ tok[h] \in Token
          /\ tok[h].iat <= since[h]
          /\ UNCHANGED <<now, tokens, black, spent>>
        BY <1>11 DEF LogoutRevoke
    <2>2. \A k \in Request : at'[k] = "revoke" =>
             /\ at[k] = "revoke" /\ tok'[k] = tok[k] /\ since'[k] = since[k]
             /\ blackErr'[k] = blackErr[k]
        BY <1>11, Moves DEF LogoutRevoke, LogoutReturn, Label
    <2>3. \A u \in Token : loggedOut'[u] = loggedOut[u] \/
              (u = tok[h] /\ ~blackErr[h] /\ loggedOut'[u] = since[h] + BlacklistTTL)
        <3>1. LogoutReturn(h, blackErr[h] \/ r # "ok")
            BY <1>11 DEF LogoutRevoke
        <3>2. QED
            BY <2>1, <3>1, Notes
    <2>4. ASSUME NEW u \in Token PROVE Noted(u, spent)' /\ Noted(u, loggedOut)'
        BY <2>1, <2>3
    <2>5. QED
        BY <2>1, <2>2, <2>4
<1>12. ASSUME NEW h \in Request, Abandon(h) PROVE Marked'
    BY <1>12 DEF Abandon, Answer, Goes, Ends
<1>13. CASE UNCHANGED tvars
    BY <1>13 DEF tvars, rvars, requests, history
<1>14. ASSUME NEW h \in Request, ResendBlack(h) PROVE Marked'
    <2>1. tok[h] \in tokens /\ SetBlack(tok[h], "unanswered")
        BY <1>14 DEF ResendBlack
    <2>2. /\ \A u \in Token : /\ black'[u] \in Nat /\ black[u] <= black'[u]
                            /\ black'[u] <= now + BlacklistTTL
          /\ \A u \in Token \ tokens : black'[u] = 0
        BY <2>1, MarksLast
    <2>3. UNCHANGED <<now, tokens, requests, history>>
        BY <1>14 DEF ResendBlack
    <2>4. ASSUME NEW u \in Token PROVE Noted(u, spent)' /\ Noted(u, loggedOut)'
        BY <2>2, <2>3, Times
    <2>5. QED
        BY <2>2, <2>3, <2>4, Times
<1>15. QED
    BY <1>1, <1>2, <1>3, <1>4, <1>5, <1>6, <1>7, <1>8, <1>9, <1>10, <1>11, <1>12, <1>13,
       <1>14
    DEF TNext, Refresh, Logout

(* The heart of it: what a Refresh may claim was used or logged out so long *)
(* ago that its entry has ended.                                            *)
LEMMA ClaimedAreFree ==
    ASSUME TInv, NEW h \in Request, at[h] = "claim", ~Blacklisted(tok[h])
    PROVE  EntryEnded(h, spent) /\ EntryEnded(h, loggedOut)
<1>1. /\ tok[h] \in Token /\ since[h] \in Nat /\ now \in Nat
      /\ since[h] < tok[h].iat + RefreshTTL /\ RefreshTTL \in Nat /\ BlacklistTTL \in Nat
    BY RotationAssumption DEF TInv, TokenTypeOK, Holding, Exp
<1>2. tok[h].iat \in Nat
    BY <1>1 DEF Token
<1>3. black[tok[h]] \in Nat /\ spent[tok[h]] \in Nat /\ loggedOut[tok[h]] \in Nat
    BY <1>1, RotationAssumption DEF TInv, TokenTypeOK
<1>4. black[tok[h]] <= now
    BY <1>1, <1>3 DEF Blacklisted
<1>5. Noted(tok[h], spent) /\ Noted(tok[h], loggedOut)
    BY <1>1 DEF TInv, Marked
<1>6. EntryEnded(h, spent)
    BY <1>1, <1>2, <1>3, <1>4, <1>5 DEF EntryEnded, Noted
<1>7. EntryEnded(h, loggedOut)
    BY <1>1, <1>2, <1>3, <1>4, <1>5 DEF EntryEnded, Noted
<1>8. QED
    BY <1>6, <1>7

(* The tokens of a session stay a chain.                                     *)
LEMMA ChainStep ==
    ASSUME TInv, [TNext]_tvars
    PROVE  Chain'
<1> USE RotationAssumption, NoTokenType DEF TInv, TokenTypeOK, Label, Holding, Chain, Token, Exp, rvars, requests, history
<1>1. ASSUME NEW s \in Sid, Login(s) PROVE Chain'
    BY <1>1 DEF Login, Grant, EndSome, SignedNow
<1>2. ASSUME NEW s \in Sid, SessionEnds(s) PROVE Chain'
    BY <1>2 DEF SessionEnds, Doom, EndSome
<1>3. ASSUME Tick PROVE Chain'
    BY <1>3 DEF Tick
<1>4. ASSUME NEW h \in Request, NEW t \in tokens, RefreshStart(h, t) PROVE Chain'
    BY <1>4 DEF RefreshStart, Receives, Goes
<1>5. ASSUME NEW h \in Request, RefreshLookup(h) PROVE Chain'
    <2>1. \A k \in Request : at'[k] = "issue" => at[k] = "issue" /\ tok'[k] = tok[k]
        BY <1>5, Moves DEF RefreshLookup, Label
    <2>2. QED
        BY <1>5, <2>1 DEF RefreshLookup
<1>6. ASSUME NEW h \in Request, NEW r \in Reply, RefreshValidate(h, r) PROVE Chain'
    <2>1. \A k \in Request : at'[k] = "issue" => at[k] = "issue" /\ tok'[k] = tok[k]
        BY <1>6, Moves DEF RefreshValidate, Label
    <2>2. QED
        BY <1>6, <2>1 DEF RefreshValidate
<1>7. ASSUME NEW h \in Request, NEW r \in Reply, RefreshClaim(h, r) PROVE Chain'
    <2>1. tok[h] \in tokens
        BY <1>7 DEF RefreshClaim
    <2>2. \A k \in Request : at'[k] = "issue" /\ k # h => at[k] = "issue" /\ tok'[k] = tok[k]
        BY <1>7, Moves DEF RefreshClaim, Label
    <2>3. CASE at'[h] # "issue"
        <3>1. UNCHANGED <<granted, now, tokens, spent, replayed>>
            BY <1>7, <2>3 DEF RefreshClaim, Continues, Goes, Keeps, Unspent
        <3>2. QED
            BY <2>1, <2>2, <2>3, <3>1
    <2>4. CASE at'[h] = "issue"
        <3>1. /\ ~Blacklisted(tok[h]) /\ tok'[h] = tok[h] /\ at[h] = "claim"
              /\ Spend(tok[h])
              /\ UNCHANGED <<granted, now, tokens>>
            BY <1>7, <2>4 DEF RefreshClaim, Continues, Ends, Goes, Keeps
        <3>2. /\ \A u \in Token \ {tok[h]} : spent'[u] = spent[u]
              /\ spent'[tok[h]] = now + BlacklistTTL
              /\ replayed \subseteq replayed'
              /\ spent[tok[h]] > 0 => tok[h].sid \in replayed'
            BY <3>1, Notes
        <3>3. \A u \in tokens : u \in Token /\ spent[u] \in Nat /\ u.iat \in Nat
            BY Times
        <3>4. \A u \in tokens : spent[u] > 0 => spent'[u] > 0
            BY <2>1, <3>2, <3>3, Times
        <3>5. ASSUME NEW t \in tokens, t.sid = tok[h].sid, tok[h].sid \notin replayed'
              PROVE  spent'[t] > 0 /\ t.iat <= tok[h].iat
            <4>1. spent[tok[h]] = 0 /\ t.sid \notin replayed
                BY <2>1, <3>2, <3>3, <3>5
            <4>2. t.iat <= tok[h].iat
                BY <2>1, <3>5, <4>1
            <4>3. ASSUME spent[t] = 0 PROVE t = tok[h]
                <5>1. tok[h].iat <= t.iat
                    BY <2>1, <3>5, <4>1, <4>3
                <5>2. t \in Token /\ tok[h] \in Token
                    BY <2>1, <3>3
                <5>3. QED
                    BY <3>5, <4>2, <5>1, <5>2, SameToken
            <4>4. now + BlacklistTTL > 0
                OBVIOUS
            <4>5. QED
                BY <2>1, <3>2, <3>3, <3>4, <4>2, <4>3, <4>4
        <3>6. \A k \in Request :
                  at[k] = "issue" /\ tok[k].sid \notin replayed' => tok[k].sid # tok[h].sid
            BY <2>1, <3>2, <3>3
        <3>7. \A t, u \in tokens :
                  t.sid = u.sid /\ t.sid \notin replayed' /\ spent'[t] = 0 => u.iat <= t.iat
            BY <3>2, <3>3, <3>4
        <3>8. ASSUME NEW k \in Request, at'[k] = "issue", tok'[k].sid \notin replayed',
                     NEW t \in tokens, t.sid = tok'[k].sid
              PROVE  spent'[t] > 0 /\ t.iat <= tok'[k].iat
            <4>1. CASE k = h
                BY <3>1, <3>5, <3>8, <4>1
            <4>2. CASE k # h
                BY <2>2, <3>2, <3>4, <3>8, <4>2
            <4>3. QED
                BY <4>1, <4>2
        <3>9. \A k, l \in Request :
                  /\ at'[k] = "issue" /\ at'[l] = "issue"
                  /\ tok'[k].sid = tok'[l].sid /\ tok'[k].sid \notin replayed'
                  => k = l
            BY <2>2, <3>1, <3>2, <3>6
        <3>10. QED
            BY <3>1, <3>7, <3>8, <3>9
    <2>5. QED
        BY <2>3, <2>4
<1>8. ASSUME NEW h \in Request, RefreshIssue(h) PROVE Chain'
    BY <1>8 DEF RefreshIssue, SignedNow, Ends, Goes
<1>9. ASSUME NEW h \in Request, NEW t \in tokens, LogoutStart(h, t) PROVE Chain'
    BY <1>9 DEF LogoutStart, Receives, Goes
<1>10. ASSUME NEW h \in Request, NEW r \in Reply, LogoutBlacklist(h, r) PROVE Chain'
    <2>1. \A k \in Request : at'[k] = "issue" => at[k] = "issue" /\ tok'[k] = tok[k]
        <3>1. CASE since[h] < Exp(tok[h])
            BY <1>10, <3>1 DEF LogoutBlacklist, Goes
        <3>2. CASE ~(since[h] < Exp(tok[h]))
            BY <1>10, <3>2 DEF LogoutBlacklist, LogoutReturn, Ends, Goes
        <3>3. QED
            BY <3>1, <3>2
    <2>2. QED
        BY <1>10, <2>1 DEF LogoutBlacklist
<1>11. ASSUME NEW h \in Request, NEW r \in Reply, LogoutRevoke(h, r) PROVE Chain'
    BY <1>11 DEF LogoutRevoke, LogoutReturn, Doom, EndSome, Answer, Goes, Ends
<1>12. ASSUME NEW h \in Request, Abandon(h) PROVE Chain'
    BY <1>12 DEF Abandon, Answer, Goes, Ends
<1>13. CASE UNCHANGED tvars
    BY <1>13 DEF tvars, rvars, requests, history
<1>14. ASSUME NEW h \in Request, ResendBlack(h) PROVE Chain'
    BY <1>14 DEF ResendBlack
<1>15. QED
    BY <1>1, <1>2, <1>3, <1>4, <1>5, <1>6, <1>7, <1>8, <1>9, <1>10, <1>11, <1>12, <1>13,
       <1>14
    DEF TNext, Refresh, Logout

LEMMA InitTInv == TInit => TInv
<1> SUFFICES ASSUME TInit PROVE TInv
    OBVIOUS
<1>1. TokenTypeOK
    BY NoTokenType, RotationAssumption DEF TInit, RInit, TokenTypeOK, Label
<1>2. Holding /\ Chain
    BY DEF TInit, Holding, Chain
<1>3. Marked
    BY <1>1, Times DEF TInit, Marked, Noted
<1>4. QED
    BY <1>1, <1>2, <1>3 DEF TInv

(* TInv is inductive, so it holds of every reachable state.                 *)
THEOREM RotationInvariance == TSpec => []TInv
<1>1. TInv /\ [TNext]_tvars => TInv'
    BY TypeStep, HoldingStep, MarkedStep, ChainStep DEF TInv
<1>2. QED
    BY <1>1, InitTInv, PTL DEF TSpec

(* TokenTypeOK.                                                             *)
THEOREM RotationTypes == TSpec => []TokenTypeOK
<1>1. TInv => TokenTypeOK
    BY DEF TInv
<1>2. QED
    BY <1>1, RotationInvariance, PTL

(* A Refresh gets past the SETNX only by claiming a token nobody blacklisted. *)
LEMMA ClaimsFree ==
    ASSUME TInv, [TNext]_tvars, NEW h \in Request, Claims(h)
    PROVE  at[h] = "claim" /\ ~Blacklisted(tok[h])
<1> USE DEF Claims
<1>1. at[h] = "claim" /\ at'[h] = "issue" /\ at \in [Request -> Label]
    BY DEF TInv, TokenTypeOK
<1>2. ASSUME NEW k \in Request, NEW r \in Reply, RefreshClaim(k, r)
      PROVE  ~Blacklisted(tok[h])
    <2>1. CASE k = h
        BY <1>1, <1>2, <2>1 DEF RefreshClaim, Ends, Goes
    <2>2. CASE k # h
        <3>1. at'[h] = at[h]
            BY <1>2, <2>2, Moves DEF RefreshClaim, TInv, Label
        <3>2. QED
            BY <1>1, <3>1
    <2>3. QED
        BY <2>1, <2>2
<1>3. CASE \E k \in Request, r \in Reply : RefreshClaim(k, r)
    BY <1>1, <1>2, <1>3
<1>4. CASE ~ \E k \in Request, r \in Reply : RefreshClaim(k, r)
    BY <1>1, <1>4
       DEF TNext, Login, SessionEnds, Tick, Refresh, Logout, RefreshStart, Receives,
           RefreshLookup, RefreshValidate, RefreshIssue, LogoutStart, LogoutBlacklist,
           LogoutRevoke, LogoutReturn, ResendBlack, Abandon, Continues, Ends, Goes,
           tvars, requests
<1>5. QED
    BY <1>1, <1>3, <1>4

(* SingleUse: whatever the interleaving, the crashes, the failed commands,  *)
(* the delays and the TTLs, a used token wins again only when its entry has *)
(* ended, and so only if the token or the call outlasts the entry.          *)
THEOREM TokensAreSingleUse == TSpec => SingleUse
<1>1. TInv /\ [TNext]_tvars => [\A h \in Request : Claims(h) => EntryEnded(h, spent)]_tvars
    BY ClaimsFree, ClaimedAreFree
<1>2. QED
    BY <1>1, RotationInvariance, PTL DEF TSpec, SingleUse

(* NoRefreshAfterLogout.                                                    *)
THEOREM LogoutIsFinal == TSpec => NoRefreshAfterLogout
<1>1. TInv /\ [TNext]_tvars =>
          [\A h \in Request : Claims(h) => EntryEnded(h, loggedOut)]_tvars
    BY ClaimsFree, ClaimedAreFree
<1>2. QED
    BY <1>1, RotationInvariance, PTL DEF TSpec, NoRefreshAfterLogout

(* OneUsable: the unused tokens of a session are one token, and a used one  *)
(* is blacklisted until its entry ends.                                     *)
THEOREM OneUsableToken == TSpec => []OneUsable
<1>1. ASSUME TInv, NEW t \in tokens, Usable(t) PROVE spent[t] = 0 \/ LeftOver(t)
    <2>1. t \in Token /\ now \in Nat
        BY <1>1, RotationAssumption DEF TInv, TokenTypeOK
    <2>2. t.iat \in Nat /\ black[t] \in Nat /\ spent[t] \in Nat
        BY <1>1, <2>1, Times DEF TInv
    <2>3. now < Exp(t) /\ black[t] <= now
        BY <1>1, <2>1, <2>2 DEF Usable, Blacklisted
    <2>4. Noted(t, spent)
        BY <1>1, <2>1 DEF TInv, Marked
    <2>5. QED
        BY <2>1, <2>2, <2>3, <2>4, RotationAssumption DEF Noted, LeftOver, Exp
<1>2. ASSUME TInv, NEW t \in tokens, NEW u \in tokens, t.sid = u.sid, Usable(t), Usable(u)
      PROVE  t = u \/ LeftOver(t) \/ LeftOver(u) \/ t.sid \in replayed
    <2>1. SUFFICES ASSUME ~LeftOver(t), ~LeftOver(u), t.sid \notin replayed PROVE t = u
        OBVIOUS
    <2>2. t.iat <= u.iat /\ u.iat <= t.iat
        BY <1>1, <1>2, <2>1 DEF TInv, Chain
    <2>3. t \in Token /\ u \in Token
        BY <1>2 DEF TInv, TokenTypeOK
    <2>4. QED
        BY <1>2, <2>2, <2>3, SameToken
<1>3. TInv => OneUsable
    BY <1>2 DEF OneUsable
<1>4. QED
    BY <1>3, RotationInvariance, PTL

(* RotationWorks: once a second has passed, the token a Refresh signs is a  *)
(* new one, and nothing has blacklisted it.                                 *)
THEOREM RotatedTokenWorks == TSpec => RotationWorks
<1> DEFINE Works(h) == Issues(h) /\ tok[h].iat < now /\ tok[h].sid \notin replayed =>
                  SignedNow(tok[h].sid) \in tokens' /\ Usable(SignedNow(tok[h].sid))
<1>1. ASSUME TInv, [TNext]_tvars, NEW h \in Request, Issues(h), tok[h].iat < now,
             tok[h].sid \notin replayed
      PROVE  SignedNow(tok[h].sid) \in tokens' /\ Usable(SignedNow(tok[h].sid))
    <2> DEFINE new == SignedNow(tok[h].sid)
    <2>1. /\ at[h] = "issue" /\ at'[h] = "idle" /\ faults' = faults /\ faults \in Nat
          /\ tok[h] \in Token /\ now \in 0..MaxNow /\ at \in [Request -> Label]
        BY <1>1, RotationAssumption DEF Issues, TInv, TokenTypeOK
    <2>2. new \in Token /\ new.iat = now /\ new.sid = tok[h].sid
        BY <2>1 DEF SignedNow, Token
    <2>3. tok[h].iat \in Nat /\ now \in Nat
        BY <2>1, RotationAssumption DEF Token
    <2>4. new \notin tokens
        <3>1. SUFFICES ASSUME new \in tokens PROVE FALSE
            OBVIOUS
        <3>2. new.iat <= tok[h].iat
            BY <1>1, <2>1, <2>2, <3>1 DEF TInv, Chain
        <3>3. QED
            BY <1>1, <2>2, <2>3, <3>2
    <2>5. black[new] = 0
        BY <1>1, <2>2, <2>4 DEF TInv, Marked
    <2>6. Usable(new)
        BY <2>2, <2>3, <2>5, RotationAssumption DEF Usable, Exp, Blacklisted
    <2>7. new \in tokens'
        <3>1. CASE \E k \in Request : RefreshIssue(k)
            <4>1. PICK k \in Request : RefreshIssue(k)
                BY <3>1
            <4>2. k = h
                BY <2>1, <4>1 DEF RefreshIssue, Ends, Goes
            <4>3. QED
                BY <4>1, <4>2 DEF RefreshIssue
        <3>2. CASE \E k \in Request : Abandon(k)
            BY <2>1, <3>2 DEF Abandon, Answer
        <3>3. CASE ~ \E k \in Request : RefreshIssue(k) \/ Abandon(k)
            BY <1>1, <2>1, <3>3
               DEF TNext, Login, SessionEnds, Tick, Refresh, Logout, RefreshStart,
                   Receives, RefreshLookup, RefreshValidate, RefreshClaim, LogoutStart,
                   LogoutBlacklist, LogoutRevoke, LogoutReturn, ResendBlack, Continues, Keeps,
                   Ends, Goes, tvars, requests
        <3>4. QED
            BY <3>1, <3>2, <3>3
    <2>8. QED
        BY <2>6, <2>7
<1>2. TInv /\ [TNext]_tvars => [\A h \in Request : Works(h)]_tvars
    BY <1>1
<1>3. QED
    BY <1>2, RotationInvariance, PTL DEF TSpec, RotationWorks

(* The tokens use the session layer only by the steps SessionRegistry has,  *)
(* which are the ones SessionStore is proved to implement.                  *)
THEOREM SessionLayer == TSpec => RSpec
<1>1. ASSUME TokenTypeOK, [TNext]_tvars PROVE [RNext]_rvars
    <2>1. CASE \E s \in Sid : Login(s)
        BY <2>1 DEF Login, RNext
    <2>2. CASE \E s \in Sid : SessionEnds(s)
        <3>1. PICK s \in Sid : Doom({s})
            BY <2>2 DEF SessionEnds
        <3>2. {s} \in SUBSET Sid
            OBVIOUS
        <3>3. QED
            BY <3>1, <3>2 DEF RNext
    <2>3. CASE \E h \in Request, r \in Reply : LogoutRevoke(h, r)
        <3>1. PICK h \in Request : Doom({tok[h].sid})
            BY <2>3 DEF LogoutRevoke
        <3>2. {tok[h].sid} \in SUBSET Sid
            BY <1>1 DEF TokenTypeOK, Token
        <3>3. QED
            BY <3>1, <3>2 DEF RNext
    <2>4. CASE UNCHANGED rvars
        BY <2>4
    <2>5. CASE Tick \/ UNCHANGED tvars
        BY <2>5, <2>4 DEF Tick, tvars
    <2>6. CASE \E h \in Request : \/ Refresh(h) \/ ResendBlack(h) \/ Abandon(h)
                                  \/ \E t \in tokens : LogoutStart(h, t)
                                  \/ \E r \in Reply : LogoutBlacklist(h, r)
        BY <2>6, <2>4
           DEF Refresh, RefreshStart, RefreshLookup, RefreshValidate, RefreshClaim,
               RefreshIssue, ResendBlack, Abandon, LogoutStart, LogoutBlacklist
    <2>7. QED
        BY <1>1, <2>1, <2>2, <2>3, <2>5, <2>6 DEF TNext, Logout
<1>2. QED
    BY <1>1, RotationTypes, PTL DEF TSpec, RSpec, TInit
==============================================================================
