--------------------------- MODULE UserAccounts_proofs ---------------------------
(***************************************************************************)
(* For any number of users and requests: what requests that do not overlap *)
(* can do to the columns of a user, and to the last administrator.         *)
(***************************************************************************)
EXTENDS UserAccounts, TLAPS

Rows == [role : {"none", "user", "admin"}, status : {"active", "disabled"},
         password : 0..2, nick : 1..2, avatar : 1..2]

(* What a request holds, by where it is and what it is about.               *)
Signing(h) ==
    /\ req[h].kind = "role"
    /\ \E u \in User : req[h].of = {u} /\ u \in req[h].concerns /\ row[u].role # "none"
    /\ req[h].set.role \in {"user", "admin"}

Administering(h) ==
    /\ req[h].kind = "role" /\ req[h].set \in Changes /\ req[h].ask = req[h].set
    /\ \E actor, target \in User :
          /\ req[h].of = {target} /\ req[h].concerns = {target, actor}
          /\ MayModify(actor, target, req[h].set)

Keeps(h, u, c) ==
    /\ req[h].set[c] \in 1..2
    /\ IF c \in DOMAIN req[h].ask THEN req[h].set[c] = req[h].ask[c]
       ELSE "profile" \in raced \/ req[h].set[c] = row[u][c]

Profiling(h) ==
    /\ req[h].kind = "profile" /\ req[h].ask \in Asks
    /\ DOMAIN req[h].set = {"nick", "avatar"}
    /\ \E u \in User :
          /\ req[h].of = {u} /\ u \in req[h].concerns /\ row[u].role # "none"
          /\ Keeps(h, u, "nick") /\ Keeps(h, u, "avatar")

Changing(h) ==
    /\ req[h].kind = "password" /\ req[h].ask = req[h].set
    /\ DOMAIN req[h].set = {"password"} /\ req[h].set.password \in 1..2
    /\ \E u \in User :
          /\ req[h].of = {u} /\ u \in req[h].concerns /\ row[u].role # "none"
          /\ "password" \in raced \/ req[h].old = row[u].password

Revoking(h) ==
    /\ req[h].kind \in {"role", "password"}
    /\ \E u \in User : req[h].of = {u} /\ u \in req[h].concerns

Shape(h) ==
    /\ req[h].at \in {"idle", "sign", "update", "revoke"}
    /\ At(h, "idle") => req[h] = Idle
    /\ At(h, "sign") => Signing(h)
    /\ At(h, "update") => Administering(h) \/ Profiling(h) \/ Changing(h)
    /\ At(h, "revoke") => Revoking(h)

Fields == DOMAIN Idle

(* Two requests of one kind that concern one user were noticed.             *)
Noticed ==
    \A g, h \in Handler :
        g # h /\ ~At(g, "idle") /\ ~At(h, "idle") /\ req[g].kind = req[h].kind
        /\ req[g].concerns \cap req[h].concerns # {} => req[h].kind \in raced

UserInv ==
    /\ row \in [User -> Rows]
    /\ token \in [User -> SUBSET {"user", "admin"}]
    /\ DOMAIN req = Handler /\ \A h \in Handler : DOMAIN req[h] = Fields /\ Shape(h)
    /\ \A u \in User : token[u] # {} => row[u].role # "none"
    /\ Noticed

(***************************************************************************)
(* Rows and records.                                                       *)
(***************************************************************************)
LEMMA AssignType ==
    ASSUME NEW r \in Rows, NEW s,
           "role" \in DOMAIN s => s.role \in {"user", "admin"},
           "status" \in DOMAIN s => s.status \in {"active", "disabled"},
           "password" \in DOMAIN s => s.password \in 0..2,
           "nick" \in DOMAIN s => s.nick \in 1..2,
           "avatar" \in DOMAIN s => s.avatar \in 1..2
    PROVE  Assign(r, s) \in Rows
BY DEF Assign, Rows

LEMMA AssignColumn ==
    ASSUME NEW r \in Rows, NEW s
    PROVE  \A c \in DOMAIN Columns :
              Assign(r, s)[c] = IF c \in DOMAIN s THEN s[c] ELSE r[c]
<1>1. DOMAIN r = DOMAIN Columns
  BY DEF Rows, Columns
<1> QED BY <1>1 DEF Assign

LEMMA ColumnNames == DOMAIN Columns = {"role", "status", "password", "nick", "avatar"}
BY DEF Columns

LEMMA ChangeIs ==
    ASSUME NEW s \in Changes
    PROVE  \/ DOMAIN s = {"role"} /\ s["role"] \in {"user", "admin"}
           \/ DOMAIN s = {"status"} /\ s["status"] \in {"active", "disabled"}
BY DEF Changes, UpdateUserRole, UpdateUserStatus

LEMMA AskIs ==
    ASSUME NEW ask \in Asks
    PROVE  /\ DOMAIN ask \subseteq {"nick", "avatar"}
           /\ \A c \in DOMAIN ask : ask[c] \in 1..2
<1>1. CASE ask \in [{"nick"} -> 1..2]
  BY <1>1
<1>2. CASE ask \in [{"avatar"} -> 1..2]
  BY <1>2
<1>3. CASE ask \in [{"nick", "avatar"} -> 1..2]
  BY <1>3
<1> QED BY <1>1, <1>2, <1>3 DEF Asks

(* What an UPDATE writes.                                                   *)
LEMMA SetIs ==
    ASSUME NEW h \in Handler, Shape(h), At(h, "update")
    PROVE  /\ \/ req[h].kind = "role" /\ DOMAIN req[h].set = {"role"}
              \/ req[h].kind = "role" /\ DOMAIN req[h].set = {"status"}
              \/ req[h].kind = "profile" /\ DOMAIN req[h].set = {"nick", "avatar"}
              \/ req[h].kind = "password" /\ DOMAIN req[h].set = {"password"}
           /\ "role" \in DOMAIN req[h].set => req[h].set["role"] \in {"user", "admin"}
           /\ "status" \in DOMAIN req[h].set => req[h].set["status"] \in {"active", "disabled"}
           /\ "password" \in DOMAIN req[h].set => req[h].set["password"] \in 0..2
           /\ "nick" \in DOMAIN req[h].set => req[h].set["nick"] \in 1..2
           /\ "avatar" \in DOMAIN req[h].set => req[h].set["avatar"] \in 1..2
           /\ Of(h) \in User /\ req[h].of = {Of(h)} /\ Of(h) \in req[h].concerns
<1>1. CASE Administering(h)
  BY <1>1, ChangeIs DEF Administering, Of
<1>2. CASE Profiling(h)
  BY <1>2 DEF Profiling, Keeps, Of
<1>3. CASE Changing(h)
  BY <1>3 DEF Changing, Of
<1> QED BY <1>1, <1>2, <1>3 DEF Shape

LEMMA OfIs ==
    ASSUME NEW h \in Handler, Shape(h), ~At(h, "idle")
    PROVE  Of(h) \in User /\ req[h].of = {Of(h)} /\ Of(h) \in req[h].concerns
<1>1. CASE At(h, "sign")
  BY <1>1 DEF Shape, Signing, Of
<1>2. CASE At(h, "update")
  BY <1>2, SetIs
<1>3. CASE At(h, "revoke")
  BY <1>3 DEF Shape, Revoking, Of
<1> QED BY <1>1, <1>2, <1>3 DEF Shape, At

LEMMA KindIs ==
    /\ KindOf("role") = "role" /\ KindOf("status") = "role"
    /\ KindOf("nick") = "profile" /\ KindOf("avatar") = "profile"
    /\ KindOf("password") = "password"
BY DEF KindOf

(***************************************************************************)
(* What a step does to the requests and to the rows.                       *)
(***************************************************************************)
OthersStay(h) == DOMAIN req' = Handler /\ \A g \in Handler \ {h} : req'[g] = req[g]

LEMMA BeginsIs ==
    ASSUME UserInv, NEW h \in Handler, NEW who, NEW r, DOMAIN r = Fields, Begins(h, who, r)
    PROVE  /\ At(h, "idle") /\ OthersStay(h) /\ raced \subseteq raced'
           /\ DOMAIN req'[h] = Fields
           /\ req'[h].concerns = r.of \cup {who}
           /\ req'[h].at = r.at /\ req'[h].kind = r.kind /\ req'[h].of = r.of
           /\ req'[h].ask = r.ask /\ req'[h].set = r.set /\ req'[h].old = r.old
           /\ \A g \in Handler \ {h} :
                 req[g].kind = r.kind /\ req[g].concerns \cap (r.of \cup {who}) # {}
                    => r.kind \in raced'
<1>1. /\ At(h, "idle") /\ req' = [req EXCEPT ![h] = [r EXCEPT !.concerns = r.of \cup {who}]]
      /\ raced' = IF \E g \in Handler \ {h} :
                        req[g].kind = r.kind /\ req[g].concerns \cap (r.of \cup {who}) # {}
                  THEN raced \cup {r.kind} ELSE raced
  BY DEF Begins
<1>2. DOMAIN req = Handler
  BY DEF UserInv
<1>3. req'[h] = [r EXCEPT !.concerns = r.of \cup {who}] /\ OthersStay(h)
  BY <1>1, <1>2 DEF OthersStay
<1>4. Fields = {"at", "kind", "concerns", "of", "ask", "set", "old"}
  BY DEF Fields, Idle
<1> QED BY <1>1, <1>3, <1>4

LEMMA EndsIs ==
    ASSUME UserInv, NEW h \in Handler, Ends(h)
    PROVE  OthersStay(h) /\ req'[h] = Idle
BY DEF Ends, UserInv, OthersStay

LEMMA GoesIs ==
    ASSUME UserInv, NEW h \in Handler, NEW label, req' = [req EXCEPT ![h].at = label]
    PROVE  /\ OthersStay(h) /\ req'[h].at = label /\ req'[h].kind = req[h].kind
           /\ req'[h].of = req[h].of /\ req'[h].concerns = req[h].concerns
           /\ DOMAIN req'[h] = Fields
<1>1. DOMAIN req = Handler /\ DOMAIN req[h] = Fields
  BY DEF UserInv
<1>2. Fields = {"at", "kind", "concerns", "of", "ask", "set", "old"}
  BY DEF Fields, Idle
<1> QED BY <1>1, <1>2 DEF OthersStay

(* An UPDATE writes the columns it sets, of a row that exists.              *)
LEMMA UpdateIs ==
    ASSUME UserInv, NEW h \in Handler, NEW lost \in BOOLEAN, Update(h, lost)
    PROVE  /\ row' \in [User -> Rows]
           /\ \A u \in User : u # Of(h) => row'[u] = row[u]
           /\ row[Of(h)].role = "none" => row' = row
           /\ row[Of(h)].role # "none" =>
                 /\ row'[Of(h)].role # "none"
                 /\ \A c \in DOMAIN Columns :
                       row'[Of(h)][c] = IF c \in DOMAIN req[h].set THEN req[h].set[c]
                                                                 ELSE row[Of(h)][c]
<1>1. /\ At(h, "update") /\ Shape(h) /\ row \in [User -> Rows]
  BY DEF Update, UserInv
<1>2. Of(h) \in User
  BY <1>1, SetIs
<1>3. CASE row[Of(h)].role = "none"
  BY <1>1, <1>3 DEF Update
<1>4. CASE row[Of(h)].role # "none"
  <2>1. row' = [row EXCEPT ![Of(h)] = Assign(row[Of(h)], req[h].set)]
    BY <1>4 DEF Update
  <2>2. Assign(row[Of(h)], req[h].set) \in Rows
    BY <1>1, <1>2, SetIs, AssignType
  <2>3. \A c \in DOMAIN Columns :
           Assign(row[Of(h)], req[h].set)[c] =
              IF c \in DOMAIN req[h].set THEN req[h].set[c] ELSE row[Of(h)][c]
    BY <1>1, <1>2, AssignColumn
  <2>4. row'[Of(h)]["role"] # "none"
    BY <1>1, <1>2, <1>4, <2>1, <2>3, SetIs, ColumnNames
  <2> QED BY <1>1, <1>2, <1>4, <2>1, <2>2, <2>3, <2>4
<1> QED BY <1>3, <1>4

LEMMA UpdateGoes ==
    ASSUME UserInv, NEW h \in Handler, NEW lost \in BOOLEAN, Update(h, lost)
    PROVE  /\ OthersStay(h) /\ At(h, "update") /\ Shape(h)
           /\ \/ req'[h] = Idle
              \/ /\ req'[h].at = "revoke" /\ req'[h].kind = req[h].kind
                 /\ req'[h].of = req[h].of /\ req'[h].concerns = req[h].concerns
                 /\ DOMAIN req'[h] = Fields /\ Revokes(h)
           /\ Revokes(h) /\ ~lost /\ row[Of(h)].role # "none" => req'[h].at = "revoke"
<1>1. At(h, "update") /\ Shape(h)
  BY DEF Update, UserInv
<1>2. CASE Revokes(h) /\ ~lost /\ row[Of(h)].role # "none"
  BY <1>1, <1>2, GoesIs DEF Update
<1>3. CASE ~(Revokes(h) /\ ~lost /\ row[Of(h)].role # "none")
  BY <1>1, <1>3, EndsIs DEF Update
<1> QED BY <1>2, <1>3

(* Two requests that wait to update the same columns of a user are noticed. *)
LEMMA BothUpdate ==
    ASSUME UserInv, NEW g \in Handler, NEW h \in Handler, g # h, ~At(g, "idle"),
           At(h, "update"), req[g].kind = req[h].kind, Of(h) \in req[g].concerns
    PROVE  req[h].kind \in raced
<1>1. Shape(h) /\ ~At(h, "idle")
  BY DEF UserInv, At
<1>2. Of(h) \in req[h].concerns
  BY <1>1, SetIs
<1>3. req[g].concerns \cap req[h].concerns # {}
  BY <1>2
<1> QED BY <1>1, <1>3 DEF UserInv, Noticed

(* A request that does not move keeps its shape, if nobody else changes the *)
(* columns it has read without being noticed.                               *)
LEMMA ShapeStays ==
    ASSUME UserInv, NEW g \in Handler, req'[g] = req[g], raced \subseteq raced',
           \A u \in User : row[u].role # "none" => row'[u].role # "none",
           \A u \in User, c \in {"nick", "avatar", "password"} :
              row[u].role # "none" /\ u \in req[g].concerns /\ At(g, "update")
              /\ req[g].kind = KindOf(c) /\ row'[u][c] # row[u][c]
                 => KindOf(c) \in raced
    PROVE  Shape(g)'
<1>1. Shape(g)
  BY DEF UserInv
<1>2. CASE At(g, "idle") \/ At(g, "revoke")
  BY <1>1, <1>2 DEF Shape, At, Revoking
<1>3. CASE At(g, "sign")
  BY <1>1, <1>3 DEF Shape, At, Signing
<1>4. CASE At(g, "update")
  <2>1. CASE Administering(g)
    BY <1>4, <2>1 DEF Shape, At, Administering
  <2>2. CASE Profiling(g)
    <3>1. PICK u \in User : /\ req[g].of = {u} /\ u \in req[g].concerns
                            /\ row[u].role # "none"
                            /\ Keeps(g, u, "nick") /\ Keeps(g, u, "avatar")
      BY <2>2 DEF Profiling
    <3>2. /\ row'[u]["nick"] # row[u]["nick"] => "profile" \in raced
          /\ row'[u]["avatar"] # row[u]["avatar"] => "profile" \in raced
      BY <1>4, <2>2, <3>1, KindIs DEF Profiling
    <3>3. Keeps(g, u, "nick")' /\ Keeps(g, u, "avatar")'
      BY <3>1, <3>2 DEF Keeps
    <3>4. row'[u].role # "none"
      BY <3>1
    <3> QED BY <1>4, <2>2, <3>1, <3>3, <3>4 DEF Shape, At, Profiling
  <2>3. CASE Changing(g)
    <3>1. PICK u \in User : /\ req[g].of = {u} /\ u \in req[g].concerns
                            /\ row[u].role # "none"
                            /\ "password" \in raced \/ req[g].old = row[u].password
      BY <2>3 DEF Changing
    <3>2. row'[u]["password"] # row[u]["password"] => "password" \in raced
      BY <1>4, <2>3, <3>1, KindIs DEF Changing
    <3>3. row'[u].role # "none" /\ ("password" \in raced' \/ req[g].old = row'[u].password)
      BY <3>1, <3>2
    <3> QED BY <1>4, <2>3, <3>1, <3>3 DEF Shape, At, Changing
  <2> QED BY <1>1, <1>4, <2>1, <2>2, <2>3 DEF Shape
<1> QED BY <1>1, <1>2, <1>3, <1>4 DEF Shape, At

(***************************************************************************)
(* Every step keeps the invariant.                                         *)
(***************************************************************************)
LEMMA NoticedStays ==
    ASSUME UserInv, raced \subseteq raced',
           \A h \in Handler :
              \/ req'[h] = req[h] \/ req'[h] = Idle
              \/ /\ ~At(h, "idle") /\ req'[h].kind = req[h].kind
                 /\ req'[h].concerns = req[h].concerns
    PROVE  Noticed'
<1> SUFFICES ASSUME NEW g \in Handler, NEW h \in Handler, g # h,
                    req'[g].at # "idle", req'[h].at # "idle", req'[g].kind = req'[h].kind,
                    req'[g].concerns \cap req'[h].concerns # {}
             PROVE  req'[h].kind \in raced'
  BY DEF Noticed, At
<1>1. \A k \in Handler : req'[k].at # "idle" =>
         /\ ~At(k, "idle") /\ req'[k].kind = req[k].kind /\ req'[k].concerns = req[k].concerns
  BY DEF At, Idle
<1> QED BY <1>1 DEF UserInv, Noticed

LEMMA NoticedBegins ==
    ASSUME UserInv, NEW h \in Handler, NEW who, NEW r, DOMAIN r = Fields, Begins(h, who, r)
    PROVE  Noticed'
<1>1. /\ At(h, "idle") /\ OthersStay(h) /\ raced \subseteq raced'
      /\ req'[h].concerns = r.of \cup {who} /\ req'[h].kind = r.kind
      /\ \A g \in Handler \ {h} :
            req[g].kind = r.kind /\ req[g].concerns \cap (r.of \cup {who}) # {}
               => r.kind \in raced'
  BY BeginsIs
<1> SUFFICES ASSUME NEW g \in Handler, NEW k \in Handler, g # k,
                    req'[g].at # "idle", req'[k].at # "idle", req'[g].kind = req'[k].kind,
                    req'[g].concerns \cap req'[k].concerns # {}
             PROVE  req'[k].kind \in raced'
  BY DEF Noticed, At
<1>2. CASE g = h
  <2>1. req'[k] = req[k]
    BY <1>1, <1>2 DEF OthersStay
  <2> QED BY <1>1, <1>2, <2>1
<1>3. CASE k = h
  <2>1. req'[g] = req[g]
    BY <1>1, <1>3 DEF OthersStay
  <2> QED BY <1>1, <1>3, <2>1
<1>4. CASE g # h /\ k # h
  <2>1. req'[g] = req[g] /\ req'[k] = req[k]
    BY <1>1, <1>4 DEF OthersStay
  <2> QED BY <1>1, <2>1 DEF UserInv, Noticed, At
<1> QED BY <1>2, <1>3, <1>4

(* A request begins: the tables do not change.                              *)
LEMMA BeginsKeeps ==
    ASSUME UserInv, NEW h \in Handler, NEW who, NEW r, DOMAIN r = Fields, Begins(h, who, r),
           UNCHANGED <<row, token>>, Shape(h)'
    PROVE  UserInv'
<1>1. OthersStay(h) /\ raced \subseteq raced' /\ DOMAIN req'[h] = Fields
  BY BeginsIs
<1>2. \A g \in Handler \ {h} : Shape(g)'
  BY <1>1, ShapeStays DEF OthersStay
<1>3. DOMAIN req' = Handler /\ \A g \in Handler : DOMAIN req'[g] = Fields /\ Shape(g)'
  BY <1>1, <1>2 DEF OthersStay, UserInv
<1>4. Noticed'
  BY NoticedBegins
<1> QED BY <1>3, <1>4 DEF UserInv

LEMMA FieldsIs == Fields = {"at", "kind", "concerns", "of", "ask", "set", "old"}
BY DEF Fields, Idle

LEMMA RequestKeeps ==
    ASSUME UserInv, NEW h \in Handler, NEW u \in User, Request(h, u)
    PROVE  UserInv'
<1>0. row \in [User -> Rows] /\ token \in [User -> SUBSET {"user", "admin"}]
  BY DEF UserInv
<1>1. CASE LoginRead(h, u)
  <2> DEFINE r == [Idle EXCEPT !.at = "sign", !.kind = "role", !.of = {u},
                               !.set = [role |-> row[u].role]]
  <2>1. /\ row[u].role # "none" /\ Begins(h, u, r) /\ UNCHANGED <<row, token>>
    BY <1>1 DEF LoginRead
  <2>2. /\ DOMAIN r = Fields /\ r.at = "sign" /\ r.kind = "role" /\ r.of = {u}
        /\ r.set = [role |-> row[u].role]
    BY FieldsIs DEF Idle
  <2> HIDE DEF r
  <2>3. Shape(h)'
    <3>1. /\ req'[h].at = "sign" /\ req'[h].kind = "role" /\ req'[h].of = {u}
          /\ req'[h].concerns = {u} \cup {u} /\ req'[h].set = [role |-> row[u].role]
      BY <2>1, <2>2, BeginsIs
    <3>2. row[u].role \in {"user", "admin"}
      BY <1>0, <2>1 DEF Rows
    <3> QED BY <2>1, <3>1, <3>2 DEF Shape, At, Signing
  <2> QED BY <2>1, <2>2, <2>3, BeginsKeeps
<1>2. ASSUME NEW target \in User, NEW columns \in Changes, Administer(h, u, target, columns)
      PROVE  UserInv'
  <2> DEFINE r == [Idle EXCEPT !.at = "update", !.kind = "role", !.of = {target},
                               !.ask = columns, !.set = columns]
  <2>1. Begins(h, u, r) /\ UNCHANGED <<row, token>> /\ MayModify(u, target, columns)
    BY <1>2 DEF Administer
  <2>2. /\ DOMAIN r = Fields /\ r.at = "update" /\ r.kind = "role" /\ r.of = {target}
        /\ r.set = columns /\ r.ask = columns
    BY FieldsIs DEF Idle
  <2> HIDE DEF r
  <2>3. Shape(h)'
    <3>1. /\ req'[h].at = "update" /\ req'[h].kind = "role" /\ req'[h].of = {target}
          /\ req'[h].concerns = {target} \cup {u} /\ req'[h].set = columns
          /\ req'[h].ask = columns
      BY <2>1, <2>2, BeginsIs
    <3> QED BY <2>1, <3>1 DEF Shape, At, Administering, MayModify
  <2> QED BY <2>1, <2>2, <2>3, BeginsKeeps
<1>3. ASSUME NEW ask \in Asks, UpdateProfile(h, u, ask)
      PROVE  UserInv'
  <2> DEFINE set == UpdateUserProfile(row[u], ask)
             r == [Idle EXCEPT !.at = "update", !.kind = "profile", !.of = {u},
                               !.ask = ask, !.set = set]
  <2>1. /\ Begins(h, u, r) /\ UNCHANGED <<row, token>> /\ row[u].role # "none"
    BY <1>3 DEF UpdateProfile, UserInv
  <2>2. /\ DOMAIN set = {"nick", "avatar"}
        /\ set["nick"] = IF "nick" \in DOMAIN ask THEN ask["nick"] ELSE row[u]["nick"]
        /\ set["avatar"] = IF "avatar" \in DOMAIN ask THEN ask["avatar"] ELSE row[u]["avatar"]
    BY DEF UpdateUserProfile
  <2> HIDE DEF set
  <2>3. /\ DOMAIN r = Fields /\ r.at = "update" /\ r.kind = "profile" /\ r.of = {u}
        /\ r.set = set /\ r.ask = ask
    BY FieldsIs DEF Idle
  <2> HIDE DEF r
  <2>4. Shape(h)'
    <3>1. /\ req'[h].at = "update" /\ req'[h].kind = "profile" /\ req'[h].of = {u}
          /\ req'[h].concerns = {u} \cup {u} /\ req'[h].set = set /\ req'[h].ask = ask
      BY <2>1, <2>3, BeginsIs
    <3>2. set["nick"] \in 1..2 /\ set["avatar"] \in 1..2
      BY <1>0, <2>2, AskIs DEF Rows
    <3>3. Keeps(h, u, "nick")' /\ Keeps(h, u, "avatar")'
      BY <2>1, <2>2, <3>1, <3>2 DEF Keeps
    <3> QED BY <2>1, <2>2, <3>1, <3>3 DEF Shape, At, Profiling
  <2> QED BY <2>1, <2>3, <2>4, BeginsKeeps
<1>4. ASSUME NEW old \in 1..2, NEW new \in 1..2, ChangePassword(h, u, old, new)
      PROVE  UserInv'
  <2> DEFINE set == UpdateUserPassword(new)
             r == [Idle EXCEPT !.at = "update", !.kind = "password", !.of = {u},
                               !.ask = set, !.set = set, !.old = old]
  <2>1. /\ Begins(h, u, r) /\ UNCHANGED <<row, token>> /\ row[u].role # "none"
        /\ old = row[u].password
    BY <1>4 DEF ChangePassword, UserInv
  <2>2. DOMAIN set = {"password"} /\ set.password \in 1..2
    BY DEF UpdateUserPassword
  <2> HIDE DEF set
  <2>3. /\ DOMAIN r = Fields /\ r.at = "update" /\ r.kind = "password" /\ r.of = {u}
        /\ r.set = set /\ r.ask = set /\ r.old = old
    BY FieldsIs DEF Idle
  <2> HIDE DEF r
  <2>4. Shape(h)'
    <3>1. /\ req'[h].at = "update" /\ req'[h].kind = "password" /\ req'[h].of = {u}
          /\ req'[h].concerns = {u} \cup {u} /\ req'[h].set = set /\ req'[h].ask = set
          /\ req'[h].old = old
      BY <2>1, <2>3, BeginsIs
    <3> QED BY <2>1, <2>2, <3>1 DEF Shape, At, Changing
  <2> QED BY <2>1, <2>3, <2>4, BeginsKeeps
<1> QED BY <1>1, <1>2, <1>3, <1>4 DEF Request

(* Rows that come from outside.                                             *)
LEMMA NewRowKeeps ==
    ASSUME UserInv, NEW u \in User, NEW r \in Rows, row[u] = NoRow, r.role # "none",
           row' = [row EXCEPT ![u] = r], UNCHANGED <<token, req, raced>>
    PROVE  UserInv'
<1>1. row \in [User -> Rows] /\ row[u].role = "none"
  BY DEF UserInv, NoRow, Columns
<1>2. \A v \in User : v # u => row'[v] = row[v]
  BY <1>1
<1>3. row' \in [User -> Rows] /\ \A v \in User : row[v].role # "none" => row'[v] = row[v]
  BY <1>1, <1>2
<1>4. \A g \in Handler : Shape(g)'
  BY <1>3, ShapeStays
<1>5. Noticed'
  BY NoticedStays
<1> QED BY <1>3, <1>4, <1>5 DEF UserInv

LEMMA StepKeeps ==
    ASSUME UserInv, NEW h \in Handler, Step(h)
    PROVE  UserInv'
<1>0. row \in [User -> Rows] /\ token \in [User -> SUBSET {"user", "admin"}]
  BY DEF UserInv
<1>1. ASSUME Ends(h), row' = row, UNCHANGED raced, token' \in [User -> SUBSET {"user", "admin"}],
             \A u \in User : token'[u] # {} => row[u].role # "none"
      PROVE  UserInv'
  <2>1. OthersStay(h) /\ req'[h] = Idle
    BY <1>1, EndsIs
  <2>2. \A g \in Handler \ {h} : Shape(g)'
    BY <1>1, <2>1, ShapeStays DEF OthersStay
  <2>3. Shape(h)'
    BY <2>1 DEF Shape, At, Idle
  <2>4. DOMAIN req' = Handler /\ \A g \in Handler : DOMAIN req'[g] = Fields /\ Shape(g)'
    BY <2>1, <2>2, <2>3 DEF OthersStay, UserInv, Fields
  <2>5. Noticed'
    BY <1>1, <2>1, NoticedStays DEF OthersStay
  <2> QED BY <1>0, <1>1, <2>4, <2>5 DEF UserInv
<1>2. CASE LoginSign(h)
  <2>1. Shape(h) /\ At(h, "sign") /\ Signing(h)
    BY <1>2 DEF LoginSign, UserInv, Shape
  <2>2. Of(h) \in User /\ row[Of(h)].role # "none" /\ req[h].set.role \in {"user", "admin"}
    BY <2>1 DEF Signing, Of
  <2>3. token' = [token EXCEPT ![Of(h)] = @ \cup {req[h].set.role}] /\ Ends(h)
        /\ UNCHANGED <<row, raced>>
    BY <1>2 DEF LoginSign
  <2>4. /\ token' \in [User -> SUBSET {"user", "admin"}]
        /\ \A u \in User : u # Of(h) => token'[u] = token[u]
    BY <1>0, <2>2, <2>3
  <2>5. \A u \in User : token'[u] # {} => row[u].role # "none"
    BY <2>2, <2>4 DEF UserInv
  <2> QED BY <1>1, <2>3, <2>4, <2>5
<1>3. CASE UpdateFails(h)
  BY <1>0, <1>1, <1>3 DEF UpdateFails, UserInv
<1>4. ASSUME NEW fails \in BOOLEAN, RevokeAccessTokens(h, fails)
      PROVE  UserInv'
  <2>1. Ends(h) /\ UNCHANGED <<row, raced>>
        /\ (token' = token \/ token' = [token EXCEPT ![Of(h)] = {}])
    BY <1>4 DEF RevokeAccessTokens
  <2>2. /\ token' \in [User -> SUBSET {"user", "admin"}]
        /\ \A u \in User : token'[u] # {} => token[u] # {}
    BY <1>0, <2>1
  <2> QED BY <1>1, <2>1, <2>2 DEF UserInv
<1>5. ASSUME NEW lost \in BOOLEAN, Update(h, lost)
      PROVE  UserInv'
  <2>1. UNCHANGED <<token, raced>>
    BY <1>5 DEF Update
  <2>2. /\ OthersStay(h) /\ At(h, "update") /\ Shape(h)
        /\ \/ req'[h] = Idle
           \/ /\ req'[h].at = "revoke" /\ req'[h].kind = req[h].kind
              /\ req'[h].of = req[h].of /\ req'[h].concerns = req[h].concerns
              /\ DOMAIN req'[h] = Fields /\ Revokes(h)
    BY <1>5, UpdateGoes
  <2>3. /\ Of(h) \in User /\ req[h].of = {Of(h)} /\ Of(h) \in req[h].concerns
        /\ \/ req[h].kind = "role" /\ DOMAIN req[h].set = {"role"}
           \/ req[h].kind = "role" /\ DOMAIN req[h].set = {"status"}
           \/ req[h].kind = "profile" /\ DOMAIN req[h].set = {"nick", "avatar"}
           \/ req[h].kind = "password" /\ DOMAIN req[h].set = {"password"}
    BY <2>2, SetIs
  <2>4. /\ row' \in [User -> Rows]
        /\ \A u \in User : u # Of(h) => row'[u] = row[u]
        /\ row[Of(h)].role = "none" => row' = row
        /\ row[Of(h)].role # "none" =>
              /\ row'[Of(h)].role # "none"
              /\ \A c \in DOMAIN Columns :
                    row'[Of(h)][c] = IF c \in DOMAIN req[h].set THEN req[h].set[c]
                                                              ELSE row[Of(h)][c]
    BY <1>5, UpdateIs
  <2>5. \A u \in User : row[u].role # "none" => row'[u].role # "none"
    BY <2>4
  <2>6. \A u \in User, c \in {"nick", "avatar", "password"} :
           row'[u][c] # row[u][c] => u = Of(h) /\ KindOf(c) = req[h].kind
    BY <2>3, <2>4, ColumnNames, KindIs
  <2>7. ASSUME NEW g \in Handler \ {h}
        PROVE  Shape(g)'
    <3>1. \A u \in User, c \in {"nick", "avatar", "password"} :
             u \in req[g].concerns /\ At(g, "update")
             /\ req[g].kind = KindOf(c) /\ row'[u][c] # row[u][c] => KindOf(c) \in raced
      <4> SUFFICES ASSUME NEW u \in User, NEW c \in {"nick", "avatar", "password"},
                          u \in req[g].concerns, At(g, "update"), req[g].kind = KindOf(c),
                          row'[u][c] # row[u][c]
                   PROVE  KindOf(c) \in raced
        OBVIOUS
      <4>1. u = Of(h) /\ KindOf(c) = req[h].kind
        BY <2>6
      <4>2. ~At(g, "idle")
        BY DEF At
      <4> QED BY <2>2, <4>1, <4>2, BothUpdate
    <3> QED BY <2>1, <2>2, <2>5, <3>1, ShapeStays DEF OthersStay
  <2>8. Shape(h)'
    <3>1. CASE req'[h] = Idle
      BY <3>1 DEF Shape, At, Idle
    <3>2. CASE req'[h].at = "revoke"
      <4>1. req[h].kind \in {"role", "password"}
        BY <2>2, <2>3, <3>2 DEF Revokes, Idle
      <4> QED BY <2>2, <2>3, <3>2, <4>1 DEF Shape, At, Revoking, Idle
    <3> QED BY <2>2, <3>1, <3>2
  <2>9. DOMAIN req' = Handler /\ \A g \in Handler : DOMAIN req'[g] = Fields /\ Shape(g)'
    BY <2>2, <2>7, <2>8 DEF OthersStay, UserInv, Fields
  <2>10. Noticed'
    <3>1. ~At(h, "idle")
      BY <2>2 DEF At
    <3> QED BY <2>1, <2>2, <3>1, NoticedStays DEF OthersStay
  <2>11. \A u \in User : token'[u] # {} => row'[u].role # "none"
    BY <2>1, <2>5 DEF UserInv
  <2> QED BY <1>0, <2>1, <2>4, <2>9, <2>10, <2>11 DEF UserInv
<1> QED BY <1>2, <1>3, <1>4, <1>5 DEF Step

LEMMA UserStep == UserInv /\ [Next]_uvars => UserInv'
<1> SUFFICES ASSUME UserInv, [Next]_uvars PROVE UserInv'
  OBVIOUS
<1>1. CASE UNCHANGED uvars
  <2>1. UNCHANGED <<row, token, req, raced>>
    BY <1>1 DEF uvars
  <2>2. \A g \in Handler : Shape(g)'
    BY <2>1, ShapeStays
  <2>3. Noticed'
    BY <2>1, NoticedStays
  <2> QED BY <2>1, <2>2, <2>3 DEF UserInv
<1>2. ASSUME NEW u \in User, NEW password \in 0..1, Register(u, password)
      PROVE  UserInv'
  <2>1. /\ [Columns EXCEPT !.password = password] \in Rows
        /\ [Columns EXCEPT !.password = password].role # "none"
    BY DEF Columns, Rows
  <2> QED BY <1>2, <2>1, NewRowKeeps DEF Register
<1>3. ASSUME NEW u \in User, Seed(u)
      PROVE  UserInv'
  <2>1. /\ [Columns EXCEPT !.role = "admin"] \in Rows
        /\ [Columns EXCEPT !.role = "admin"].role # "none"
    BY DEF Columns, Rows
  <2> QED BY <1>3, <2>1, NewRowKeeps DEF Seed
<1>4. ASSUME NEW h \in Handler, Step(h)
      PROVE  UserInv'
  BY <1>4, StepKeeps
<1>5. ASSUME NEW h \in Handler, NEW u \in User, Request(h, u)
      PROVE  UserInv'
  BY <1>5, RequestKeeps
<1> QED BY <1>1, <1>2, <1>3, <1>4, <1>5 DEF Next

LEMMA UserInit == Init => UserInv
<1> SUFFICES ASSUME Init PROVE UserInv
  OBVIOUS
<1>1. row \in [User -> Rows] /\ token \in [User -> SUBSET {"user", "admin"}]
  BY DEF Init, NoRow, Columns, Rows
<1>2. DOMAIN req = Handler /\ \A h \in Handler : req[h] = Idle
  BY DEF Init
<1>3. \A h \in Handler : DOMAIN req[h] = Fields /\ Shape(h)
  BY <1>2 DEF Fields, Shape, At, Idle
<1>4. Noticed
  BY <1>2 DEF Noticed, At, Idle
<1>5. \A u \in User : token[u] = {}
  BY DEF Init
<1> QED BY <1>1, <1>2, <1>3, <1>4, <1>5 DEF UserInv

(***************************************************************************)
(* Columns change only to what was asked for.                              *)
(***************************************************************************)
ChangedAsAsked ==
    \A u \in User : row[u].role # "none" =>
        \A c \in DOMAIN Columns :
            row'[u][c] # row[u][c] => KindOf(c) \in raced \/ Asked(u, c)

LEMMA UpdateAsked ==
    ASSUME UserInv, NEW h \in Handler, NEW lost \in BOOLEAN, Update(h, lost)
    PROVE  ChangedAsAsked
<1>1. At(h, "update") /\ Shape(h)
  BY UpdateGoes
<1>2. Of(h) \in User /\ req[h].of = {Of(h)}
  BY <1>1, SetIs
<1> SUFFICES ASSUME NEW u \in User, row[u].role # "none", NEW c \in DOMAIN Columns,
                    row'[u][c] # row[u][c]
             PROVE  KindOf(c) \in raced \/ Asked(u, c)
  BY DEF ChangedAsAsked
<1>3. u = Of(h) /\ c \in DOMAIN req[h].set /\ row'[u][c] = req[h].set[c]
  BY UpdateIs
<1>4. CASE Administering(h)
  <2>1. c # "password"
    BY <1>1, <1>3, <1>4, SetIs DEF Administering
  <2> QED BY <1>1, <1>2, <1>3, <1>4, <2>1 DEF Administering, Asked
<1>5. CASE Profiling(h)
  <2>1. PICK v \in User : /\ req[h].of = {v} /\ Keeps(h, v, "nick") /\ Keeps(h, v, "avatar")
    BY <1>5 DEF Profiling
  <2>2. v = u /\ c \in {"nick", "avatar"}
    BY <1>2, <1>3, <1>5, <2>1 DEF Profiling
  <2>3. Keeps(h, u, c)
    BY <2>1, <2>2
  <2>4. CASE c \in DOMAIN req[h].ask
    BY <1>1, <1>2, <1>3, <2>2, <2>3, <2>4 DEF Keeps, Asked
  <2>5. CASE c \notin DOMAIN req[h].ask
    BY <1>3, <2>2, <2>3, <2>5, KindIs DEF Keeps
  <2> QED BY <2>4, <2>5
<1>6. CASE Changing(h)
  <2>1. PICK v \in User : /\ req[h].of = {v}
                          /\ "password" \in raced \/ req[h].old = row[v].password
    BY <1>6 DEF Changing
  <2>2. v = u /\ c = "password"
    BY <1>2, <1>3, <1>6, <2>1 DEF Changing
  <2>3. CASE "password" \in raced
    BY <2>2, <2>3, KindIs
  <2>4. CASE req[h].old = row[u].password
    BY <1>1, <1>2, <1>3, <1>6, <2>2, <2>4 DEF Changing, Asked
  <2> QED BY <2>1, <2>2, <2>3, <2>4
<1> QED BY <1>1, <1>4, <1>5, <1>6 DEF Shape

LEMMA StepAsked == UserInv /\ [Next]_uvars => ChangedAsAsked
<1> SUFFICES ASSUME UserInv, [Next]_uvars PROVE ChangedAsAsked
  OBVIOUS
<1>1. CASE row' = row
  BY <1>1 DEF ChangedAsAsked
<1>2. ASSUME NEW u \in User, row[u] = NoRow, NEW r, row' = [row EXCEPT ![u] = r]
      PROVE  ChangedAsAsked
  <2>1. row[u].role = "none" /\ DOMAIN row = User
    BY <1>2 DEF NoRow, Columns, UserInv
  <2> QED BY <1>2, <2>1 DEF ChangedAsAsked
<1>3. ASSUME NEW u \in User, Seed(u) \/ \E password \in 0..1 : Register(u, password)
      PROVE  ChangedAsAsked
  BY <1>2, <1>3 DEF Seed, Register
<1>4. ASSUME NEW h \in Handler, NEW u \in User, Request(h, u)
      PROVE  ChangedAsAsked
  BY <1>1, <1>4 DEF Request, LoginRead, Administer, UpdateProfile, ChangePassword
<1>5. ASSUME NEW h \in Handler, Step(h)
      PROVE  ChangedAsAsked
  <2>1. CASE LoginSign(h) \/ UpdateFails(h) \/ \E bad \in BOOLEAN : RevokeAccessTokens(h, bad)
    BY <1>1, <2>1 DEF LoginSign, UpdateFails, RevokeAccessTokens
  <2> QED BY <1>5, <2>1, UpdateAsked DEF Step
<1>6. CASE UNCHANGED uvars
  BY <1>1, <1>6 DEF uvars
<1> QED BY <1>3, <1>4, <1>5, <1>6 DEF Next

(* The invariant: requests of one kind about one user are noticed, and what *)
(* a request holds is what it was asked and what it has read.               *)
THEOREM UserInvariance == Spec => []UserInv
BY UserInit, UserStep, PTL DEF Spec

(* A column changes only to what a request asked for, a password only for   *)
(* one who gave the password of that moment, unless two requests of the     *)
(* same kind overlap.                                                       *)
THEOREM ColumnsAsAsked == Spec => OnlyAsked
<1>1. UserInv /\ [Next]_uvars => [ChangedAsAsked]_uvars
  BY StepAsked
<1>2. OnlyAsked <=> [][ChangedAsAsked]_uvars
  BY PTL DEF OnlyAsked, ChangedAsAsked
<1> QED BY <1>1, <1>2, UserInvariance, PTL DEF Spec

(***************************************************************************)
(* An administrator remains.                                               *)
(***************************************************************************)
Admin(u) == row[u].role = "admin" /\ row[u].status = "active"
Calm == "role" \notin raced /\ faults = 0
Revoked(u) == \E h \in Handler : At(h, "revoke") /\ req[h].kind = "role" /\ req[h].of = {u}

(* Who may act as an administrator is one, or is being stopped.             *)
Tokens == \A u \in User : "admin" \in token[u] => Admin(u) \/ Revoked(u)

SignOK(h) == At(h, "sign") /\ req[h].set.role = "admin" => Admin(Of(h))
Signs == \A h \in Handler : SignOK(h)

(* Of every change of a role or status somebody else is the author, who is  *)
(* an administrator; or it makes its author active.                         *)
AuthorOK(h) ==
    At(h, "update") /\ req[h].kind = "role" =>
        \E actor \in req[h].concerns \cap User :
            /\ Admin(actor)
            /\ actor = Of(h) => "role" \notin DOMAIN req[h].set /\ req[h].set["status"] = "active"
Authors == \A h \in Handler : AuthorOK(h)

AdminInv ==
    /\ faults \in Nat
    /\ Calm => Tokens /\ Signs /\ Authors /\ (seeded => \E u \in User : Admin(u))

LEMMA CalmBefore ==
    ASSUME UserInv, faults \in Nat, [Next]_uvars
    PROVE  faults' \in Nat /\ (Calm' => Calm)
<1>1. faults' = faults \/ faults' = faults + 1
  BY DEF Next, Register, Seed, Step, LoginSign, UpdateFails, Update, RevokeAccessTokens,
         Request, LoginRead, Administer, UpdateProfile, ChangePassword, Fault, uvars
<1>2. raced \subseteq raced'
  <2>1. \A h, who, r : Begins(h, who, r) => raced \subseteq raced'
    BY DEF Begins
  <2>2. ASSUME NEW h \in Handler, NEW u \in User, Request(h, u)
        PROVE  raced \subseteq raced'
    BY <2>1, <2>2 DEF Request, LoginRead, Administer, UpdateProfile, ChangePassword
  <2>3. ASSUME NEW h \in Handler, Step(h)
        PROVE  raced \subseteq raced'
    BY <2>3 DEF Step, LoginSign, UpdateFails, Update, RevokeAccessTokens
  <2> QED BY <2>2, <2>3 DEF Next, Register, Seed, uvars
<1> QED BY <1>1, <1>2 DEF Calm

(* A step of h by which nobody ceases to be an administrator.               *)
LEMMA AdminsStay ==
    ASSUME UserInv, Tokens, Signs, Authors, seeded => \E u \in User : Admin(u),
           NEW h \in Handler, OthersStay(h),
           \A u \in User : Admin(u) => Admin(u)',
           \A u \in User : "admin" \in token'[u] => "admin" \in token[u] \/ Admin(u),
           At(h, "revoke") /\ req[h].kind = "role" => "admin" \notin token'[Of(h)],
           seeded' = seeded, SignOK(h)', AuthorOK(h)'
    PROVE  Tokens' /\ Signs' /\ Authors' /\ (seeded' => \E u \in User : Admin(u)')
<1>1. ASSUME NEW g \in Handler \ {h}
      PROVE  SignOK(g)' /\ AuthorOK(g)'
  <2>1. req'[g] = req[g] /\ Of(g)' = Of(g) /\ Shape(g)
    BY DEF OthersStay, Of, UserInv
  <2>2. SignOK(g) /\ AuthorOK(g)
    BY DEF Signs, Authors
  <2>3. SignOK(g)'
    <3>1. At(g, "sign") => Of(g) \in User
      BY <2>1, OfIs DEF At
    <3> QED BY <2>1, <2>2, <3>1 DEF SignOK, At
  <2>4. AuthorOK(g)'
    BY <2>1, <2>2 DEF AuthorOK, At
  <2> QED BY <2>3, <2>4
<1>2. Signs' /\ Authors'
  BY <1>1 DEF Signs, Authors
<1>3. Tokens'
  <2> SUFFICES ASSUME NEW u \in User, "admin" \in token'[u], ~Admin(u)'
               PROVE  Revoked(u)'
    BY DEF Tokens
  <2>1. Revoked(u)
    BY DEF Tokens
  <2>2. PICK g \in Handler : At(g, "revoke") /\ req[g].kind = "role" /\ req[g].of = {u}
    BY <2>1 DEF Revoked
  <2>3. g # h
    BY <2>2 DEF Of
  <2> QED BY <2>2, <2>3 DEF Revoked, OthersStay, At
<1> QED BY <1>2, <1>3

LEMMA RequestAdmin ==
    ASSUME UserInv, AdminInv, Calm, Calm', NEW h \in Handler, NEW v \in User, Request(h, v)
    PROVE  Tokens' /\ Signs' /\ Authors' /\ (seeded' => \E u \in User : Admin(u)')
<1>1. /\ Tokens /\ Signs /\ Authors /\ (seeded => \E u \in User : Admin(u))
      /\ UNCHANGED <<row, token, seeded>> /\ At(h, "idle")
  BY DEF AdminInv, Request, LoginRead, Administer, UpdateProfile, ChangePassword, Begins
<1>2. \A u \in User : Admin(u) => Admin(u)'
  BY <1>1 DEF Admin
<1>3. ASSUME OthersStay(h), SignOK(h)', AuthorOK(h)'
      PROVE  Tokens' /\ Signs' /\ Authors' /\ (seeded' => \E u \in User : Admin(u)')
  BY <1>1, <1>2, <1>3, AdminsStay DEF At
<1>4. CASE LoginRead(h, v)
  <2> DEFINE r == [Idle EXCEPT !.at = "sign", !.kind = "role", !.of = {v},
                               !.set = [role |-> row[v].role]]
  <2>1. row[v].status = "active" /\ Begins(h, v, r)
    BY <1>4 DEF LoginRead
  <2>2. /\ DOMAIN r = Fields /\ r.at = "sign" /\ r.of = {v} /\ r.set = [role |-> row[v].role]
    BY FieldsIs DEF Idle
  <2> HIDE DEF r
  <2>3. /\ OthersStay(h) /\ req'[h].at = "sign" /\ req'[h].of = {v}
        /\ req'[h].set = [role |-> row[v].role]
    BY <2>1, <2>2, BeginsIs
  <2>4. Of(h)' = v
    BY <2>3 DEF Of
  <2>5. SignOK(h)' /\ AuthorOK(h)'
    BY <1>1, <2>1, <2>3, <2>4 DEF SignOK, AuthorOK, At, Admin
  <2> QED BY <1>3, <2>3, <2>5
<1>5. ASSUME NEW target \in User, NEW columns \in Changes, Administer(h, v, target, columns)
      PROVE  Tokens' /\ Signs' /\ Authors' /\ (seeded' => \E u \in User : Admin(u)')
  <2> DEFINE r == [Idle EXCEPT !.at = "update", !.kind = "role", !.of = {target},
                               !.ask = columns, !.set = columns]
  <2>1. Begins(h, v, r) /\ MayModify(v, target, columns) /\ "admin" \in token[v]
    BY <1>5 DEF Administer, RequireRole
  <2>2. /\ DOMAIN r = Fields /\ r.at = "update" /\ r.kind = "role" /\ r.of = {target}
        /\ r.set = columns
    BY FieldsIs DEF Idle
  <2> HIDE DEF r
  <2>3. /\ OthersStay(h) /\ req'[h].at = "update" /\ req'[h].of = {target}
        /\ req'[h].set = columns /\ req'[h].concerns = {target} \cup {v}
        /\ \A g \in Handler \ {h} :
              req[g].kind = "role" /\ req[g].concerns \cap ({target} \cup {v}) # {}
                 => "role" \in raced'
    BY <2>1, <2>2, BeginsIs
  <2>4. Of(h)' = target
    BY <2>3 DEF Of
  <2>5. Admin(v)
    <3> SUFFICES ASSUME Revoked(v) PROVE FALSE
      BY <1>1, <2>1 DEF Tokens
    <3>1. PICK g \in Handler : At(g, "revoke") /\ req[g].kind = "role" /\ req[g].of = {v}
      BY DEF Revoked
    <3>2. g # h /\ v \in req[g].concerns
      BY <1>1, <3>1 DEF At, UserInv, Shape, Revoking
    <3> QED BY <2>3, <3>1, <3>2 DEF Calm
  <2>6. v = target => DOMAIN columns = {"status"} /\ columns["status"] = "active"
    BY <2>1, ChangeIs DEF MayModify
  <2>7. SignOK(h)' /\ AuthorOK(h)'
    BY <1>2, <2>3, <2>4, <2>5, <2>6 DEF SignOK, AuthorOK, At
  <2> QED BY <1>3, <2>3, <2>7
<1>6. ASSUME NEW ask \in Asks, UpdateProfile(h, v, ask)
      PROVE  Tokens' /\ Signs' /\ Authors' /\ (seeded' => \E u \in User : Admin(u)')
  <2> DEFINE r == [Idle EXCEPT !.at = "update", !.kind = "profile", !.of = {v},
                               !.ask = ask, !.set = UpdateUserProfile(row[v], ask)]
  <2>1. Begins(h, v, r)
    BY <1>6 DEF UpdateProfile
  <2>2. DOMAIN r = Fields /\ r.at = "update" /\ r.kind = "profile"
    BY FieldsIs DEF Idle
  <2> HIDE DEF r
  <2>3. OthersStay(h) /\ req'[h].at = "update" /\ req'[h].kind = "profile"
    BY <2>1, <2>2, BeginsIs
  <2> QED BY <1>3, <2>3 DEF SignOK, AuthorOK, At
<1>7. ASSUME NEW old \in 1..2, NEW new \in 1..2, ChangePassword(h, v, old, new)
      PROVE  Tokens' /\ Signs' /\ Authors' /\ (seeded' => \E u \in User : Admin(u)')
  <2> DEFINE r == [Idle EXCEPT !.at = "update", !.kind = "password", !.of = {v},
                               !.ask = UpdateUserPassword(new),
                               !.set = UpdateUserPassword(new), !.old = old]
  <2>1. Begins(h, v, r)
    BY <1>7 DEF ChangePassword
  <2>2. DOMAIN r = Fields /\ r.at = "update" /\ r.kind = "password"
    BY FieldsIs DEF Idle
  <2> HIDE DEF r
  <2>3. OthersStay(h) /\ req'[h].at = "update" /\ req'[h].kind = "password"
    BY <2>1, <2>2, BeginsIs
  <2> QED BY <1>3, <2>3 DEF SignOK, AuthorOK, At
<1> QED BY <1>4, <1>5, <1>6, <1>7 DEF Request

LEMMA NewRowAdmin ==
    ASSUME UserInv, AdminInv, Calm, NEW v \in User, Seed(v) \/ \E p \in 0..1 : Register(v, p)
    PROVE  Tokens' /\ Signs' /\ Authors' /\ (seeded' => \E u \in User : Admin(u)')
<1>1. /\ Tokens /\ Signs /\ Authors /\ (seeded => \E u \in User : Admin(u))
      /\ UNCHANGED <<token, req>> /\ row \in [User -> Rows] /\ row[v].role = "none"
  BY DEF AdminInv, Seed, Register, NoRow, Columns, UserInv
<1>2. \A u \in User : u # v => row'[u] = row[u]
  BY <1>1 DEF Seed, Register
<1>3. \A u \in User : Admin(u) => Admin(u)'
  BY <1>1, <1>2 DEF Admin
<1>4. seeded' => \E u \in User : Admin(u)'
  <2>1. CASE Seed(v)
    BY <1>1, <2>1 DEF Seed, Admin, Columns
  <2>2. CASE \E p \in 0..1 : Register(v, p)
    BY <1>1, <1>3, <2>2 DEF Register
  <2> QED BY <2>1, <2>2
<1>5. \A g \in Handler : Of(g)' = Of(g)
  BY <1>1 DEF Of
<1>6. \A g \in Handler : At(g, "sign") => Of(g) \in User
  BY OfIs DEF UserInv, At
<1>7. Signs'
  BY <1>1, <1>3, <1>5, <1>6 DEF Signs, SignOK, At
<1>8. Authors'
  <2> SUFFICES ASSUME NEW g \in Handler PROVE AuthorOK(g)'
    BY DEF Authors
  <2>1. AuthorOK(g)
    BY <1>1 DEF Authors
  <2> QED BY <1>1, <1>3, <1>5, <2>1 DEF AuthorOK, At
<1>9. Tokens'
  BY <1>1, <1>3 DEF Tokens, Revoked, At
<1> QED BY <1>4, <1>7, <1>8, <1>9

LEMMA UpdateAdmin ==
    ASSUME UserInv, AdminInv, Calm, Calm', NEW h \in Handler, NEW lost \in BOOLEAN,
           Update(h, lost)
    PROVE  Tokens' /\ Signs' /\ Authors' /\ (seeded' => \E u \in User : Admin(u)')
<1>1. /\ Tokens /\ Signs /\ Authors /\ (seeded => \E u \in User : Admin(u))
      /\ UNCHANGED <<token, seeded>> /\ ~lost /\ row \in [User -> Rows]
  BY DEF AdminInv, Update, Calm, Fault, UserInv
<1>2. /\ OthersStay(h) /\ At(h, "update") /\ Shape(h)
      /\ req'[h] = Idle \/ (req'[h].at = "revoke" /\ req'[h].kind = req[h].kind
                             /\ req'[h].of = req[h].of)
      /\ Revokes(h) /\ row[Of(h)].role # "none" => req'[h].at = "revoke"
  BY <1>1, UpdateGoes
<1>3. /\ Of(h) \in User /\ req[h].of = {Of(h)} /\ Of(h) \in req[h].concerns
      /\ \/ req[h].kind = "role" /\ DOMAIN req[h].set = {"role"}
         \/ req[h].kind = "role" /\ DOMAIN req[h].set = {"status"}
         \/ req[h].kind = "profile" /\ DOMAIN req[h].set = {"nick", "avatar"}
         \/ req[h].kind = "password" /\ DOMAIN req[h].set = {"password"}
      /\ "status" \in DOMAIN req[h].set => req[h].set["status"] \in {"active", "disabled"}
  BY <1>2, SetIs
<1>4. /\ \A u \in User : u # Of(h) => row'[u] = row[u]
      /\ row[Of(h)].role = "none" => row' = row
      /\ row[Of(h)].role # "none" =>
            \A c \in DOMAIN Columns :
               row'[Of(h)][c] = IF c \in DOMAIN req[h].set THEN req[h].set[c]
                                                         ELSE row[Of(h)][c]
  BY UpdateIs
<1>5. SignOK(h)' /\ AuthorOK(h)'
  BY <1>2 DEF SignOK, AuthorOK, At, Idle
<1>6. CASE \A u \in User : Admin(u) => Admin(u)'
  BY <1>1, <1>2, <1>5, <1>6, AdminsStay DEF At
<1>7. CASE ~\A u \in User : Admin(u) => Admin(u)'
  <2>0. PICK t \in User : t = Of(h)
    BY <1>3
  <2>1. Admin(t) /\ ~Admin(t)' /\ \A u \in User : u # t /\ Admin(u) => Admin(u)'
    BY <1>4, <1>7, <2>0 DEF Admin
  <2>2. row[t].role # "none"
    BY <2>1 DEF Admin
  <2>3. req[h].kind = "role" /\ ("role" \in DOMAIN req[h].set \/ req[h].set["status"] # "active")
    <3>1. row[t]["role"] = "admin" /\ row[t]["status"] = "active"
      BY <2>1 DEF Admin
    <3>2. row'[t]["role"] # "admin" \/ row'[t]["status"] # "active"
      BY <2>1 DEF Admin
    <3>3. /\ row'[t]["role"] = IF "role" \in DOMAIN req[h].set THEN req[h].set["role"]
                                                               ELSE row[t]["role"]
          /\ row'[t]["status"] = IF "status" \in DOMAIN req[h].set THEN req[h].set["status"]
                                                                   ELSE row[t]["status"]
      BY <1>4, <2>0, <2>2, ColumnNames
    <3> QED BY <1>3, <3>1, <3>2, <3>3
  <2>4. req'[h].at = "revoke" /\ req'[h].kind = "role" /\ req'[h].of = {t}
    BY <1>2, <1>3, <2>0, <2>2, <2>3 DEF Revokes, Idle
  <2>5. \A g \in Handler \ {h} :
           ~(~At(g, "idle") /\ req[g].kind = "role" /\ t \in req[g].concerns)
    BY <1>2, <2>0, <2>3, BothUpdate DEF Calm
  <2>6. ASSUME NEW g \in Handler \ {h}
        PROVE  SignOK(g)' /\ AuthorOK(g)'
    <3>1. req'[g] = req[g] /\ Of(g)' = Of(g) /\ Shape(g) /\ SignOK(g) /\ AuthorOK(g)
      BY <1>1, <1>2 DEF OthersStay, Of, UserInv, Signs, Authors
    <3>2. SignOK(g)'
      <4>1. At(g, "sign") => /\ Of(g) \in User /\ Of(g) \in req[g].concerns
                             /\ req[g].kind = "role" /\ ~At(g, "idle")
        BY <3>1, OfIs DEF At, Shape, Signing
      <4> QED BY <2>1, <2>5, <3>1, <4>1 DEF SignOK, At
    <3>3. AuthorOK(g)'
      <4>1. At(g, "update") => ~At(g, "idle")
        BY DEF At
      <4> QED BY <2>1, <2>5, <3>1, <4>1 DEF AuthorOK, At
    <3> QED BY <3>2, <3>3
  <2>7. Signs' /\ Authors'
    BY <1>5, <2>6 DEF Signs, Authors
  <2>8. Tokens'
    <3> SUFFICES ASSUME NEW u \in User, "admin" \in token'[u], ~Admin(u)'
                 PROVE  Revoked(u)'
      BY DEF Tokens
    <3>1. CASE u = t
      BY <2>4, <3>1 DEF Revoked, At
    <3>2. CASE u # t
      <4>1. Revoked(u)
        BY <1>1, <2>1, <3>2 DEF Tokens
      <4>2. PICK g \in Handler : At(g, "revoke") /\ req[g].kind = "role" /\ req[g].of = {u}
        BY <4>1 DEF Revoked
      <4>3. g # h
        BY <1>2, <4>2 DEF At
      <4> QED BY <1>2, <4>2, <4>3 DEF Revoked, OthersStay, At
    <3> QED BY <3>1, <3>2
  <2>9. \E u \in User : Admin(u)'
    <3>1. AuthorOK(h)
      BY <1>1 DEF Authors
    <3>2. PICK actor \in User : Admin(actor) /\ actor # t
      BY <1>2, <2>0, <2>3, <3>1 DEF AuthorOK
    <3> QED BY <2>1, <3>2
  <2> QED BY <2>7, <2>8, <2>9
<1> QED BY <1>6, <1>7

LEMMA StepAdmin ==
    ASSUME UserInv, AdminInv, Calm, Calm', NEW h \in Handler, Step(h)
    PROVE  Tokens' /\ Signs' /\ Authors' /\ (seeded' => \E u \in User : Admin(u)')
<1>1. /\ Tokens /\ Signs /\ Authors /\ (seeded => \E u \in User : Admin(u)) /\ Shape(h)
      /\ token \in [User -> SUBSET {"user", "admin"}]
  BY DEF AdminInv, UserInv
<1>2. CASE LoginSign(h)
  <2>1. /\ UNCHANGED <<row, seeded>> /\ Ends(h) /\ At(h, "sign")
        /\ token' = [token EXCEPT ![Of(h)] = @ \cup {req[h].set.role}]
    BY <1>2 DEF LoginSign
  <2>2. OthersStay(h) /\ req'[h] = Idle
    BY <2>1, EndsIs
  <2>3. \A u \in User : Admin(u) => Admin(u)'
    BY <2>1 DEF Admin
  <2>4. \A u \in User : "admin" \in token'[u] => "admin" \in token[u] \/ Admin(u)
    BY <1>1, <2>1 DEF Signs, SignOK
  <2>5. SignOK(h)' /\ AuthorOK(h)'
    BY <2>2 DEF SignOK, AuthorOK, At, Idle
  <2> QED BY <1>1, <2>1, <2>2, <2>3, <2>4, <2>5, AdminsStay DEF At
<1>3. CASE UpdateFails(h)
  BY <1>3 DEF UpdateFails, Fault, Calm, AdminInv
<1>4. ASSUME NEW fails \in BOOLEAN, RevokeAccessTokens(h, fails)
      PROVE  Tokens' /\ Signs' /\ Authors' /\ (seeded' => \E u \in User : Admin(u)')
  <2>1. /\ UNCHANGED <<row, seeded>> /\ Ends(h) /\ At(h, "revoke")
        /\ token' = [token EXCEPT ![Of(h)] = {}]
    BY <1>4 DEF RevokeAccessTokens, Fault, Calm, AdminInv
  <2>2. OthersStay(h) /\ req'[h] = Idle /\ Of(h) \in User
    BY <1>1, <2>1, EndsIs, OfIs DEF At
  <2>3. \A u \in User : Admin(u) => Admin(u)'
    BY <2>1 DEF Admin
  <2>4. /\ \A u \in User : "admin" \in token'[u] => "admin" \in token[u] \/ Admin(u)
        /\ "admin" \notin token'[Of(h)]
    BY <1>1, <2>1, <2>2
  <2>5. SignOK(h)' /\ AuthorOK(h)'
    BY <2>2 DEF SignOK, AuthorOK, At, Idle
  <2> QED BY <1>1, <2>1, <2>2, <2>3, <2>4, <2>5, AdminsStay
<1> QED BY <1>2, <1>3, <1>4, UpdateAdmin DEF Step

LEMMA AdminStep == UserInv /\ AdminInv /\ [Next]_uvars => AdminInv'
<1> SUFFICES ASSUME UserInv, AdminInv, [Next]_uvars PROVE AdminInv'
  OBVIOUS
<1>1. faults' \in Nat /\ (Calm' => Calm)
  BY CalmBefore DEF AdminInv
<1> SUFFICES ASSUME Calm, Calm'
             PROVE  Tokens' /\ Signs' /\ Authors' /\ (seeded' => \E u \in User : Admin(u)')
  BY <1>1 DEF AdminInv
<1>2. CASE UNCHANGED uvars
  <2>1. UNCHANGED <<row, token, req, seeded>>
    BY <1>2 DEF uvars
  <2>2. \A g \in Handler : Of(g)' = Of(g)
    BY <2>1 DEF Of
  <2>3. Signs'
    BY <2>1, <2>2 DEF AdminInv, Signs, SignOK, At, Admin
  <2>4. Authors'
    BY <2>1, <2>2 DEF AdminInv, Authors, AuthorOK, At, Admin
  <2>5. Tokens' /\ (seeded' => \E u \in User : Admin(u)')
    BY <2>1 DEF AdminInv, Tokens, Revoked, At, Admin
  <2> QED BY <2>3, <2>4, <2>5
<1>3. ASSUME NEW u \in User, Seed(u) \/ \E password \in 0..1 : Register(u, password)
      PROVE  Tokens' /\ Signs' /\ Authors' /\ (seeded' => \E v \in User : Admin(v)')
  BY <1>3, NewRowAdmin
<1>4. ASSUME NEW h \in Handler, Step(h)
      PROVE  Tokens' /\ Signs' /\ Authors' /\ (seeded' => \E v \in User : Admin(v)')
  BY <1>4, StepAdmin
<1>5. ASSUME NEW h \in Handler, NEW u \in User, Request(h, u)
      PROVE  Tokens' /\ Signs' /\ Authors' /\ (seeded' => \E v \in User : Admin(v)')
  BY <1>5, RequestAdmin
<1> QED BY <1>2, <1>3, <1>4, <1>5 DEF Next

LEMMA AdminInit == Init => AdminInv
<1> SUFFICES ASSUME Init PROVE AdminInv
  OBVIOUS
<1>1. \A h \in Handler : req[h].at = "idle"
  BY DEF Init, Idle
<1> QED BY <1>1 DEF Init, AdminInv, Tokens, Signs, SignOK, Authors, AuthorOK, At

(* Once seeded, an active administrator remains, unless two requests that   *)
(* concern one user's role overlap or a command fails.                      *)
THEOREM AnAdminRemains == Spec => []AdminRemains
<1>1. UserInv /\ AdminInv => AdminRemains
  BY DEF AdminInv, AdminRemains, Calm, Admin
<1> QED BY <1>1, UserInit, UserStep, AdminInit, AdminStep, PTL DEF Spec

==================================================================================
