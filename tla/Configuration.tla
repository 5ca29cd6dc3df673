----------------------------- MODULE Configuration -----------------------------
(***************************************************************************)
(* internal/config/config.go with config/*.yaml, and buildCodeSender of    *)
(* internal/app/app.go: the layers of the configuration, what Validate     *)
(* lets pass, and the route of a verification code that follows from it.   *)
(*                                                                         *)
(* A layer is a function from the keys it sets to their values. A DSN is   *)
(* its sslmode ("" if there is no DSN, "unstated" if it names none); ids   *)
(* stands for the client ids of the OAuth platforms, which the shipped     *)
(* files all leave empty.                                                  *)
(***************************************************************************)
EXTENDS Naturals, Sequences

Base ==
    [env |-> "development", url |-> "", ssl |-> "disable", secret |-> "default",
     mock |-> TRUE, oauthDev |-> TRUE, smtp |-> FALSE, ids |-> FALSE,
     metrics |-> TRUE, token |-> FALSE, origins |-> TRUE]

(* {env}.yaml; an environment without a file of its own adds nothing.       *)
EnvFile(env) ==
    CASE env = "development" -> [env |-> "development"]
      [] env = "production" ->
            [env |-> "production", ssl |-> "require", mock |-> FALSE,
             oauthDev |-> FALSE, ids |-> FALSE, metrics |-> TRUE,
             token |-> FALSE, origins |-> FALSE]
      [] OTHER -> [none \in {} |-> ""]

Merge(low, high) ==
    [k \in DOMAIN low \cup DOMAIN high |-> IF k \in DOMAIN high THEN high[k] ELSE low[k]]

(* What the environment of a process may set: any of these keys, each to    *)
(* any of its values or not at all.                                         *)
Maybe(values) == {{}} \cup {{v} : v \in values}
Settings ==
    [env : Maybe({"production", "development", "staging"}),
     url : Maybe({"require", "disable", "unstated"}), secret : Maybe({"short", "strong"}),
     mock : Maybe(BOOLEAN), oauthDev : Maybe(BOOLEAN), metrics : Maybe(BOOLEAN),
     smtp : Maybe({TRUE}), ids : Maybe({TRUE}), token : Maybe({TRUE}), origins : Maybe({TRUE})]
LayerOf(s) == [k \in {j \in DOMAIN s : s[j] # {}} |-> CHOOSE v \in s[k] : TRUE]
Environs == {LayerOf(s) : s \in Settings}

(* local.yaml may set any of them too. Its env comes too late to pick a     *)
(* file; its other keys could be set in the environment to the same effect. *)
Locals == {LayerOf([env |-> e]) : e \in Maybe({"production", "development", "staging"})}

(* The environment file is picked before local.yaml is read.                *)
LoadViper(local, environ) ==
    LET picked == IF "env" \in DOMAIN environ THEN environ.env ELSE Base.env
    IN  Merge(Merge(Merge(Base, EnvFile(picked)), local), environ)

(* A DSN wins over the single settings, ssl_mode included.                  *)
BuildDatabaseURL(v) == v.ssl
Load(local, environ) ==
    LET v == LoadViper(local, environ)
    IN  [v EXCEPT !.url = IF @ # "" THEN @ ELSE BuildDatabaseURL(v)]

IsProd(c) == c.env = "production"

DatabaseSSLMode(dsn) == IF dsn = "unstated" THEN "" ELSE dsn

Valid(c) ==
    /\ IsProd(c) =>
        /\ c.secret \notin {"default", "short"}
        /\ ~c.mock /\ ~c.oauthDev /\ c.ids
        /\ c.metrics => c.token
        /\ DatabaseSSLMode(c.url) \in {"require", "verify-ca", "verify-full"}
    /\ c.origins

(* buildCodeSender: without a mail server production does not start.        *)
HasSender(c) == c.smtp \/ c.mock \/ ~IsProd(c)

(* NewRouter: the providers of a channel in the order buildCodeSender gives  *)
(* them. SMTP sends only e-mail, the mock takes every channel.              *)
Route(c, channel) ==
    (IF c.smtp /\ channel = "email" THEN <<"smtp">> ELSE <<>>)
        \o (IF c.mock \/ ~c.smtp THEN <<"mock">> ELSE <<>>)

(* The configurations a server can run with, of those that differ in these  *)
(* keys.                                                                    *)
Loaded == {Load(l, e) : l \in Locals, e \in Environs}
Running == {c \in Loaded : Valid(c) /\ HasSender(c)}
==============================================================================
