# Studiory: specification of the backend

TLA+ modules for the parts of `src/backend` where requests of several clients, several server
instances, Redis, PostgreSQL and the clock meet: sessions, refresh tokens, the revocation of
access after a change of an account, the lock after failed logins, verification codes, the
identities of users, their columns, lists in pages, and the start and stop of a server. TLC checks
the modules on small instances, TLAPS proves the main properties for every value of the
constants. `PROJECT.json` lists the runs, the source lines behind every definition, the hazards,
the findings and the theorems.

## 1. The system

| Component | State it keeps | Operations | Interacts with | What is hard | Correct when |
|---|---|---|---|---|---|
| session store (`internal/session`) | Redis: `session:{sid}`, `sessions:uid:{uid}`, `active_session:uid:{uid}`, all with a TTL | Register, Validate, Revoke, RevokeAll | called by login, refresh, logout, middleware, account changes | each call is several Redis commands; calls of one user interleave, commands fail alone | nothing ends unasked; what was reported ended stays so; one device in single device mode |
| refresh tokens (`service/auth/token.go`, `auth/token.go`) | Redis: `blacklist:refresh:{hash}`; clients hold tokens | issue a pair, Refresh, Logout | session store, users table | replay and concurrent Refresh; whole-second claims; TTLs | a token is used once, never after logout; rotation hands out a token that works |
| account changes (`service/admin`, `service/user`, `cmd/seed`) | users row; Redis: `revoke:uid:{uid}` | UpdateRole, SetStatus, ChangePassword, UpdateProfile, the seeded administrator | session store; errors after the UPDATE are only logged | a login or refresh that read the old row; two changes at once; half a revocation; two administrators who act on each other | old tokens die when the change returns and stay dead; only what was asked for changes; an administrator remains |
| Auth middleware (`http/middleware/auth.go`) | none | per request: parse, GET revoke key, Validate | all of the above | two reads at different times | see above |
| login (`service/auth/login.go`) | none | by password, by code, by OAuth | brute force lock, codes, users, session store | stale row | see account changes |
| brute force lock (`service/auth/brute_force.go`) | Redis: `{prefix}:login:fail:{hash}`, `{prefix}:login:lock:{hash}` | check, count, clear | login | check and count are apart | a bounded number of guesses per window |
| verification codes (`service/auth/sendcode.go`, `sender/`) | Redis: `{prefix}:{type}:{target}`, `{prefix}:{type}:cooldown:{target}` | SendCode, verify | the providers of a channel, tried in turn | a call that fails after its cooldown; a provider that delivers and reports an error; a server that dies after the cooldown | a code is used once, a code on its way is valid, one is sent per cooldown, a failure gives it back |
| registration, OAuth login (`service/auth/register.go`, `login.go`, `oauth/`) | users, user_oauth | Register, Router.Verify, get-or-create | UNIQUE constraints, a transaction | the check is apart from the INSERT; two first logins at once | one user per identity, no user without one |
| Apple's keys (`oauth/apple.go`) | in memory: keys, time of the last refresh | key lookup, refresh | Apple's key service | single flight under the first caller's context, throttle read before the refresh | Apple is asked rarely; nobody gets in by it |
| todos (`service/todo`), users list, pagination (`pkg/pagination`) | todos, users tables | CRUD, pages | PostgreSQL | total and rows are two statements, pages several requests; overflow of the offset | a walk through the pages sees every row |
| life cycle (`main.go`, `internal/app`, `internal/store`) | the pool, the Redis client, the listener | start, serve, shut down | everything | shutdown with requests in flight; waits without a bound | what was accepted is answered; the process ends |
| configuration (`internal/config`) | none | defaults, two files and the environment, Validate | decides what the others do | four layers, one of them picked by another | no development switch is on in production |
| HTTP layer, other middleware, metrics, contract tools | none of interest | routing, headers, limits | everything | | |

`PROJECT.json` names the files of each component and says what is modelled of it. Calls go from
the HTTP handlers to the services, from the services to the session store, Redis and the
repositories. Nothing is shared in memory between requests except the Apple key cache: what
requests share is Redis and PostgreSQL, so an interleaving of requests is one of Redis commands
and SQL statements, on one server or several.

## 2. The modules

```text
            SessionRegistry            what a session store promises
             /     |      \
   implements    extends   extends
       /           |         \
SessionStore  TokenRotation  AccountRevocation      LoginLock      UserAccounts

 IdentityMap       AppleKeys    Configuration    Pages
         \             \        /    |      \     /
      implements     extends   / extends   extends
           \             \    /      |        \ /
            `----------- Identities  |       Server
                              VerificationCode
```

`X_proofs.tla` proves theorems about `X.tla`; `MCX.tla` adds the symmetry sets for TLC; the
`.cfg` files are the runs.

**SessionRegistry** (abstract). Three sets: `granted` (Register returned nil), `doomed` (somebody
asked for the end, or the lifetime is over), `live` (Validate accepts). A session is granted
once, may end only when doomed, and never comes back. A doomed session need not end: the call may
have failed.

**SessionStore** models `internal/session/session.go`, one user (keys never mix users), one
action per Redis command.

| Code | Model |
|---|---|
| `session:{sid}` and its TTL | `sessTTL[s]`, 0 = no key |
| `sessions:uid:{uid}` | `members`, `setTTL`; 0 with members = a set without expiry |
| `active_session:uid:{uid}` | `active`, `activeTTL` |
| `multiDevice`, `failOpen` of `Store` | variables fixed in `Init`, so one run covers all four configurations |
| Register | `RegisterStart`, in single device mode `RevokeAll(s)`, `RegisterSet`, then `RegisterSAdd`, `RegisterExpire` or `RegisterActive` |
| Revoke, its `errs` | `RevokeStart`, `RevokeDel`, `RevokeSRem` or `RevokeGetActive`, `RevokeDelActive`; `revokeErr` |
| RevokeAll, its `ids`, `errs` | `AllSMembers`, `AllDelSession` (once per id), `AllDelSet`, or `AllGetActive`, `AllDelActive`; `ids`, `todo`, `allErr` |
| Validate, `redisError` | `ValidateStart`, `ValidateTracked`, `ValidateFallback`, `ValidateEnd`; `check` |
| a server dies | `Abandon...` |
| go-redis repeats a command | `Resend...` |

`ended`, `revoked`, `dropped`, `orphaned`, `overlap` are history variables for the properties.
`overlap` notes the first moment at which calls were not `Apart`: something overlapped a RevokeAll
(which in single device mode is a part of every login, so there calls came one at a time until
then), or time passed in the middle of a call. The properties that need calls to be apart promise
something until that moment; nothing keeps the calls of the model apart. The DEL of the
ids is a loop over the reply of SMEMBERS; its order is arbitrary. The last DEL of single device
RevokeAll names two keys and is one command, hence one step.

**TokenRotation** models `Refresh`, `Logout` and `issueResult` of `service/auth/token.go` with
`signToken` of `auth/token.go`. A refresh token is its claims: session and second of issue. There
is no unique id in the claims, so two tokens of one session signed in one second are the same
string, in the model the same record. `black[t]` is the second at which `blacklist:refresh:{hash}`
expires. `Refresh` is parse, look up, Validate, SETNX, sign; `Logout` is SET, then Revoke unless
the token could not be parsed, with the errors joined. Of the session layer it uses only `Grant`
and `Doom`. `RefreshTTL` (configured) and `BlacklistTTL` (a constant of the code) are independent,
and any time may pass between the parsing of a token (`since`) and its SETNX. History: `spent[t]`
and `loggedOut[t]` are when the entry of the last successful exchange or Logout of `t` ends,
`replayed` the sessions one of whose tokens was exchanged a second time.

**AccountRevocation** models `ChangePassword`, `UpdateRole` and `SetStatus` (`ChangeRow`,
`RevokeAllStart`, `RevokeAllEnd`, `SetKey`) against `Login` and `Refresh` of the same user and the
Auth middleware (`Admitted`, `Revoked`). The three changes are the same steps after the UPDATE;
enabling an account stops there. `SetKey` carries the second read before the SET is executed.
`RevokeAllEnd` ends every session granted before `RevokeAllStart`, which is what `SessionStore`
does when nothing overlaps it; after a failed command or an earlier race it may miss some (`missed`).

**LoginLock** models `service/auth/brute_force.go` and the requests around it: login by password
or code and registration by code, which share one order: look at the lock (`CheckLock`), guess
(`Guess`: wrong, right, or none of both when the database fails or the user is missing), then
`RecordFail` or `ClearFail`. It is about one account id (phone, e-mail or account name, hashed
into the keys). `fails` with `failTTL` and `lockTTL` are the two keys with the ticks they have
left; `FailScript` is the Lua script, one step. `wrong` is a history variable: the wrong guesses
since the counter last began from zero, those on their way to it included. A request that has
ended begins anew, so `Request` bounds how many guess at once, not how many guess. The module is
apart from the others: the lock decides only whether a `LoginRead` happens at all.

**Configuration** models `config.go`, the shipped yaml files and `buildCodeSender`. A layer is a
function from keys to values and `Merge` puts one over another, in the order of `LoadViper`: the
defaults, `{env}.yaml`, `local.yaml`, the environment. `env` is read before `local.yaml`, so only
the process environment can pick the file. The environment may set any of the keys of `Settings`,
alone or together. `Valid` is `Validate`; `Running` is what passes it and `buildCodeSender`, and
the modules above start from it: `Route` in VerificationCode, `oauthDev` and `ids` in Identities;
Server starts from all and lets `LoadConfig` and `BuildCodeSender` refuse. Only keys that decide
something there are in it, and of each only the values `Validate` tells apart; a `local.yaml` sets
`env` only, since its other keys could as well be set in the environment.

**VerificationCode** models `sendcode.go` and `sender/` for one target. `SendCode` is `Claim`
(SETNX of the cooldown), `Generate`, `StoreCode`, `Send` once per provider of the route, and
`RollBack`, which deletes the cooldown only ("unclaim") or the code too ("undo"). A provider
delivers, fails, or delivers and reports an error. Codes are numbered by the call that made them;
`VerifyCode` is the script that compares and deletes, run for any code that somebody received, or
for any code at all in mock mode, where they are all the same. `left` is what a call has left of
its own cooldown: the code has no such variable, and cannot notice that it is zero. `late` is a
history variable: a call wrote or deleted at zero, or a deletion was executed twice.

**AppleKeys** models the key cache of `oauth/apple.go`: `KeyLookup` under the read lock with the
throttle of that moment, `Join` (singleflight: the first one leads), `AskApple`, then `Refreshed`
or `RefreshFails` for all that wait at once, and `Reread`. A key is the number of its rotation,
`Rotate` is Apple's. The cache holds one key, the last published one; the code keeps the map of
all that Apple publishes at a time.

**Identities** (extends AppleKeys, implements **IdentityMap**) models `register.go`, the OAuth
login of `login.go`, `oauth/router.go` and the tables behind `repo/pg`: one action per statement.
`owner` holds the unique columns of users and the rows of user_oauth; a transaction is invisible
until `Commit`, and the INSERT of a binding another transaction has inserted waits (`Locked`).
`Conflict` is SQLSTATE 23505. `OAuthTx` is whether the service was given a transaction runner;
without it the user row is committed first. A registration by code is the same as one by password
here; the code and the lock before it are VerificationCode and LoginLock. `IdentityMap` knows only
who owns what: a user who has nothing yet may claim free identities, at once and for good.

**UserAccounts** models the columns: `Register` and `Seed` make rows, `LoginRead` and `LoginSign`
put the role that was read into a token, `Administer` is UpdateRole or SetStatus behind
`RequireRole`, and `UpdateProfile` and `ChangePassword` are the user's own. Each reads and decides
in its first step and writes in `Update`; `UpdateUserProfile` writes both columns, the one not
asked for as it was read. `RevokeAccessTokens` is one step here, AccountRevocation has its
inside. `raced` notes the kinds of requests of which two that concern one user were in flight at
once.

**Pages** models `pagination.go` and the lists it serves, the todos of a user and the users of a
status, as sets of rows ordered by `created_at`: `ParseQuery`, `Offset` in Go's wrapping int,
`ClampToInt32`, COUNT and SELECT. **Server** (extends Pages and Configuration) models `main.go`
and `internal/app`: start and its three points of failure, `Signal`, `Stop`, `Drained` or the
deadline, `ClosePool`, `PoolClosed`, `CloseRedis`, `Exit`; beside it requests that pass the
middleware (Redis), take a connection of the pool, run their statements and reply. One client
walks through a list page by page, as far as the total says there are more; the other inserts,
deletes, updates, reads, or does something slow outside (mail, OAuth).

### Failures

A Redis command is answered, *refused* (error, no effect), or *unanswered* (error, executed).
`internal/store/redis.go` builds the client with its defaults, so a command whose answer is late
is also sent again: it is executed and the handler is still in front of it (`Resend`). A handler
may disappear between two commands (`Abandon`). `MaxFaults` bounds all of these together. Left
out: a command of a connection already given up that Redis executes after the handler has gone on.
For PostgreSQL a statement or COMMIT is executed or not, and its answer may be lost. Providers and
platforms fail at will (`Send`, `RefreshFails`), rotations of Apple's key too.

## 3. Runs

| Run | Bounds | Shows |
|---|---|---|
| session_store | 2 sessions, 1 RevokeAll caller, TTL 2, 1 fault, symmetry | `RevokedStaysDead`, `LoginSurvives`, `NoLateAccept`, `NoFalseReject`; `OneWayLife`: the store implements SessionRegistry; until calls overlap a RevokeAll: `OneDevice`, `EverySessionTracked`, `RevokeAllLeavesNone`; `OnlyLoginsRenew` |
| single_device_race | 2 sessions, no fault | counterexample to `SingleDevice` without "one call at a time" |
| token_rotation | 1 session, 2 requests, both TTLs 2 (equal, as with the defaults), 3 seconds, 1 fault, symmetry | `OneUsable`, `SingleUse`, `NoRefreshAfterLogout`, `RotationWorks` |
| same_second | as above, 4 seconds, no fault | counterexample to `EveryRotationWorks` |
| token_replay | as above, refresh TTL 3 and blacklist TTL 2, no fault | counterexample to `UsedOnce`: an exchanged token outlives its entry |
| account_revocation | 1 session, 2 changes, 2 roles, access TTL 2, lag 1, 3 seconds, 2 tokens, 1 fault | `DisabledFadesOut`, `OldTokensDie`, `OnlyLaterSessions`, `NoComeback` |
| role_stale | 1 session, 1 change, no fault | counterexample to `RoleTakesEffect` |
| login_lock | 3 requests at once, any number one after another, limit 5 as in the code, window 2, lock 3, 2 faults | `GuessBound`, `FreshStart`, `LockDeserved`; liveness `LockLapses` |
| codes | 2 SendCode calls at once, 3 that win the cooldown, cooldown 2, expiry 3, 2 faults, every configuration that starts, both channels | `CodeOnce`, `LiveCode`, `OnePerCooldown`, `RetryAfterFailure` |
| identities | 2 requests at once, any number one after another, 2 INSERTs of users, 2 keys of Apple, interval 1, 1 fault, with the transaction | `OneOwner`: Identities implements IdentityMap; `GetsOwner`, `NoOrphan`, `FewRefreshes` |
| accounts | 2 users, 2 requests at once, 6 in all, 1 fault, symmetry | `AdminRemains`, `OnlyAsked` |
| server | 3 rows in pages of 1 (2 asked for), int up to 31, int32 up to 7, 1 connection, grace 1, 2 requests beside the walk, 1 fault | `GracefulStop`, `WalkComplete`; liveness `ExitComes` |

Why these bounds are enough to be interesting. Two sessions and a RevokeAll caller give every pair
of calls of the store at once: two logins, login and logout, logout and revoke-all, each with a
Validate in flight; in single device mode the logins bring RevokeAll calls of their own. A TTL of
two lets a key expire before, between and after the commands of a call. One fault is one lost
command anywhere; the theorems cover any number. Until `overlap` is set, in single device mode a
login, a logout and a revoke-all follow one another in any order; in multi device mode the two
logins and their logouts overlap in every way. That time passes in the middle of a call sets it too: a
call is short and a TTL seven days by default, but a set that lapsed between SADD and EXPIRE would
hide the session by itself. Two sessions are enough for one login to renew the other's set. In
token_rotation two requests may be two Refreshes, two Logouts or one of each, may start again after
they end and may be parsed before any tick and act after it; the clock passes the end of the first
tokens and of their blacklist entries, so that a call parsed in time can come to its SETNX when
the entry has gone. token_replay adds the longer TTL, where no such delay is needed; the theorems
hold for every pair of TTLs. In account_revocation two changes of
any kinds overlap each other in any order, with one login or refresh of the same session; a token
can expire and a revoke key lapse within the three seconds. In login_lock three requests pass the check
together and record after the lock has begun, the counter ends under a pending failure, and the
lock (3) outlasts the counter (2) as 15 minutes outlast 10. In codes a second call
can win the cooldown while the first is still sending, a third after that; the code can outlive
two cooldowns or expire under a call, and two faults are a lost command and a dead handler of one
history. In identities the two requests are any two of registration (by phone, e-mail, both or
neither) and OAuth login (genuine, forged, bare; key known, rotated, unknown), and begin anew, so
that they meet what earlier ones left. In accounts six requests make two administrators, let each
act on the other, log them in again and change the columns of both. In server three rows make
three pages, with one inserted or removed between any two statements; a connection is always
somebody's, and the grace period can end before, in or after every step of a handler. The page
bounds keep the shape of the code's: pages are smaller than asked for, and int is wider than
int32. The numbers of sessions, requests, users and changes are free in the proofs.

Deadlock is not checked where an instance comes to its end: in the two runs of AccountRevocation
the clock and the number of changes are bounded, in codes, identities and accounts the number of
calls, INSERTs or requests; a server exits. The seconds of `TokenRotation` end too, but a request
can always begin (and in `Login` a session is never exhausted before one has a token).

**Fairness** is assumed where a property needs it. `LSpec` assumes only that time passes, for `LockLapses`;
nothing is assumed of the requests. `Spec` of Server assumes that the main goroutine is
scheduled, that it takes a signal that has come, that time passes during Shutdown, and that
PostgreSQL ends every query; nothing of requests between two queries, of Redis or of calls that
leave the process, and nobody has to send a signal. The runs with a liveness property use no
symmetry.

## 4. What the checks show

* Multi device mode does what it says in every interleaving, with failures: a session reported as
  ended stays ended, an untouched login survives whatever else the user's devices do.
* Single device mode holds only for calls that do not overlap. Two logins at once stay valid
  together (run single_device_race; `docs/session.md:20` and the package comment say otherwise).
  A session lost to the pointer in this way is accepted by the fallback GET until its TTL ends
  and is not found by RevokeAll. The same happens in multi device mode to a login whose SADD falls
  between RevokeAll's SMEMBERS and its DEL of the set. No other overlap does this in multi device
  mode: as long as nothing overlaps a RevokeAll, every valid session is in the set and a
  RevokeAll that returns nil leaves none (`AllSessionsTracked`, `RevokeAllEmpties`), unless a DEL
  of a session key failed by itself (`orphaned`).
* In single device mode RevokeAll and Revoke drop an error of `GET active_session`
  (`session.go:150`, `:186`) and can return nil with the session valid, although their comments
  (`session.go:131`, `:161`) speak of all errors and `docs/architecture.md:165` says that a failed
  logout is reported. `RevokedStaysDead` leaves out the sessions this happened to (`dropped`).
* In multi device mode a session does not end with its own key. Each later login of the user runs
  EXPIRE on the set with all its members (`session.go:71`), and Validate accepts a member
  (`session.go:96`), so a session lasts until the refresh TTL after the user's last login, where
  `docs/redis-keys.md:40` gives it the refresh TTL as its own. What it can be used for is bounded
  by its tokens. `OnlyLoginsRenew` says that nothing else lengthens a session, not even a set that
  a failed EXPIRE left without a TTL, and that otherwise every session runs out.
* A refresh token is exchanged at most once as long as its blacklist entry lives, under any
  overlap of requests, and the same holds after a Logout. That entry lives seven days
  (`token.go:17`), whatever the TTL of the token. With the default, where both are equal, only a
  call that was parsed before the token expired and reaches SETNX after the entry has gone can win
  again. With a longer `JWT_REFRESH_TTL` (`docs/env-vars.md:79`) the exchanged token itself
  outlives the entry and works again (run token_replay; `docs/redis-keys.md:55` says that the entry
  follows the token). `SingleUse` and `NoRefreshAfterLogout` state exactly these exceptions, and
  are proved for all TTLs; `OneUsable` and `RotationWorks` set apart what follows from them.
* A Refresh in the second of issue returns the token it has just blacklisted (run same_second).
* RevokeAll and the revoke key cover for each other: one of them may fail. Both keep a rejected
  token out for good unless two changes overlap, when the key with the older second can overwrite
  the newer.
* Disabling an account works without Redis: within `MaxLag` of the UPDATE the last token is signed.
* A login that read the row before `UpdateRole` gets a working token with the old role, and
  Refresh keeps the old role (run role_stale; the comment at `admin/service.go:168-170` promises
  that it takes effect at once). The same holds for a password change: a session registered after
  RevokeAll by a login that used the old password survives. `OnlyLaterSessions` says that this is
  the only kind that survives.
* Concurrent guessing at one account is bounded: until its counter is cleared or ends there are at
  most four wrong guesses and one more per concurrent request and Redis error. Guessing further
  does not prolong the lock, and with the lock the counter is gone too. The window is fixed, not
  sliding (`EXPIRE` at the first failure only): four failures at the end of one and four at the
  beginning of the next do not lock. A success by anybody clears the counter, not the lock.
  The lock covers codes and registration too, as `brute_force.go:4` says; `docs/redis-keys.md`
  still speaks of password logins only.
* A code passes at most one check in every run. A SendCode call that outlasts its own cooldown (60
  seconds, as `smtp.SendMail` has no deadline) is not told: if it fails it deletes the code and the
  cooldown of the next call (`sendcode.go:84`), if it stores late it replaces a newer code. Up to
  such a call, `LiveCode` and `OnePerCooldown` hold. A server that dies after SETNX, a lost answer
  to it, or a failed deletion leave a cooldown without a code; nothing else does.
* In production SMS has no provider: the only one for that channel is the mock (theorem
  `Production`). SendCode answers with an error after it has stored and deleted the code.
* Production is the exact word. A server whose `env` is anything else starts with every
  development default, mock codes and bare OAuth ids included. `env: production` in `local.yaml`
  turns the checks on and does not load `production.yaml`; the checks then refuse to start until
  the switches are set.
* One identity gets one user in every interleaving, by the UNIQUE constraints; the loser of two
  first OAuth logins finds the winner's user, and with the transaction leaves none behind. Without
  a transaction runner it leaves one. A registration by password without phone and e-mail makes a
  user whom nobody can log in as by either; `NoOrphan` sets those apart.
* After a success Apple is asked again within the interval only by requests that were already on
  their way. Only a success begins the interval (`apple.go:22` and `docs/oauth.md:119` speak of requests): while Apple fails, every
  unknown key id is one more request. All who share a refresh fail with it, also when only the
  leader's client has gone, and their tokens count as invalid. After a rotation a genuine token is
  refused until the interval since the last refresh ends.
* Nobody may change his own role, and an administrator remains as long as no two requests that
  concern one user's role overlap. If they do, two administrators can demote or disable each
  other. The same overlap on one user loses an update: a profile change writes back the other
  column as it was read, and of two password changes with the same old password both succeed.
* A walk through the pages of a list sees every row that was there at its start, whatever is
  inserted between pages. A removed row, or one inserted between COUNT and SELECT, can hide one. A
  page so large that the offset wraps shows the first page; no walk gets there. Rows of one
  `created_at` have no order and are left out. A PATCH of a todo without `done` sets it to false
  (`user_todo.go:33`); the lists do not show it.
* The server ends after a signal if PostgreSQL ends its queries. Handlers get ten seconds; then
  the pool waits for connections in use without a bound (`app.go:249`), and `docs/deploy.md:213`
  counts ten seconds for the whole. A second signal changes nothing.

## 5. Theorems

All for any number of sessions, requests, changes and faults, any TTL and any bound of the clock.
Assumptions on constants: `SessionAssumption`, `RotationAssumption`, `AccountAssumption` (TTLs
are positive, bounds are natural numbers, model values are distinct), `FiniteCallers` (the calls of a user are finitely many, so that those
in flight can be counted); for the login lock `LockAssumption` and the hypothesis
`LockOutlasts` (15 minutes outlast 10); `CodeAssumption` (a code outlives a cooldown, 5 minutes
and 1), `IdentityAssumption` (requests are finitely many), `AccountsAssumption`, `ServerAssumption`, and
for the walk the hypothesis `LargeEnough`: the list and a page are no longer than an int32, the
parameter of OFFSET and LIMIT, can say (2^31 - 1 rows; pages have at most 100).

* **SessionStore_proofs.** `IInv` adds to the types: where the calls are (a Register in its
  RevokeAll has no key yet), that a granted session nobody set out to end has its key, that every
  session a call is about to delete is in `ended`, and what a nil result means: the key is gone
  and so is the session from the set, or from the pointer unless an error was dropped. Only
  `Register(s)`, once, writes `s` anywhere, also when a command is repeated, so what is gone stays
  gone. `CheckInv` ties the first read of a Validate to what was known when it began; the fallback
  GET then decides. Theorems: `TypeCorrect`, `RevokedForever`, `LoginsSurvive`,
  `NoAcceptAfterRevoke`, `NoRejectOfLive`, and `Refinement`: the store implements SessionRegistry
  (initial states, and every command a step or a stutter).

  What holds until something overlaps a RevokeAll (`ApartInv`) needs more. `TrackInv` says of every granted session
  with a key that what RevokeAll looks up names it and lives as long as it does, and what the call
  in flight has already deleted or read. It holds unless `Lossy`: a DEL of a session key that
  failed by itself leaves the key without its entry, and a GET error that was dropped leaves a
  session that the pointer no longer names; both are what the code does. `InFlight <= 1` gives by
  counting (`CountedAlone`) that every caller but one is `Quiet`, which single device mode needs
  at every step; in multi device mode only the steps of RevokeAll do (`AllAlone`), and what is left
  of `TrackInv` without one (`Overlap`) survives any order of logins and logouts. `ModeInv` keeps
  a login to the commands of its mode; `Apartness` reads off a step that it left `overlap` unset.
  Theorems: `AllSessionsTracked`, `OneDeviceValid`, `RevokeAllEmpties`.

  How long a session lasts is the theorem `LoginsRenew`: no command adds to what Redis holds of a
  granted session (`Faded`, one lemma per call) but the EXPIRE of a login, and the set has a TTL as
  long as it names a granted session (`Lasting`).
* **TokenRotation_proofs.** `TInv`: a request holds a token handed out; a spent or logged-out
  token is blacklisted as long as the history says (`Marked`); the tokens of a session form a chain, only the last
  of which is unspent, and only the request that spent it may sign the next (`Chain`). The lemma
  `ClaimedAreFree` says that a claim finds no entry that has not ended. No relation between the
  TTLs is assumed. Theorems: `TokensAreSingleUse`,
  `LogoutIsFinal`, `OneUsableToken`, `RotatedTokenWorks`, `RotationTypes`.
* **AccountRevocation_proofs.** `AInv`: times are of the past (`Times`), who is still busy on a
  disabled account read it before (`Disabled`), changes are ordered (`Calls`), what a RevokeAll has
  reached (`Scopes`), and for which changes the key still stands (`Keys`). Theorems:
  `DisabledAccountsFadeOut`, `EitherRevocationSuffices`, `SurvivorsAreLater`, `RejectedForGood`.
* **LoginLock_proofs.** `LInv` relates `wrong` to the counter and to the requests between guess and
  count: below the limit a wrong guess is counted, on its way or lost with an error (`Counted`); at
  the limit the lock is there, by `FreshStart`, so only requests that have passed it still guess
  (`Locked`); and nothing is counted that was not guessed, double counts apart (`Deserved`).
  `Moves` counts the requests at a step. Theorems: `GuessesBounded`, `StartsFresh`,
  `LocksDeserved`.
* **VerificationCode_proofs.** First the configuration: what `Merge` does key by key gives
  `SwitchesAreSet`, `RouteIsShort` (a route names each provider at most once) and `Production`,
  for every configuration in `Running`. Identities states in its `Init` that the two switches it
  reads are Booleans, which by `SwitchesAreSet` excludes nothing. Then `CodeInv`: a running call has a number of its own that nobody was
  told (`Fresh`); an accepted code was received and is not in Redis any more (`Once`, which is
  what single use needs: a number is stored only by its own call, also when the SET is repeated,
  and before it is sent); until a call is late the cooldown is one call's, or the last success's
  (`OneHolder`); the last code stays from before it is sent (`Kept`); a standing cooldown is
  somebody's (`Owned`). Theorems: `CodesAreSingleUse`, `SentCodesLive`, `OneSendPerCooldown`,
  `FailureFreesCooldown`.
* **Identities_proofs.** `IdInv`: where a request is says what it presented and that its token was
  checked (`Tagged`); the user it has inserted owns nothing yet, and no two are about to commit
  one identity (`Pending`, where the waiting INSERT is needed). Theorems: `SuccessIsOwner`,
  `NobodyOrphaned`, and `ImplementsIdentityMap`: every statement is a claim or a stutter, with or
  without the transaction. `RefreshesAreFew` counts the requests that decided before the throttle
  began (`FewInv`).
* **UserAccounts_proofs.** `UserInv`: what a request holds is what it was asked and, unless it was
  raced, what the row still says (`Shape`); overlaps were noticed (`Noticed`): `ColumnsAsAsked`.
  `AdminInv`, for histories without overlap or fault: a token with the admin role is an
  administrator's or is being revoked, and every change of a role has an author who is an
  administrator and not its target: `AnAdminRemains`.
* **Server_proofs.** `LifeInv`: no request before the server listens, pool and client open until
  Shutdown returns, and a request that outlives Shutdown has used up its time: `StopsGracefully`.
  `WalkInv`: a row of the beginning that was not seen lies behind the pages that were. A row's
  `Place` is the number of newer rows, so inserts only move rows back, and the walk cannot pass one;
  the count read before a page is at least what the page leaves, so the walk goes on while there
  is one (`WalkerReads`). The offset does not wrap on the way (`FitsNoWrap`). Theorem
  `WalkSeesAll`.
* **Composition.** `SessionLayer` and `AccountUsesRegistry`: the upper modules drive the sessions
  only by steps of SessionRegistry, the specification that `Refinement` proves of the store. What
  they add about a successful call (after Revoke returns nil the session is not live) is
  `RevokedForever` for Revoke; for RevokeAll it is `RevokeAllEmpties` when nothing overlaps it;
  `missed` stands for the rest.

Only model-checked: `LockLapses` and `ExitComes` (liveness is out of the prover's reach), and the
four counterexamples.

## 6. Not modelled, and the plan

The plan of modules is complete, and every safety property of a run that passes is proved. What is
left: one login composed through LoginLock, VerificationCode and AccountRevocation, which today
meet at a step each.

Not modelled as components: metrics (counters nobody reads back) and the contract tools (a test
tool). Partly: the HTTP layer without the binding of requests, `/health` and `/ready`; of the
other middleware only that the rate limiter asks Redis and fails with it, as its counting is a
library's and the rest sets headers; WeChat, which differs from Google in the URL and the fields
it reads; the keyword filter of ListUsers. None of them keeps a state that requests share.

Not modelled inside the modelled parts: signatures (a token is its claims), hashes, user agents
and other values nobody reads back; calls with an empty session id or without Redis, which return
at once; the session checks of the middleware failing open, in AccountRevocation (it is in
SessionStore, `NoLateAccept`).
