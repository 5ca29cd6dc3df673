------------------------------- MODULE LoginLock -------------------------------
(***************************************************************************)
(* internal/service/auth/brute_force.go: the counter of failed logins of   *)
(* ONE account id (a phone number or an e-mail address) and its lock, with *)
(* the requests that guess: logins by password or code, registrations by   *)
(* code. The lock is looked at before a guess, the failure counted after.  *)
(***************************************************************************)
EXTENDS Naturals, FiniteSets

CONSTANTS
    Request,        \* requests at the same time; one that has ended begins anew
    MaxAttempts,    \* loginMaxFailAttempts
    Window,         \* loginFailWindow, in ticks
    LockTTL,        \* loginLockDuration, in ticks
    MaxFaults       \* bound: Redis errors and abandoned requests

ASSUME LockAssumption ==
    /\ IsFiniteSet(Request)
    /\ MaxAttempts \in Nat \ {0}
    /\ Window \in Nat \ {0} /\ LockTTL \in Nat \ {0}
    /\ MaxFaults \in Nat

VARIABLES
    failOpen,           \* configuration, fixed when the server starts
    fails, failTTL,     \* login:fail:{account}: value (0 = no key), ticks left
    lockTTL,            \* login:lock:{account}: ticks left, 0 = no key
    at,                 \* control of the requests
    wrong,              \* history: wrong guesses that count since the counter
                        \* was last cleared or ran out
    faults

lvars == <<failOpen, fails, failTTL, lockTTL, at, wrong, faults>>

(* Redis answers, refuses, or executes a command whose answer is lost.      *)
Reply == {"ok", "refused", "unanswered"}
Answer(r) ==
    /\ r # "ok" => faults < MaxFaults
    /\ faults' = IF r = "ok" THEN faults ELSE faults + 1

Goes(h, label) == at' = [at EXCEPT ![h] = label]
Guessing == {h \in Request : at[h] = "guess"}
Recording == {h \in Request : at[h] = "record"}

(***************************************************************************)
(* The scripts and commands, as Redis executes them.                       *)
(***************************************************************************)
\* variant: locks after one failure too many
ScriptLate ==
    /\ fails' = fails + 1
    /\ failTTL' = IF fails = 0 THEN Window ELSE failTTL
    /\ lockTTL' = IF fails + 1 > MaxAttempts THEN LockTTL ELSE lockTTL

\* variant: every failure begins a new window, the lock only begins once
ScriptSliding ==
    /\ fails' = fails + 1
    /\ failTTL' = Window
    /\ lockTTL' = IF fails + 1 = MaxAttempts THEN LockTTL ELSE lockTTL

(* loginRecordFailLua: INCR, EXPIRE at the first failure, SET of the lock.  *)
FailScript ==
    /\ fails' = fails + 1
    /\ failTTL' = IF fails = 0 THEN Window ELSE failTTL
    /\ lockTTL' = IF fails + 1 >= MaxAttempts THEN LockTTL ELSE lockTTL

(* The counter goes; failures not yet recorded will count for the next one. *)
CounterEnds == wrong' = Cardinality(Recording)

\* variant: the wrong one of the two keys is deleted
DeleteLock ==
    /\ lockTTL' = 0
    /\ CounterEnds
    /\ UNCHANGED <<fails, failTTL>>

DeleteFails ==
    /\ fails' = 0 /\ failTTL' = 0
    /\ CounterEnds
    /\ UNCHANGED lockTTL

(***************************************************************************)
(* A request: is the account locked, is the guess right, count or clear.   *)
(***************************************************************************)
\* variant: the lock is not looked at
CheckNothing(h, r) ==
    /\ at[h] = "idle" /\ r = "ok"
    /\ Goes(h, "guess")
    /\ UNCHANGED <<failOpen, fails, failTTL, lockTTL, wrong, faults>>

CheckLock(h, r) ==
    /\ at[h] = "idle"
    /\ Answer(r)
    /\ IF r = "ok" THEN lockTTL = 0 ELSE failOpen
    /\ Goes(h, "guess")
    /\ UNCHANGED <<failOpen, fails, failTTL, lockTTL, wrong>>

(* "none": the database fails, or the code is right but there is no user to *)
(* log in, or one already where one is to be registered.                    *)
Guess(h, verdict) ==
    /\ at[h] = "guess"
    /\ Goes(h, CASE verdict = "wrong" -> "record"
                 [] verdict = "right" -> "clear"
                 [] verdict = "none"  -> "idle")
    /\ wrong' = IF verdict = "wrong" THEN wrong + 1 ELSE wrong
    /\ UNCHANGED <<failOpen, fails, failTTL, lockTTL, faults>>

RecordFail(h, r) ==
    /\ at[h] = "record"
    /\ Answer(r)
    /\ IF r = "refused" THEN UNCHANGED <<fails, failTTL, lockTTL>> ELSE FailScript
    /\ Goes(h, "idle")
    /\ UNCHANGED <<failOpen, wrong>>

ClearFail(h, r) ==
    /\ at[h] = "clear"
    /\ Answer(r)
    /\ IF r = "refused" THEN UNCHANGED <<fails, failTTL, lockTTL, wrong>> ELSE DeleteFails
    /\ Goes(h, "idle")
    /\ UNCHANGED failOpen

(* The Redis client sends a command again when its answer is late: one       *)
(* failure may be counted twice.                                            *)
Resend(h) ==
    /\ Answer("unanswered")
    /\ \/ at[h] = "record" /\ FailScript /\ UNCHANGED wrong
       \/ at[h] = "clear" /\ DeleteFails
    /\ UNCHANGED <<failOpen, at>>

Abandon(h) ==
    /\ at[h] # "idle"
    /\ Answer("refused")
    /\ Goes(h, "idle")
    /\ UNCHANGED <<failOpen, fails, failTTL, lockTTL, wrong>>

\* variant: counts on below zero
LessUnguarded(n) == n - 1
Less(n) == IF n = 0 THEN 0 ELSE n - 1

Tick ==
    /\ failTTL > 0 \/ lockTTL > 0
    /\ failTTL' = Less(failTTL) /\ lockTTL' = Less(lockTTL)
    /\ IF failTTL = 1 THEN fails' = 0 /\ CounterEnds ELSE UNCHANGED <<fails, wrong>>
    /\ UNCHANGED <<failOpen, at, faults>>

LInit ==
    /\ failOpen \in BOOLEAN
    /\ fails = 0 /\ failTTL = 0 /\ lockTTL = 0
    /\ at = [h \in Request |-> "idle"]
    /\ wrong = 0 /\ faults = 0

Attempt(h) ==
    \/ \E r \in Reply : CheckLock(h, r) \/ RecordFail(h, r) \/ ClearFail(h, r)
    \/ \E verdict \in {"wrong", "right", "none"} : Guess(h, verdict)

LNext == Tick \/ \E h \in Request : Attempt(h) \/ Resend(h) \/ Abandon(h)

(* Time passes. Nothing is assumed of the requests.                         *)
LSpec == LInit /\ [][LNext]_lvars /\ WF_lvars(Tick)

------------------------------------------------------------------------------
(* The type of every variable.                                              *)
LockTypeOK ==
    /\ failOpen \in BOOLEAN
    /\ fails \in Nat /\ failTTL \in 0..Window /\ lockTTL \in 0..LockTTL
    /\ at \in [Request -> {"idle", "guess", "record", "clear"}]
    /\ wrong \in Nat /\ faults \in 0..MaxFaults

(* The constants of brute_force.go: the lock outlasts the counter.          *)
LockOutlasts == Window <= LockTTL

(* However many clients guess at once, and although the lock is looked at   *)
(* long before the failure is counted: until the counter is cleared or runs *)
(* out there are at most MaxAttempts - 1 wrong guesses and one more per     *)
(* concurrent request and per Redis error.                                  *)
GuessBound == wrong + 1 <= MaxAttempts + Cardinality(Request) + faults

(* When a lock ends, its owner starts from zero: a counter at its limit is  *)
(* never left over, and no counter is left without an end.                  *)
FreshStart ==
    /\ fails > 0 => failTTL > 0
    /\ fails >= MaxAttempts => failTTL <= lockTTL

(* Nobody is locked out by less than MaxAttempts wrong guesses since his    *)
(* last success, failures counted twice apart.                              *)
LockDeserved == [][lockTTL' > lockTTL => wrong + faults' >= MaxAttempts]_lvars

(* A lock ends in the end, also while requests go on trying: they do not    *)
(* prolong it.                                                              *)
LockLapses == lockTTL > 0 ~> lockTTL = 0
==============================================================================
