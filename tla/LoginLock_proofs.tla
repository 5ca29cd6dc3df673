--------------------------- MODULE LoginLock_proofs ---------------------------
(***************************************************************************)
(* Proofs about LoginLock, for any number of requests and errors. The      *)
(* invariant relates the wrong guesses to the counter and to the requests  *)
(* that are between the two: below the limit a wrong guess is counted, not *)
(* yet counted, or lost with an error; at the limit the lock is there, so  *)
(* only those that have passed it can still guess.                         *)
(***************************************************************************)
EXTENDS LoginLock, FiniteSetTheorems, TLAPS

Slots == Cardinality(Request)

Counted ==
    fails < MaxAttempts => wrong <= fails + Cardinality(Recording) + faults

Locked ==
    fails >= MaxAttempts =>
        wrong + Cardinality(Guessing) + 1 <= MaxAttempts + Slots + faults

Deserved == fails + Cardinality(Recording) <= wrong + faults

LInv == LockTypeOK /\ FreshStart /\ Counted /\ Locked /\ Deserved

------------------------------------------------------------------------------
(* Requests that guess and requests that record are few, and apart.         *)
LEMMA Sizes ==
    ASSUME LockTypeOK
    PROVE  /\ IsFiniteSet(Recording) /\ IsFiniteSet(Guessing)
           /\ Cardinality(Recording) \in Nat /\ Cardinality(Guessing) \in Nat
           /\ Slots \in Nat
           /\ Cardinality(Recording) + Cardinality(Guessing) <= Slots
<1>1. IsFiniteSet(Recording) /\ IsFiniteSet(Guessing)
    BY FS_Subset, LockAssumption DEF Recording, Guessing
<1>2. Recording \cap Guessing = {} /\ Recording \cup Guessing \subseteq Request
    BY DEF Recording, Guessing
<1>3. Cardinality(Recording \cup Guessing)
        = Cardinality(Recording) + Cardinality(Guessing) - Cardinality(Recording \cap Guessing)
    BY <1>1, FS_Union
<1>4. Cardinality(Recording \cup Guessing) <= Slots
    BY <1>2, FS_Subset, LockAssumption DEF Slots
<1>5. Cardinality(Recording \cap Guessing) = 0
    BY <1>2, FS_EmptySet
<1>6. Cardinality(Recording) \in Nat /\ Cardinality(Guessing) \in Nat /\ Slots \in Nat
    BY <1>1, FS_CardinalityType, LockAssumption DEF Slots
<1>7. QED
    BY <1>1, <1>3, <1>4, <1>5, <1>6

(* What the sizes become when one request goes on.                          *)
LEMMA Moves ==
    ASSUME LockTypeOK, NEW h \in Request, NEW label, Goes(h, label)
    PROVE  /\ Cardinality(Recording)' =
                CASE label = "record" /\ at[h] # "record" -> Cardinality(Recording) + 1
                  [] label # "record" /\ at[h] = "record" -> Cardinality(Recording) - 1
                  [] OTHER -> Cardinality(Recording)
           /\ Cardinality(Guessing)' =
                CASE label = "guess" /\ at[h] # "guess" -> Cardinality(Guessing) + 1
                  [] label # "guess" /\ at[h] = "guess" -> Cardinality(Guessing) - 1
                  [] OTHER -> Cardinality(Guessing)
<1> USE DEF LockTypeOK, Goes
<1>1. IsFiniteSet(Recording) /\ IsFiniteSet(Guessing)
    BY Sizes
<1>2. Recording' = IF label = "record" THEN Recording \cup {h} ELSE Recording \ {h}
    BY DEF Recording
<1>3. Guessing' = IF label = "guess" THEN Guessing \cup {h} ELSE Guessing \ {h}
    BY DEF Guessing
<1>4. (h \in Recording <=> at[h] = "record") /\ (h \in Guessing <=> at[h] = "guess")
    BY DEF Recording, Guessing
<1>5. /\ Cardinality(Recording \cup {h}) =
            IF at[h] = "record" THEN Cardinality(Recording) ELSE Cardinality(Recording) + 1
      /\ Cardinality(Recording \ {h}) =
            IF at[h] = "record" THEN Cardinality(Recording) - 1 ELSE Cardinality(Recording)
    BY <1>1, <1>4, FS_AddElement, FS_RemoveElement
<1>6. /\ Cardinality(Guessing \cup {h}) =
            IF at[h] = "guess" THEN Cardinality(Guessing) ELSE Cardinality(Guessing) + 1
      /\ Cardinality(Guessing \ {h}) =
            IF at[h] = "guess" THEN Cardinality(Guessing) - 1 ELSE Cardinality(Guessing)
    BY <1>1, <1>4, FS_AddElement, FS_RemoveElement
<1>7. QED
    BY <1>2, <1>3, <1>5, <1>6

(* A counted failure leaves a counter that ends, and no later than the lock *)
(* if it has reached the limit.                                             *)
LEMMA Script ==
    ASSUME LockTypeOK, FreshStart, LockOutlasts, FailScript
    PROVE  /\ fails' \in Nat /\ failTTL' \in 0..Window /\ lockTTL' \in 0..LockTTL
           /\ FreshStart'
<1> USE LockAssumption DEF LockTypeOK, FreshStart, FailScript
<1>1. failTTL' \in 1..Window
    OBVIOUS
<1>2. fails' \in Nat /\ lockTTL' \in 0..LockTTL
    OBVIOUS
<1>3. fails' >= MaxAttempts => lockTTL' = LockTTL
    OBVIOUS
<1>4. QED
    BY <1>1, <1>2, <1>3 DEF LockOutlasts

(* An account whose counter is at the limit has a lock.                     *)
LEMMA Closed ==
    ASSUME LockTypeOK, FreshStart
    PROVE  fails >= MaxAttempts => lockTTL > 0
BY LockAssumption DEF LockTypeOK, FreshStart

(* An answered command costs nothing, any other one fault.                  *)
LEMMA Answers ==
    ASSUME LockTypeOK, NEW r, Answer(r)
    PROVE  /\ faults' \in 0..MaxFaults
           /\ faults' = IF r = "ok" THEN faults ELSE faults + 1
BY LockAssumption DEF LockTypeOK, Answer

------------------------------------------------------------------------------
LEMMA InitLInv == LInit => LInv
<1> SUFFICES ASSUME LInit PROVE LInv
    OBVIOUS
<1>1. LockTypeOK /\ FreshStart
    BY LockAssumption DEF LInit, LockTypeOK, FreshStart
<1>2. Recording = {} /\ Guessing = {}
    BY DEF LInit, Recording, Guessing
<1>3. Cardinality(Recording) = 0 /\ Cardinality(Guessing) = 0
    BY <1>2, FS_EmptySet
<1>4. Counted /\ Locked /\ Deserved
    BY <1>1, <1>3, Sizes, LockAssumption DEF Counted, Locked, Deserved, LInit
<1>5. QED
    BY <1>1, <1>4 DEF LInv

LEMMA KeepsStutter == LInv /\ UNCHANGED lvars => LInv'
BY DEF lvars, LInv, LockTypeOK, FreshStart, Counted, Locked, Deserved, Recording, Guessing, Slots

LEMMA KeepsTick ==
    ASSUME LInv, Tick
    PROVE  LInv'
<1> USE DEF LInv
<1>1. LockTypeOK'
    BY Sizes, LockAssumption DEF LockTypeOK, Tick, Less, CounterEnds
<1>2. FreshStart'
    BY LockAssumption DEF LockTypeOK, FreshStart, Tick, Less
<1>3. Recording' = Recording /\ Guessing' = Guessing
    BY DEF Tick, Recording, Guessing
<1>4. Counted' /\ Locked' /\ Deserved'
    BY <1>3, Sizes, LockAssumption
    DEF LockTypeOK, Counted, Locked, Deserved, Tick, CounterEnds, Slots
<1>5. QED
    BY <1>1, <1>2, <1>4

LEMMA KeepsCheckLock ==
    ASSUME LInv, NEW h \in Request, NEW r \in Reply, CheckLock(h, r)
    PROVE  LInv'
<1> USE DEF LInv
<1>1. Answer(r) /\ Goes(h, "guess")
    BY DEF CheckLock
<1>2. LockTypeOK' /\ FreshStart'
    BY <1>1, Answers DEF LockTypeOK, FreshStart, CheckLock, Goes
<1>3. /\ Cardinality(Recording)' = Cardinality(Recording)
      /\ Cardinality(Guessing)' = Cardinality(Guessing) + 1
    BY <1>1, Moves DEF CheckLock
<1>4. fails >= MaxAttempts => r # "ok"
    BY Closed DEF CheckLock
<1>5. Counted' /\ Locked' /\ Deserved'
    BY <1>1, <1>3, <1>4, Sizes, Answers, LockAssumption
    DEF LockTypeOK, Counted, Locked, Deserved, CheckLock, Slots
<1>6. QED
    BY <1>2, <1>5

LEMMA KeepsGuess ==
    ASSUME LInv, NEW h \in Request, NEW verdict \in {"wrong", "right", "none"},
           Guess(h, verdict)
    PROVE  LInv'
<1> USE DEF LInv
<1>1. LockTypeOK' /\ FreshStart'
    BY DEF LockTypeOK, FreshStart, Guess, Goes
<1>2. /\ Cardinality(Recording)' =
            IF verdict = "wrong" THEN Cardinality(Recording) + 1 ELSE Cardinality(Recording)
      /\ Cardinality(Guessing)' = Cardinality(Guessing) - 1
    <2>1. CASE verdict = "wrong"
        BY <2>1, Moves DEF Guess
    <2>2. CASE verdict = "right"
        BY <2>2, Moves DEF Guess
    <2>3. CASE verdict = "none"
        BY <2>3, Moves DEF Guess
    <2>4. QED
        BY <2>1, <2>2, <2>3
<1>3. Counted' /\ Locked' /\ Deserved'
    BY <1>2, Sizes, LockAssumption DEF LockTypeOK, Counted, Locked, Deserved, Guess, Slots
<1>4. QED
    BY <1>1, <1>3

LEMMA KeepsRecordFail ==
    ASSUME LockOutlasts, LInv, NEW h \in Request, NEW r \in Reply, RecordFail(h, r)
    PROVE  LInv'
<1> USE DEF LInv
<1>1. Answer(r) /\ Goes(h, "idle")
    BY DEF RecordFail
<1>2. fails' \in Nat /\ failTTL' \in 0..Window /\ lockTTL' \in 0..LockTTL /\ FreshStart'
    <2>1. CASE r = "refused"
        BY <2>1 DEF RecordFail, LockTypeOK, FreshStart
    <2>2. CASE r # "refused"
        BY <2>2, Script DEF RecordFail
    <2>3. QED
        BY <2>1, <2>2
<1>3. LockTypeOK'
    BY <1>1, <1>2, Answers DEF LockTypeOK, RecordFail, Goes
<1>4. /\ Cardinality(Recording)' = Cardinality(Recording) - 1
      /\ Cardinality(Guessing)' = Cardinality(Guessing)
    BY <1>1, Moves DEF RecordFail
<1>5. fails' = IF r = "refused" THEN fails ELSE fails + 1
    BY DEF RecordFail, FailScript
<1>6. Counted' /\ Locked' /\ Deserved'
    BY <1>1, <1>3, <1>4, <1>5, Sizes, Answers, LockAssumption
    DEF LockTypeOK, Counted, Locked, Deserved, RecordFail, Slots, Reply
<1>7. QED
    BY <1>2, <1>3, <1>6

LEMMA KeepsClearFail ==
    ASSUME LInv, NEW h \in Request, NEW r \in Reply, ClearFail(h, r)
    PROVE  LInv'
<1> USE DEF LInv
<1>1. Answer(r) /\ Goes(h, "idle")
    BY DEF ClearFail
<1>2. LockTypeOK'
    BY <1>1, Answers, Sizes, LockAssumption
    DEF LockTypeOK, ClearFail, Goes, DeleteFails, CounterEnds
<1>3. FreshStart'
    BY LockAssumption DEF LockTypeOK, FreshStart, ClearFail, DeleteFails
<1>4. /\ Cardinality(Recording)' = Cardinality(Recording)
      /\ Cardinality(Guessing)' = Cardinality(Guessing)
    BY <1>1, Moves DEF ClearFail
<1>5. Counted' /\ Locked' /\ Deserved'
    BY <1>1, <1>4, Sizes, Answers, LockAssumption
    DEF LockTypeOK, Counted, Locked, Deserved, ClearFail, DeleteFails, CounterEnds, Slots
<1>6. QED
    BY <1>2, <1>3, <1>5

LEMMA KeepsResend ==
    ASSUME LockOutlasts, LInv, NEW h \in Request, Resend(h)
    PROVE  LInv'
<1> USE DEF LInv
<1>1. Recording' = Recording /\ Guessing' = Guessing
    BY DEF Resend, Recording, Guessing
<1>2. faults' \in 0..MaxFaults /\ faults' = faults + 1
    BY Answers DEF Resend
<1>3. CASE at[h] = "record" /\ FailScript /\ UNCHANGED wrong
    <2>1. LockTypeOK' /\ FreshStart'
        BY <1>2, <1>3, Script DEF LockTypeOK, Resend
    <2>2. Cardinality(Recording) >= 1
        <3>1. h \in Recording
            BY <1>3 DEF Recording
        <3>2. QED
            BY <3>1, Sizes, FS_EmptySet
    <2>3. Counted' /\ Locked' /\ Deserved'
        BY <1>1, <1>2, <1>3, <2>1, Sizes, LockAssumption
        DEF LockTypeOK, Counted, Locked, Deserved, FailScript, Slots
    <2>4. QED
        BY <2>1, <2>3
<1>4. CASE at[h] = "clear" /\ DeleteFails
    <2>1. LockTypeOK'
        BY <1>2, <1>4, Sizes, LockAssumption DEF LockTypeOK, Resend, DeleteFails, CounterEnds
    <2>2. FreshStart'
        BY <1>4, LockAssumption DEF LockTypeOK, FreshStart, DeleteFails
    <2>3. Counted' /\ Locked' /\ Deserved'
        BY <1>1, <1>2, <1>4, Sizes, LockAssumption
        DEF LockTypeOK, Counted, Locked, Deserved, DeleteFails, CounterEnds, Slots
    <2>4. QED
        BY <2>1, <2>2, <2>3
<1>5. QED
    BY <1>3, <1>4 DEF Resend

LEMMA KeepsAbandon ==
    ASSUME LInv, NEW h \in Request, Abandon(h)
    PROVE  LInv'
<1> USE DEF LInv
<1>1. Answer("refused") /\ Goes(h, "idle")
    BY DEF Abandon
<1>2. faults' \in 0..MaxFaults /\ faults' = faults + 1
    BY <1>1, Answers
<1>3. LockTypeOK' /\ FreshStart'
    BY <1>1, <1>2 DEF LockTypeOK, FreshStart, Abandon, Goes
<1>4. /\ Cardinality(Recording)' =
            IF at[h] = "record" THEN Cardinality(Recording) - 1 ELSE Cardinality(Recording)
      /\ Cardinality(Guessing)' =
            IF at[h] = "guess" THEN Cardinality(Guessing) - 1 ELSE Cardinality(Guessing)
    BY <1>1, Moves
<1>5. Counted' /\ Locked' /\ Deserved'
    BY <1>2, <1>4, Sizes, LockAssumption
    DEF LockTypeOK, Counted, Locked, Deserved, Abandon, Slots
<1>6. QED
    BY <1>3, <1>5

LEMMA NextLInv == LockOutlasts /\ LInv /\ [LNext]_lvars => LInv'
<1> SUFFICES ASSUME LockOutlasts, LInv, [LNext]_lvars PROVE LInv'
    OBVIOUS
<1>1. CASE Tick
    BY <1>1, KeepsTick
<1>2. ASSUME NEW h \in Request, Attempt(h) PROVE LInv'
    BY <1>2, KeepsCheckLock, KeepsGuess, KeepsRecordFail, KeepsClearFail DEF Attempt
<1>3. ASSUME NEW h \in Request, Resend(h) PROVE LInv'
    BY <1>3, KeepsResend
<1>4. ASSUME NEW h \in Request, Abandon(h) PROVE LInv'
    BY <1>4, KeepsAbandon
<1>5. CASE UNCHANGED lvars
    BY <1>5, KeepsStutter
<1>6. QED
    BY <1>1, <1>2, <1>3, <1>4, <1>5 DEF LNext

------------------------------------------------------------------------------
(* The invariant holds in every behaviour if a lock outlasts a counter, as  *)
(* it does with the constants of brute_force.go (15 and 10 minutes).        *)
THEOREM LockInvariance == LockOutlasts /\ LSpec => []LInv
<1>1. LockOutlasts => [](LockOutlasts)
    <2>1. LockOutlasts => LockOutlasts'
        BY DEF LockOutlasts
    <2>2. QED
        BY <2>1, PTL
<1>2. QED
    BY <1>1, InitLInv, NextLInv, PTL DEF LSpec

(* Every variable keeps its type.                                           *)
THEOREM LockTypes == LockOutlasts /\ LSpec => []LockTypeOK
BY LockInvariance, PTL DEF LInv

(* Concurrent guessing is bounded: the check of the lock and the counting   *)
(* of the failure are two steps, and cost one guess per request (brute_     *)
(* force.go:40, 64).                                                        *)
THEOREM GuessesBounded == LockOutlasts /\ LSpec => []GuessBound
<1>1. LInv => GuessBound
    BY Sizes, LockAssumption DEF LInv, LockTypeOK, Counted, Locked, GuessBound, Slots
<1>2. QED
    BY <1>1, LockInvariance, PTL

(* An account starts from zero when its lock ends.                          *)
THEOREM StartsFresh == LockOutlasts /\ LSpec => []FreshStart
BY LockInvariance, PTL DEF LInv

(* A counter one below its limit stands for that many wrong guesses.        *)
LEMMA Reached ==
    ASSUME LInv, fails + 1 >= MaxAttempts, NEW h \in Request, at[h] = "record",
           NEW n \in Nat, n >= faults
    PROVE  wrong + n >= MaxAttempts
<1>1. LockTypeOK /\ Deserved
    BY DEF LInv
<1>2. h \in Recording
    BY DEF Recording
<1>3. Cardinality(Recording) >= 1
    BY <1>1, <1>2, Sizes, FS_EmptySet
<1>4. fails + 1 <= wrong + faults
    BY <1>1, <1>3, Sizes DEF LockTypeOK, Deserved
<1>5. QED
    BY <1>1, <1>4, LockAssumption DEF LockTypeOK

(* Whoever is locked out has failed often enough, whatever successes and    *)
(* ends of the counter came between (brute_force.go:31).                    *)
THEOREM LocksDeserved == LockOutlasts /\ LSpec => LockDeserved
<1>1. LInv /\ [LNext]_lvars => (lockTTL' > lockTTL => wrong + faults' >= MaxAttempts) \/ UNCHANGED lvars
    <2> SUFFICES ASSUME LInv, LNext, lockTTL' > lockTTL
                 PROVE  wrong + faults' >= MaxAttempts
        BY DEF LNext
    <2> USE DEF LInv
    <2>1. CASE Tick
        BY <2>1, LockAssumption DEF Tick, Less, LockTypeOK
    <2>2. ASSUME NEW h \in Request, NEW r \in Reply, RecordFail(h, r)
          PROVE  wrong + faults' >= MaxAttempts
        <3>1. fails + 1 >= MaxAttempts /\ at[h] = "record"
            BY <2>2, LockAssumption DEF RecordFail, FailScript, LockTypeOK
        <3>2. faults' \in Nat /\ faults' >= faults
            BY <2>2, Answers, LockAssumption DEF RecordFail, LockTypeOK
        <3>3. QED
            BY Reached, <3>1, <3>2
    <2>3. ASSUME NEW h \in Request, Resend(h)
          PROVE  wrong + faults' >= MaxAttempts
        <3>1. fails + 1 >= MaxAttempts /\ at[h] = "record"
            BY <2>3, LockAssumption DEF Resend, FailScript, DeleteFails, LockTypeOK
        <3>2. faults' \in Nat /\ faults' >= faults
            BY <2>3, Answers, LockAssumption DEF Resend, LockTypeOK
        <3>3. QED
            BY Reached, <3>1, <3>2
    <2>4. ASSUME NEW h \in Request, NEW r \in Reply, CheckLock(h, r) \/ ClearFail(h, r)
          PROVE  FALSE
        BY <2>4, LockAssumption DEF CheckLock, ClearFail, DeleteFails, LockTypeOK
    <2>5. ASSUME NEW h \in Request, NEW verdict, Guess(h, verdict)
          PROVE  FALSE
        BY <2>5, LockAssumption DEF Guess, LockTypeOK
    <2>6. ASSUME NEW h \in Request, Abandon(h)
          PROVE  FALSE
        BY <2>6, LockAssumption DEF Abandon, LockTypeOK
    <2>7. QED
        BY <2>1, <2>2, <2>3, <2>4, <2>5, <2>6 DEF LNext, Attempt
<1>2. QED
    BY <1>1, LockInvariance, PTL DEF LSpec, LockDeserved
==============================================================================
