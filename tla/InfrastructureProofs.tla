------------------------ MODULE InfrastructureProofs ------------------------
(***************************************************************************)
(* Proofs about what the resources share: PollWithBackoff and its two      *)
(* kinds of caller, the status cache of a scoped client, and the private   *)
(* state of the ephemeral envelope.  One part per component; they have no  *)
(* variable in common.                                                     *)
(*                                                                         *)
(* Polling: the bounds of the poller, for every set of configurations,     *)
(* every context deadline and every duration of the poll function; the     *)
(* waiter on states, for every life cycle, interval and interference; and  *)
(* the write that is retried on conflicts, for every bound on its          *)
(* attempts.                                                               *)
(***************************************************************************)
EXTENDS StateWaiter, ConflictRetry, ScopedClient, EphemeralKey, TLAPS

(***************************************************************************)
(* The poller.  The inductive invariant adds to the stated bounds what     *)
(* holds while the goroutine sleeps (WaitArmed), because that is where     *)
(* they are used up.                                                       *)
(***************************************************************************)

PollInv ==
  /\ PollTypeOK
  /\ AttemptsWithinBound
  /\ BackoffWithinBound
  /\ WaitArmed
  /\ OverrunWithinOneWait
  /\ ReturnsByDeadline

\* Dividing by a hundred is monotone and stays in Nat.
LEMMA DivMonotone ==
  ASSUME NEW a \in Nat, NEW b \in Nat, a <= b
  PROVE  /\ a \div 100 \in Nat
         /\ a \div 100 <= b \div 100
  BY SMT

\* The extra delay withJitter may add grows with the delay.
LEMMA JitterMonotone ==
  ASSUME NEW a \in Nat, NEW b \in Nat, NEW j \in Nat, a <= b
  PROVE  /\ (a * j) \div 100 \in Nat
         /\ (a * j) \div 100 <= (b * j) \div 100
  <1>1. a * j \in Nat /\ b * j \in Nat
    BY SMT
  <1>2. a * j <= b * j
    <2>1. PICK k \in Nat : b = a + k
      BY SMT
    <2>2. b * j = a * j + k * j
      BY <2>1, SMT
    <2>3. k * j \in Nat
      BY SMT
    <2> QED  BY <2>2, <2>3, <1>1, SMT
  <1> QED  BY <1>1, <1>2, DivMonotone

\* The fields of a configuration have the types BackoffConfig gives them.
LEMMA ConfigFields ==
  ASSUME cfg \in Configs
  PROVE  /\ cfg.Initial \in Nat \ {0} /\ cfg.Max \in Nat /\ cfg.MaxAttempts \in Nat
         /\ cfg.MaxElapsed \in Nat /\ cfg.Jitter \in Nat
  BY ConfigsAssumption DEF BackoffConfig

\* A jittered delay is at least the delay, and at most LongestWait.
LEMMA DelayBounds ==
  ASSUME PollTypeOK, BackoffWithinBound, NEW delay \in JitteredDelays(backoff)
  PROVE  /\ delay \in Nat /\ delay >= backoff /\ delay <= LongestWait
         /\ LongestWait \in Nat
  <1>1. cfg \in Configs /\ backoff \in Nat \ {0}
    BY DEF PollTypeOK
  <1>2. /\ cfg.Initial \in Nat \ {0} /\ cfg.Max \in Nat /\ cfg.Jitter \in Nat
    BY <1>1, ConfigFields
  <1>3. LongestBackoff \in Nat /\ backoff <= LongestBackoff
    BY <1>1, <1>2 DEF LongestBackoff, Larger, BackoffWithinBound
  <1>4. /\ JitterSpan(backoff) \in Nat /\ JitterSpan(LongestBackoff) \in Nat
        /\ JitterSpan(backoff) <= JitterSpan(LongestBackoff)
    BY <1>1, <1>2, <1>3, JitterMonotone DEF JitterSpan
  <1> QED  BY <1>1, <1>3, <1>4 DEF JitteredDelays, LongestWait

\* The first attempt starts within every bound.
LEMMA PollInitInv == PollInit => PollInv
  <1> SUFFICES ASSUME PollInit PROVE PollInv
    OBVIOUS
  <1>1. /\ cfg.Initial \in Nat \ {0} /\ cfg.Max \in Nat /\ cfg.MaxAttempts \in Nat
        /\ cfg.MaxElapsed \in Nat /\ cfg.Jitter \in Nat
    BY ConfigFields DEF PollInit
  <1>2. PollTypeOK /\ AttemptsWithinBound /\ BackoffWithinBound /\ WaitArmed
    BY <1>1 DEF PollInit, PollTypeOK, AttemptsWithinBound, BackoffWithinBound, WaitArmed,
                LongestBackoff, Larger
  <1>3. LongestBackoff \in Nat
    BY <1>1 DEF LongestBackoff, Larger
  <1>4. JitterSpan(LongestBackoff) \in Nat
    BY <1>1, <1>3, JitterMonotone DEF JitterSpan
  <1>5. OverrunWithinOneWait
    BY <1>1, <1>3, <1>4 DEF PollInit, OverrunWithinOneWait, LongestWait, LongestBackoff, Larger
  <1>6. ReturnsByDeadline
    BY MaxCallAssumption, CtxDoneAtsAssumption DEF PollInit, ReturnsByDeadline
  <1> QED  BY <1>2, <1>5, <1>6 DEF PollInv

\* Each step of the loop preserves the invariant.
LEMMA PollNextInv == PollInv /\ [PollNext]_pollVars => PollInv'
  <1> SUFFICES ASSUME PollInv, [PollNext]_pollVars PROVE PollInv'
    OBVIOUS
  <1>t. PollTypeOK /\ AttemptsWithinBound /\ BackoffWithinBound /\ WaitArmed /\ OverrunWithinOneWait
        /\ ReturnsByDeadline
    BY DEF PollInv
  <1>c. /\ cfg.Initial \in Nat \ {0} /\ cfg.Max \in Nat /\ cfg.MaxAttempts \in Nat
        /\ cfg.MaxElapsed \in Nat /\ cfg.Jitter \in Nat
    BY <1>t, ConfigFields DEF PollTypeOK
  <1>n. now \in Nat /\ attempt \in Nat \ {0} /\ backoff \in Nat \ {0} /\ timerAt \in Nat
        /\ ctxDoneAt \in Nat
    BY <1>t, CtxDoneAtsAssumption DEF PollTypeOK
  <1>w. LongestBackoff \in Nat /\ LongestWait \in Nat
    <2>1. LongestBackoff \in Nat
      BY <1>c DEF LongestBackoff, Larger
    <2>2. JitterSpan(LongestBackoff) \in Nat
      BY <2>1, <1>c, JitterMonotone DEF JitterSpan
    <2> QED  BY <2>1, <2>2 DEF LongestWait
  <1>1. ASSUME NEW v \in {"done", "error"}, CallSettles(v) PROVE PollInv'
    <2>1. now' \in Nat /\ ReturnsByDeadline'
      BY <1>1, <1>t, <1>n, MaxCallAssumption DEF CallSettles, Return, ReturnsByDeadline
    <2> QED  BY <1>1, <1>t, <2>1
             DEF CallSettles, Return, PollInv, PollTypeOK, AttemptsWithinBound, BackoffWithinBound,
                 LongestBackoff, Larger, WaitArmed, OverrunWithinOneWait
  <1>2. CASE CallExhausts
    <2>1. now' \in Nat /\ ReturnsByDeadline'
      BY <1>2, <1>t, <1>n, MaxCallAssumption DEF CallExhausts, Return, ReturnsByDeadline
    <2> QED  BY <1>2, <1>t, <2>1
             DEF CallExhausts, Return, PollInv, PollTypeOK, AttemptsWithinBound, BackoffWithinBound,
                 LongestBackoff, Larger, WaitArmed, OverrunWithinOneWait
  <1>3. CASE CallRetries
    <2>1. now' \in Nat /\ ReturnsByDeadline'
      BY <1>3, <1>t, <1>n, MaxCallAssumption DEF CallRetries, ReturnsByDeadline
    <2>2. PICK delay \in JitteredDelays(backoff) : timerAt' = now' + delay
      BY <1>3 DEF CallRetries
    <2>3. delay \in Nat /\ delay >= backoff /\ delay <= LongestWait
      BY <1>t, DelayBounds
    <2>4. LongestWait' = LongestWait
      BY <1>3 DEF CallRetries, LongestWait, LongestBackoff, JitterSpan, Larger
    <2>5. /\ cfg.MaxAttempts > 0 => attempt < cfg.MaxAttempts
          /\ cfg.MaxElapsed > 0 => now' < cfg.MaxElapsed
      BY <1>3, <1>c, <1>n, <2>1 DEF CallRetries, AttemptsUsedUp, ElapsedUsedUp
    <2>6. WaitArmed'
      BY <1>3, <1>n, <1>w, <2>1, <2>2, <2>3, <2>4, <2>5 DEF CallRetries, WaitArmed
    <2> QED  BY <1>3, <1>t, <1>n, <2>1, <2>2, <2>3, <2>6
             DEF CallRetries, PollInv, PollTypeOK, AttemptsWithinBound, BackoffWithinBound,
                 LongestBackoff, Larger, OverrunWithinOneWait
  <1>4. CASE SelectTimer
    <2>1. backoff' \in Nat \ {0} /\ BackoffWithinBound'
      BY <1>4, <1>t, <1>c, <1>n
      DEF SelectTimer, NextBackoff, BackoffWithinBound, LongestBackoff, Larger
    <2>2. AttemptsWithinBound'
      BY <1>4, <1>t, <1>c, <1>n DEF SelectTimer, WaitArmed, AttemptsWithinBound
    <2>3. LongestWait' = LongestWait
      BY <1>4 DEF SelectTimer, LongestWait, LongestBackoff, JitterSpan, Larger
    <2>4. OverrunWithinOneWait'
      BY <1>4, <1>t, <1>c, <1>n, <1>w, <2>3 DEF SelectTimer, WaitArmed, OverrunWithinOneWait
    <2>5. ReturnsByDeadline'
      BY <1>4, <1>t, <1>n, MaxCallAssumption DEF SelectTimer, WaitArmed, Larger, ReturnsByDeadline
    <2> QED  BY <1>4, <1>t, <1>n, <2>1, <2>2, <2>4, <2>5 DEF SelectTimer, PollInv, PollTypeOK, WaitArmed
  <1>5. CASE SelectCtxDone
    <2>1. now' \in Nat /\ ReturnsByDeadline'
      BY <1>5, <1>t, <1>n, MaxCallAssumption DEF SelectCtxDone, Return, Larger, ReturnsByDeadline
    <2> QED  BY <1>5, <1>t, <2>1
             DEF SelectCtxDone, Return, PollInv, PollTypeOK, AttemptsWithinBound, BackoffWithinBound,
                 LongestBackoff, Larger, WaitArmed, OverrunWithinOneWait
  <1>6. CASE UNCHANGED pollVars
    BY <1>6, <1>t DEF pollVars, PollInv, PollTypeOK, AttemptsWithinBound, BackoffWithinBound,
                      LongestBackoff, LongestWait, JitterSpan, Larger, WaitArmed, OverrunWithinOneWait,
                      ReturnsByDeadline
  <1> QED  BY <1>1, <1>2, <1>3, <1>4, <1>5, <1>6 DEF PollNext, Select

\* The invariant holds throughout every call of PollWithBackoff.
THEOREM PollInvariant == PollSpec => []PollInv
  BY PollInitInv, PollNextInv, PTL DEF PollSpec

\* The variables of PollWithBackoff keep their types.
THEOREM PollTypeCorrect == PollSpec => []PollTypeOK
  <1>1. PollInv => PollTypeOK
    BY DEF PollInv
  <1> QED  BY <1>1, PollInvariant, PTL

\* fn is never called more than MaxAttempts times.
THEOREM AttemptsBounded == PollSpec => []AttemptsWithinBound
  <1>1. PollInv => AttemptsWithinBound
    BY DEF PollInv
  <1> QED  BY <1>1, PollInvariant, PTL

\* The exponential delay never exceeds its cap.
THEOREM BackoffBounded == PollSpec => []BackoffWithinBound
  <1>1. PollInv => BackoffWithinBound
    BY DEF PollInv
  <1> QED  BY <1>1, PollInvariant, PTL

\* A MaxElapsed policy overruns by less than one longest wait.
THEOREM OverrunBounded == PollSpec => []OverrunWithinOneWait
  <1>1. PollInv => OverrunWithinOneWait
    BY DEF PollInv
  <1> QED  BY <1>1, PollInvariant, PTL

\* The caller gets control back at most one call of fn after its context ended.
THEOREM DeadlineRespected == PollSpec => []ReturnsByDeadline
  <1>1. PollInv => ReturnsByDeadline
    BY DEF PollInv
  <1> QED  BY <1>1, PollInvariant, PTL

\* The attempt after a wait starts no later than the context's end, whether the
\* context ended before the wait or during it: the timer lies in the future when the
\* wait begins, so a context that ends before the timer fires is what wakes it.
THEOREM NoLateAttempt == PollSpec => NoAttemptAfterCtxDone
  <1> DEFINE Step == (pc = "select" /\ pc' = "call") => now' <= ctxDoneAt
  <1>1. PollInv /\ [PollNext]_pollVars => [Step]_pollVars
    <2> SUFFICES ASSUME PollInv, PollNext, pc = "select", pc' = "call"
                 PROVE  now' <= ctxDoneAt
      BY DEF PollNext, pollVars
    <2>1. SelectTimer
      BY DEF PollNext, Select, CallSettles, CallExhausts, CallRetries, SelectCtxDone, Return
    <2>2. now \in Nat /\ timerAt \in Nat /\ ctxDoneAt \in Nat /\ now < timerAt
      BY CtxDoneAtsAssumption DEF PollInv, PollTypeOK, WaitArmed
    <2>3. timerAt <= ctxDoneAt
      BY <2>1, <2>2 DEF SelectTimer, Larger
    <2> QED  BY <2>1, <2>3 DEF SelectTimer
  <1> QED  BY <1>1, PollInvariant, PTL DEF PollSpec, NoAttemptAfterCtxDone

\* What holds during a wait of PollWithBackoff: an armed timer and unspent bounds.
THEOREM WaitsArmed == PollSpec => []WaitArmed
  <1>1. PollInv => WaitArmed
    BY DEF PollInv
  <1> QED  BY <1>1, PollInvariant, PTL

\* PollWithBackoff's nil error without a verdict needs a bound in the policy.
THEOREM SilentExhaustionBounded == PollSpec => []SilentExhaustionNeedsBound
  <1>1. PollInit => SilentExhaustionNeedsBound
    BY DEF PollInit, SilentExhaustionNeedsBound
  <1>2. SilentExhaustionNeedsBound /\ [PollNext]_pollVars => SilentExhaustionNeedsBound'
    BY DEF SilentExhaustionNeedsBound, PollNext, pollVars, CallSettles, CallExhausts, CallRetries, Select,
           SelectTimer, SelectCtxDone, Return, AttemptsUsedUp, ElapsedUsedUp
  <1> QED  BY <1>1, <1>2, PTL DEF PollSpec

(***************************************************************************)
(* The waiter.  The inductive invariant adds the policy it polls with, that *)
(* a verdict ends the call, and what a sleep may miss: a resource that     *)
(* settles does so no earlier than the sleep began, because the check      *)
(* before it saw a state that was not settled.                             *)
(***************************************************************************)

\* The policy of WaitForStateTransition.
FixedPolicy ==
  /\ cfg.Max = 0 /\ cfg.MaxAttempts = 0 /\ cfg.MaxElapsed = 0 /\ cfg.Jitter = 0
  /\ cfg.Initial \in Nat \ {0} /\ backoff = cfg.Initial

\* A verdict ends the call, and an ended context was seen before the first check.
VerdictEnds ==
  /\ (cause # "none" \/ result # "none") => pc = "returned"
  /\ result # "exhausted"
  /\ pc = "precheck" => now = 0 /\ observed = Absent
  /\ pc \in {"call", "select"} => ctxDoneAt > 0

\* settledAt is what its name says; a sleep starts with an unsettled resource.
SettledSince ==
  /\ settledAt >= 0 <=> Mismatched(remote)
  /\ settledAt <= now
  /\ pc = "select" => timerAt = now + cfg.Initial /\ (settledAt >= 0 => settledAt = now)

WaitInv ==
  /\ WaitTypeOK /\ FixedPolicy /\ VerdictEnds /\ SettledSince
  /\ NilErrorMeansSeen /\ TerminalErrorIsTruthful /\ FailsFast /\ NoLookupWithEndedCtx

\* A policy without jitter waits exactly its delay.
LEMMA FlatDelay ==
  ASSUME FixedPolicy
  PROVE  JitteredDelays(backoff) = {cfg.Initial}
  <1>1. JitterSpan(backoff) = 0
    BY DEF FixedPolicy, JitterSpan
  <1> QED  BY <1>1 DEF FixedPolicy, JitteredDelays

\* The waiter starts with a policy that delays, before any lookup.
LEMMA WaitInitInv == WaitInit => WaitInv
  <1> SUFFICES ASSUME WaitInit PROVE WaitInv
    OBVIOUS
  <1>1. PICK d \in PollIntervals : cfg = WaitPolicy(d) /\ backoff = cfg.Initial
    BY DEF WaitInit
  <1>2. PollInterval(d) \in Nat \ {0}
    BY WaiterAssumption DEF PollInterval
  <1>3. FixedPolicy /\ cfg \in BackoffConfig
    BY <1>1, <1>2 DEF FixedPolicy, WaitPolicy, BackoffConfig
  <1>4. WaitTypeOK
    BY <1>3, CtxDoneAtsAssumption, WaiterAssumption DEF WaitInit, WaitTypeOK, FixedPolicy
  <1>5. VerdictEnds /\ SettledSince
    BY DEF WaitInit, VerdictEnds, SettledSince
  <1> QED  BY <1>3, <1>4, <1>5
           DEF WaitInit, WaitInv, NilErrorMeansSeen, TerminalErrorIsTruthful, FailsFast, NoLookupWithEndedCtx

\* Every step of the waiter, the server and the other clients keeps the invariant.
LEMMA WaitNextInv == WaitInv /\ [WaitNext]_waitVars => WaitInv'
  <1> SUFFICES ASSUME WaitInv, [WaitNext]_waitVars PROVE WaitInv'
    OBVIOUS
  <1>n. now \in Nat /\ ctxDoneAt \in Nat /\ timerAt \in Nat /\ settledAt \in Nat \cup {-1} /\ MaxCall \in Nat
    BY CtxDoneAtsAssumption, MaxCallAssumption DEF WaitInv, WaitTypeOK
  <1> USE <1>n DEF WaitInv, WaitTypeOK, FixedPolicy, VerdictEnds, SettledSince, Mismatched, envVars,
                   NilErrorMeansSeen, TerminalErrorIsTruthful, FailsFast, NoLookupWithEndedCtx
  <1>1. CASE CtxPrecheck
    BY <1>1 DEF CtxPrecheck, Return
  <1>2. CASE LookupFails
    BY <1>2 DEF LookupFails, CallSettles, Return
  <1>3. CASE CheckAbsent
    BY <1>3 DEF CheckAbsent, CallSettles, Return
  <1>4. CASE CheckDesired
    BY <1>4 DEF CheckDesired, CallSettles, Return
  <1>5. CASE CheckTerminal
    BY <1>5 DEF CheckTerminal, CallSettles, Return
  <1>6. CASE CheckAgain
    <2>1. settledAt = -1
      BY <1>6 DEF CheckAgain
    <2>2. ~CallExhausts
      BY DEF CallExhausts, AttemptsUsedUp, ElapsedUsedUp
    <2>3. timerAt' = now' + cfg.Initial /\ now' \in Nat
      BY <1>6, <2>2, FlatDelay DEF CheckAgain, CallRetries
    <2> QED  BY <1>6, <2>1, <2>2, <2>3 DEF CheckAgain, CallRetries
  <1>7. CASE SelectWakes
    <2>1. backoff' = backoff \/ backoff' = NextBackoff
      BY <1>7 DEF SelectWakes, Select, SelectTimer, SelectCtxDone
    <2>2. backoff' = cfg.Initial
      BY <2>1 DEF NextBackoff
    <2>3. CASE SelectTimer
      <3>1. now' = now + cfg.Initial /\ now' \in Nat /\ attempt' \in Nat \ {0} /\ backoff' \in Nat \ {0}
        BY <2>2, <2>3 DEF SelectTimer
      <3>2. WaitTypeOK' /\ FixedPolicy' /\ VerdictEnds'
        BY <1>7, <2>2, <2>3, <3>1 DEF SelectWakes, SelectTimer
      <3>3. SettledSince' /\ FailsFast'
        BY <1>7, <2>3, <3>1 DEF SelectWakes, SelectTimer
      <3> QED  BY <1>7, <2>3, <3>2, <3>3 DEF SelectWakes, SelectTimer
    <2>4. CASE SelectCtxDone
      BY <1>7, <2>2, <2>4 DEF SelectWakes, SelectCtxDone, Return, Larger
    <2> QED  BY <1>7, <2>3, <2>4 DEF SelectWakes, Select
  <1>8. CASE ServerMoves
    BY <1>8, WaiterAssumption DEF ServerMoves, RemoteBecomes, pollVars
  <1>9. CASE OtherClientActs
    BY <1>9, WaiterAssumption DEF OtherClientActs, RemoteBecomes, pollVars
  <1>10. CASE UNCHANGED waitVars
    BY <1>10 DEF waitVars, pollVars
  <1> QED  BY <1>1, <1>2, <1>3, <1>4, <1>5, <1>6, <1>7, <1>8, <1>9, <1>10 DEF WaitNext, Waiter

\* The waiter's invariant holds for every life cycle and every interference.
THEOREM WaitInvariant == WaitSpec => []WaitInv
  <1> QED  BY WaitInitInv, WaitNextInv, PTL DEF WaitSpec

\* Types: whatever interval WithPollInterval is given, the delay is positive.
THEOREM WaitTypeCorrect == WaitSpec => []WaitTypeOK
  <1>1. WaitInv => WaitTypeOK
    BY DEF WaitInv
  <1> QED  BY <1>1, WaitInvariant, PTL

\* WaitForStateTransition's nil error means that a lookup saw the desired state.
THEOREM NilErrorIsEarned == WaitSpec => []NilErrorMeansSeen
  <1>1. WaitInv => NilErrorMeansSeen
    BY DEF WaitInv
  <1> QED  BY <1>1, WaitInvariant, PTL

\* ErrTerminalState tells the truth about what the last lookup saw.
THEOREM TerminalErrorTrue == WaitSpec => []TerminalErrorIsTruthful
  <1>1. WaitInv => TerminalErrorIsTruthful
    BY DEF WaitInv
  <1> QED  BY <1>1, WaitInvariant, PTL

\* A resource that has settled elsewhere is noticed within one poll interval.
THEOREM WaiterFailsFast == WaitSpec => []FailsFast
  <1>1. WaitInv => FailsFast
    BY DEF WaitInv
  <1> QED  BY <1>1, WaitInvariant, PTL

\* A context that ended before the call is reported without a lookup.
THEOREM EndedCtxSeenFirst == WaitSpec => []NoLookupWithEndedCtx
  <1>1. WaitInv => NoLookupWithEndedCtx
    BY DEF WaitInv
  <1> QED  BY <1>1, WaitInvariant, PTL

\* A waiter reports a wrong terminal state in time, and never a right one.
THEOREM WaitErrorsCorrect == WaitSpec => []WaitErrorsInv
  <1>1. WaitInv => WaitErrorsInv
    BY DEF WaitInv, WaitErrorsInv
  <1> QED  BY <1>1, WaitInvariant, PTL

(***************************************************************************)
(* The retried write takes effect at most once, and success is reported    *)
(* only if it did.                                                         *)
(***************************************************************************)

\* Nothing has taken effect while the loop goes on, and an answer other than
\* a conflict ends it: this is what makes the two properties inductive.
LoopHasNoEffect ==
  /\ pc # "returned" => applied = 0
  /\ status = "ok" => pc = "returned" /\ applied = 1

RInv == RetryTypeOK /\ LoopHasNoEffect /\ AppliedAtMostOnce

\* The delays of the policy are positive.
LEMMA RetryDelays ==
  ASSUME RetryTypeOK, NEW d \in JitteredDelays(backoff)
  PROVE  d \in Nat
<1>1. cfg.Jitter = 50 /\ backoff \in Nat
  BY DEF RetryTypeOK, ConflictPolicy
<1> QED
  BY <1>1 DEF JitteredDelays, JitterSpan

\* The delay keeps positive when it is doubled and capped.
LEMMA RetryNextBackoff ==
  ASSUME RetryTypeOK
  PROVE  NextBackoff \in Nat \ {0}
<1>1. cfg.Max = 7200 /\ backoff \in Nat \ {0}
  BY DEF RetryTypeOK, ConflictPolicy
<1> QED
  BY <1>1 DEF NextBackoff

\* One step of the loop, or of another writer, preserves the invariant.
LEMMA RInvStep == RInv /\ [RetryNext]_retryVars => RInv'
<1> SUFFICES ASSUME RInv, [RetryNext]_retryVars PROVE RInv'
  OBVIOUS
<1> USE DEF RInv
<1>1. CASE UNCHANGED retryVars
  BY <1>1 DEF retryVars, pollVars, kibana, RetryTypeOK, LoopHasNoEffect, AppliedAtMostOnce
<1>2. CASE OtherWriter
  BY <1>2 DEF OtherWriter, pollVars, RetryTypeOK, LoopHasNoEffect, AppliedAtMostOnce
<1>3. CASE Attempt
  <2>1. PICK s \in Answers \ {"none"} :
          /\ Answer(s) /\ status' = s
          /\ IF Done(s) THEN CallSettles("done") ELSE CallRetries \/ CallExhausts
    BY <1>3 DEF Attempt
  <2>2. pc = "call" /\ applied = 0
    BY <2>1 DEF CallSettles, CallRetries, CallExhausts, LoopHasNoEffect
  <2>3. UNCHANGED <<cfg, ctxDoneAt, attempt, backoff, versioned, locked, stale>>
    BY <1>3, <2>1 DEF Attempt, kibana, CallSettles, CallRetries, CallExhausts
  <2>4. now' \in Nat
    <3>1. PICK d \in 0 .. MaxCall : now' = now + d
      BY <2>1 DEF CallSettles, CallRetries, CallExhausts
    <3> QED
      BY <3>1, MaxCallAssumption DEF RetryTypeOK
  <2>5. timerAt' \in Nat
    <3>1. CASE timerAt' = timerAt
      BY <3>1 DEF RetryTypeOK
    <3>2. CASE CallRetries
      <4>1. PICK d \in JitteredDelays(backoff) : timerAt' = now' + d
        BY <3>2 DEF CallRetries
      <4> QED
        BY <4>1, <2>4, RetryDelays
    <3> QED
      BY <2>1, <3>1, <3>2 DEF CallSettles, CallExhausts
  <2>6. /\ pc' \in {"select", "returned"}
        /\ result' \in {"none", "done", "exhausted", "ctxerr"}
        /\ s # "conflict" => pc' = "returned"
    BY <2>1 DEF Done, CallSettles, CallRetries, CallExhausts, Return, RetryTypeOK
  <2>7. /\ applied' \in {0, 1}
        /\ s = "ok" => applied' = 1
        /\ s = "conflict" => applied' = 0
    BY <2>1, <2>2 DEF Answer
  <2>8. metLockAt' \in Nat \cup {-1}
    BY <2>1 DEF Answer, RetryTypeOK
  <2>9. RetryTypeOK'
    BY <2>1, <2>3, <2>4, <2>5, <2>6, <2>7, <2>8 DEF RetryTypeOK
  <2>10. LoopHasNoEffect' /\ AppliedAtMostOnce'
    BY <2>1, <2>6, <2>7 DEF LoopHasNoEffect, AppliedAtMostOnce
  <2> QED
    BY <2>9, <2>10
<1>4. CASE Waits
  <2>1. UNCHANGED <<versioned, locked, stale, status, applied, metLockAt, cfg, ctxDoneAt, timerAt>>
    BY <1>4 DEF Waits, kibana, Select, SelectTimer, SelectCtxDone
  <2>2. /\ pc = "select" /\ pc' \in {"call", "returned"}
        /\ result' \in {"none", "done", "exhausted", "ctxerr"}
    BY <1>4 DEF Waits, Select, SelectTimer, SelectCtxDone, Return, RetryTypeOK
  <2>3. now' \in Nat /\ attempt' \in Nat \ {0}
    BY <1>4, CtxDoneAtsAssumption DEF Waits, Select, SelectTimer, SelectCtxDone, Larger, RetryTypeOK
  <2>4. backoff' \in Nat \ {0}
    BY <1>4, RetryNextBackoff DEF Waits, Select, SelectTimer, SelectCtxDone, RetryTypeOK
  <2>5. RetryTypeOK'
    BY <2>1, <2>2, <2>3, <2>4 DEF RetryTypeOK
  <2>6. LoopHasNoEffect' /\ AppliedAtMostOnce'
    BY <2>1, <2>2 DEF LoopHasNoEffect, AppliedAtMostOnce
  <2> QED
    BY <2>5, <2>6
<1> QED
  BY <1>1, <1>2, <1>3, <1>4 DEF RetryNext

\* At first nothing has been sent.
LEMMA RetryInitInv == RetryInit => RInv
<1> SUFFICES ASSUME RetryInit PROVE RInv
  OBVIOUS
<1>1. cfg \in {ConflictPolicy(n) : n \in MaxAttemptsOf}
  BY DEF RetryInit
<1>a. now \in Nat /\ timerAt \in Nat /\ attempt \in Nat \ {0} /\ backoff \in Nat \ {0} /\ applied \in Nat
  BY DEF RetryInit
<1>b. metLockAt \in Nat \cup {-1}
  BY DEF RetryInit
<1>c. versioned \in BOOLEAN /\ locked \in BOOLEAN /\ stale \in BOOLEAN
  BY Zenon DEF RetryInit
<1>d. /\ ctxDoneAt \in CtxDoneAts /\ pc \in {"call", "select", "returned"}
      /\ result \in {"none", "done", "exhausted", "ctxerr"} /\ status \in Answers
  BY DEF RetryInit, Answers
<1>2. RetryTypeOK
  BY <1>1, <1>a, <1>b, <1>c, <1>d DEF RetryTypeOK
<1> QED
  BY <1>2 DEF RetryInit, RInv, LoopHasNoEffect, AppliedAtMostOnce

\* The inductive invariant: types, and no effect before the loop ends.
THEOREM RetryInvariant == RetrySpec => []RInv
  BY RetryInitInv, RInvStep, PTL DEF RetrySpec

\* The variables of ConflictRetry keep their types for every maxAttempts.
THEOREM RetryTypeCorrect == RetrySpec => []RetryTypeOK
  BY RetryInvariant, PTL DEF RInv

\* ConflictRetry carries out a write at most once, whatever Kibana answers.
THEOREM AtMostOnce == RetrySpec => []AppliedAtMostOnce
  BY RetryInvariant, PTL DEF RInv

\* An exhausted policy's nil error is never taken for the success of a write.
THEOREM SuccessIsReal == RetrySpec => []SuccessMeansApplied
<1>1. RInv => SuccessMeansApplied
  BY DEF RInv, LoopHasNoEffect, SuccessMeansApplied, ReportsSuccess
<1> QED
  BY <1>1, RetryInvariant, PTL

(***************************************************************************)
(* Brief contention leaves no error.  The argument needs exact delays, and *)
(* those double only below the cap of an hour: 14 attempts is the largest  *)
(* number for which every wait is twice the one before (the delay after    *)
(* the 14th would be 8192, capped to 7200).  The callers pass 5.           *)
(***************************************************************************)

\* The powers of two that the delays of up to 14 attempts run through.
Pow2(n) == 2 ^ n

\* Each of them is twice the one before, and below the cap but for the last.
LEMMA Doubling ==
  \A k \in 1 .. 13 : Pow2(k) = 2 * Pow2(k - 1) /\ (k < 13 => Pow2(k) <= 7200)
<1> SUFFICES ASSUME NEW k \in 1 .. 13
             PROVE  Pow2(k) = 2 * Pow2(k - 1) /\ (k < 13 => Pow2(k) <= 7200)
  OBVIOUS
<1>1. \/ k = 1 \/ k = 2 \/ k = 3 \/ k = 4 \/ k = 5 \/ k = 6 \/ k = 7
      \/ k = 8 \/ k = 9 \/ k = 10 \/ k = 11 \/ k = 12 \/ k = 13
  OBVIOUS
<1>2. CASE k = 1
  <2>1. k - 1 = 0 /\ Pow2(1) = 2 /\ Pow2(0) = 1
    BY <1>2 DEF Pow2
  <2> QED
    BY <1>2, <2>1
<1>3. CASE k = 2
  <2>1. k - 1 = 1 /\ Pow2(2) = 4 /\ Pow2(1) = 2
    BY <1>3 DEF Pow2
  <2> QED
    BY <1>3, <2>1
<1>4. CASE k = 3
  <2>1. k - 1 = 2 /\ Pow2(3) = 8 /\ Pow2(2) = 4
    BY <1>4 DEF Pow2
  <2> QED
    BY <1>4, <2>1
<1>5. CASE k = 4
  <2>1. k - 1 = 3 /\ Pow2(4) = 16 /\ Pow2(3) = 8
    BY <1>5 DEF Pow2
  <2> QED
    BY <1>5, <2>1
<1>6. CASE k = 5
  <2>1. k - 1 = 4 /\ Pow2(5) = 32 /\ Pow2(4) = 16
    BY <1>6 DEF Pow2
  <2> QED
    BY <1>6, <2>1
<1>7. CASE k = 6
  <2>1. k - 1 = 5 /\ Pow2(6) = 64 /\ Pow2(5) = 32
    BY <1>7 DEF Pow2
  <2> QED
    BY <1>7, <2>1
<1>8. CASE k = 7
  <2>1. k - 1 = 6 /\ Pow2(7) = 128 /\ Pow2(6) = 64
    BY <1>8 DEF Pow2
  <2> QED
    BY <1>8, <2>1
<1>9. CASE k = 8
  <2>1. k - 1 = 7 /\ Pow2(8) = 256 /\ Pow2(7) = 128
    BY <1>9 DEF Pow2
  <2> QED
    BY <1>9, <2>1
<1>10. CASE k = 9
  <2>1. k - 1 = 8 /\ Pow2(9) = 512 /\ Pow2(8) = 256
    BY <1>10 DEF Pow2
  <2> QED
    BY <1>10, <2>1
<1>11. CASE k = 10
  <2>1. k - 1 = 9 /\ Pow2(10) = 1024 /\ Pow2(9) = 512
    BY <1>11 DEF Pow2
  <2> QED
    BY <1>11, <2>1
<1>12. CASE k = 11
  <2>1. k - 1 = 10 /\ Pow2(11) = 2048 /\ Pow2(10) = 1024
    BY <1>12 DEF Pow2
  <2> QED
    BY <1>12, <2>1
<1>13. CASE k = 12
  <2>1. k - 1 = 11 /\ Pow2(12) = 4096 /\ Pow2(11) = 2048
    BY <1>13 DEF Pow2
  <2> QED
    BY <1>13, <2>1
<1>14. CASE k = 13
  <2>1. k - 1 = 12 /\ Pow2(13) = 8192 /\ Pow2(12) = 4096
    BY <1>14 DEF Pow2
  <2> QED
    BY <1>14, <2>1
<1> QED
  BY <1>1, <1>2, <1>3, <1>4, <1>5, <1>6, <1>7, <1>8, <1>9, <1>10, <1>11, <1>12, <1>13, <1>14

\* Attempt k is not made before 2 ^ (k - 1) - 1 units have passed, because the
\* wait after it begins no earlier and takes at least 2 ^ (k - 1) more.
WaitsDouble ==
  /\ attempt <= cfg.MaxAttempts
  /\ attempt < cfg.MaxAttempts => backoff = Pow2(attempt - 1)
  /\ pc # "returned" => result = "none"
  /\ pc = "call" => now + 1 >= Pow2(attempt - 1)
  /\ pc = "select" => attempt < cfg.MaxAttempts /\ timerAt + 1 >= Pow2(attempt)

LongLockInv == RInv /\ WaitsDouble /\ ConflictMeansLongLock

\* One step of the loop, or of another writer, keeps the doubling.
LEMMA LongLockStep ==
  ASSUME MaxAttemptsOf \subseteq 1 .. 14
  PROVE  LongLockInv /\ [RetryNext]_retryVars => LongLockInv'
<1> SUFFICES ASSUME LongLockInv, [RetryNext]_retryVars PROVE LongLockInv'
  OBVIOUS
<1>r. RInv' /\ RInv /\ RetryTypeOK /\ RetryTypeOK'
  BY RInvStep DEF LongLockInv, RInv
<1>c. cfg.MaxAttempts \in 1 .. 14 /\ cfg.MaxElapsed = 0 /\ cfg.Jitter = 50 /\ cfg.Max = 7200
  BY <1>r DEF RetryTypeOK, ConflictPolicy
<1>n. /\ attempt \in Nat \ {0} /\ now \in Nat /\ timerAt \in Nat /\ backoff \in Nat \ {0}
      /\ metLockAt \in Nat \cup {-1}
  BY <1>r DEF RetryTypeOK
<1>1. CASE UNCHANGED retryVars
  BY <1>1, <1>r DEF retryVars, pollVars, kibana, LongLockInv, WaitsDouble, ConflictMeansLongLock
<1>2. CASE OtherWriter
  BY <1>2, <1>r DEF OtherWriter, pollVars, LongLockInv, WaitsDouble, ConflictMeansLongLock
<1>3. CASE Attempt
  <2>1. PICK s \in Answers \ {"none"} :
          /\ Answer(s) /\ status' = s
          /\ IF Done(s) THEN CallSettles("done") ELSE CallRetries \/ CallExhausts
    BY <1>3 DEF Attempt
  <2>2. /\ pc = "call" /\ now + 1 >= Pow2(attempt - 1)
        /\ UNCHANGED <<cfg, attempt, backoff, locked, stale>>
    BY <1>3, <2>1 DEF Attempt, kibana, CallSettles, CallRetries, CallExhausts, LongLockInv, WaitsDouble
  <2>3. CASE CallSettles("done")
    BY <2>2, <2>3, <1>r DEF CallSettles, Return, LongLockInv, WaitsDouble, ConflictMeansLongLock
  <2>4. CASE CallExhausts
    <3>1. attempt = cfg.MaxAttempts /\ pc' = "returned"
      BY <2>4, <1>c, <1>n DEF CallExhausts, AttemptsUsedUp, ElapsedUsedUp, Return, LongLockInv, WaitsDouble
    <3>2. status' = "conflict" => stale \/ metLockAt' = now
      BY <2>1 DEF Answer
    <3>3. status' = "conflict" => stale' \/ metLockAt' + 1 >= Pow2(cfg'.MaxAttempts - 1)
      BY <2>2, <3>1, <3>2
    <3>4. ConflictMeansLongLock'
      BY <2>2, <3>1, <3>3, Zenon DEF ConflictMeansLongLock, Pow2
    <3>5. WaitsDouble'
      BY <2>2, <3>1, <1>c, <1>n DEF LongLockInv, WaitsDouble
    <3> QED
      BY <3>4, <3>5, <1>r DEF LongLockInv
  <2>5. CASE CallRetries
    <3>1. /\ attempt < cfg.MaxAttempts /\ pc' = "select" /\ result' = "none"
          /\ backoff = Pow2(attempt - 1)
      BY <2>2, <2>5, <1>c, <1>n DEF CallRetries, AttemptsUsedUp, LongLockInv, WaitsDouble
    <3>2. PICK d \in 0 .. MaxCall : now' = now + d
      BY <2>5 DEF CallRetries
    <3>3. PICK w \in JitteredDelays(backoff) : timerAt' = now' + w
      BY <2>5 DEF CallRetries
    <3>4. w \in Nat /\ w >= backoff
      <4>1. \A x \in JitteredDelays(backoff) : x \in Nat /\ x >= backoff
        BY <1>c, <1>n DEF JitteredDelays, JitterSpan
      <4> QED
        BY <3>3, <4>1
    <3>5. now' >= now /\ now' \in Nat /\ timerAt' \in Nat
      BY <3>2, <1>n, <1>r, MaxCallAssumption DEF RetryTypeOK
    <3>6. attempt \in 1 .. 13
      BY <3>1, <1>c, <1>n
    <3>7. timerAt' + 1 >= Pow2(attempt)
      <4>1. Pow2(attempt) = 2 * Pow2(attempt - 1)
        BY <3>6, Doubling
      <4>2. now + 1 >= backoff
        BY <2>2, <3>1
      <4>3. timerAt' + 1 >= 2 * backoff
        <5>1. PICK n \in Nat : n = now'
          BY <3>5
        <5>2. n >= now
          BY <3>5, <5>1
        <5>3. n + w + 1 >= 2 * backoff
          BY <3>4, <4>2, <5>2, <1>n
        <5>4. timerAt' = n + w
          BY <3>3, <5>1
        <5> QED
          BY <5>3, <5>4
      <4>4. Pow2(attempt) = 2 * backoff
        BY <3>1, <4>1
      <4> QED
        BY <4>3, <4>4
    <3> QED
      BY <2>2, <3>1, <3>7, <1>r DEF LongLockInv, WaitsDouble, ConflictMeansLongLock
  <2> QED
    BY <2>1, <2>3, <2>4, <2>5
<1>4. CASE Waits
  <2>1. /\ UNCHANGED <<stale, status, metLockAt, cfg, timerAt>> /\ pc = "select"
        /\ attempt < cfg.MaxAttempts /\ timerAt + 1 >= Pow2(attempt)
        /\ backoff = Pow2(attempt - 1) /\ result = "none"
    BY <1>4, <1>n DEF Waits, kibana, Select, SelectTimer, SelectCtxDone, LongLockInv, WaitsDouble
  <2>2. CASE SelectCtxDone
    BY <2>1, <2>2, <1>r DEF SelectCtxDone, Return, LongLockInv, WaitsDouble, ConflictMeansLongLock
  <2>3. CASE SelectTimer
    <3>1. now' = timerAt /\ pc' = "call" /\ attempt' = attempt + 1 /\ backoff' = NextBackoff /\ result' = "none"
      BY <2>1, <2>3 DEF SelectTimer
    <3>2. attempt \in 1 .. 13 /\ attempt' - 1 = attempt
      BY <2>1, <3>1, <1>c, <1>n
    <3>3. attempt' < cfg.MaxAttempts => backoff' = Pow2(attempt' - 1)
      <4> SUFFICES ASSUME attempt' < cfg.MaxAttempts PROVE backoff' = Pow2(attempt)
        BY <3>2
      <4>1. attempt < 13
        BY <3>1, <1>c, <1>n
      <4>2. 2 * backoff = Pow2(attempt) /\ 2 * backoff <= 7200
        <5>1. Pow2(attempt) = 2 * Pow2(attempt - 1) /\ Pow2(attempt) <= 7200
          BY <3>2, <4>1, Doubling
        <5> QED
          BY <2>1, <5>1
      <4> QED
        BY <3>1, <4>2, <1>c, <1>n DEF NextBackoff
    <3>4. now' + 1 >= Pow2(attempt' - 1)
      BY <2>1, <3>1, <3>2
    <3>5. attempt' <= cfg.MaxAttempts
      BY <2>1, <3>1, <1>c, <1>n
    <3> QED
      BY <2>1, <3>1, <3>3, <3>4, <3>5, <1>r DEF LongLockInv, WaitsDouble, ConflictMeansLongLock
  <2> QED
    BY <1>4, <2>2, <2>3 DEF Waits, Select
<1> QED
  BY <1>1, <1>2, <1>3, <1>4 DEF RetryNext

\* ConflictRetry gives up with a conflict only after 2 ^ (n - 1) - 1 initial
\* delays of contention, or when the request's version is outdated, for every
\* number n of attempts for which the delays stay below the cap.
THEOREM ConflictIsEarned ==
  ASSUME MaxAttemptsOf \subseteq 1 .. 14
  PROVE  RetrySpec => []ConflictMeansLongLock
<1>1. RetryInit => LongLockInv
  <2> SUFFICES ASSUME RetryInit PROVE LongLockInv
    OBVIOUS
  <2>1. RInv
    BY RetryInitInv
  <2>2. cfg.MaxAttempts \in 1 .. 14
    BY DEF RetryInit, ConflictPolicy
  <2>3. attempt = 1 /\ backoff = 1 /\ now = 0 /\ pc = "call" /\ result = "none" /\ Pow2(0) = 1
    BY DEF RetryInit, Pow2
  <2> QED
    BY <2>1, <2>2, <2>3 DEF LongLockInv, WaitsDouble, ConflictMeansLongLock
<1>2. LongLockInv /\ [RetryNext]_retryVars => LongLockInv'
  BY LongLockStep
<1> QED
  BY <1>1, <1>2, PTL DEF RetrySpec, LongLockInv

(***************************************************************************)
(* The status cache: its safety properties, for any number of callers,     *)
(* requirements and server statuses.  They rest on StatusInv: the mutex is *)
(* held across the request, and only what is cached is judged.             *)
(***************************************************************************)

\* No caller is inside the mutex and nothing is cached at first.
LEMMA ClientInitInv == Init => ClientInv
  BY StatusesAssumption, MaxUpgradesAssumption
  DEF Init, ClientInv, TypeOK, StatusInv, MutexProtects, FetchOnlyIfNotCached, AnswersAreCached, Labels

\* A caller's steps outside the mutex and the server's keep the types.
LEMMA ClientNextTypeOK == ClientInv /\ [Next]_vars => TypeOK'
  <1> SUFFICES ASSUME ClientInv, [Next]_vars PROVE TypeOK'
    OBVIOUS
  <1> USE DEF ClientInv, TypeOK, Labels, Goto
  <1>1. CASE Upgrade
    BY <1>1, MaxUpgradesAssumption DEF Upgrade
  <1>2. ASSUME NEW c \in Callers, AllSatisfied(c) PROVE TypeOK'
    BY <1>2 DEF AllSatisfied
  <1>3. ASSUME NEW c \in Callers, AskForVersion(c) PROVE TypeOK'
    BY <1>3 DEF AskForVersion
  <1>4. ASSUME NEW c \in Callers, Judge(c) PROVE TypeOK'
    BY <1>4 DEF Judge
  <1>5. ASSUME NEW c \in Callers, Lock(c) PROVE TypeOK'
    BY <1>5 DEF Lock
  <1>6. ASSUME NEW c \in Callers, UseCached(c) PROVE TypeOK'
    BY <1>6 DEF UseCached
  <1>7. ASSUME NEW c \in Callers, StartFetch(c) PROVE TypeOK'
    BY <1>7 DEF StartFetch
  <1>8. ASSUME NEW c \in Callers, FetchSucceeds(c) PROVE TypeOK'
    BY <1>8 DEF FetchSucceeds
  <1>9. ASSUME NEW c \in Callers, FetchFails(c) PROVE TypeOK'
    BY <1>9 DEF FetchFails
  <1>10. CASE UNCHANGED vars
    BY <1>10 DEF vars
  <1> QED  BY <1>1, <1>2, <1>3, <1>4, <1>5, <1>6, <1>7, <1>8, <1>9, <1>10 DEF Next, CallerSteps

\* Every step keeps the protocol of the mutex and the cache.
LEMMA NextStatusInv == ClientInv /\ [Next]_vars => StatusInv'
  <1> SUFFICES ASSUME ClientInv, [Next]_vars PROVE StatusInv'
    OBVIOUS
  <1> USE StatusesAssumption
      DEF ClientInv, TypeOK, Labels, Goto, StatusInv, MutexProtects, FetchOnlyIfNotCached, AnswersAreCached
  <1>1. CASE Upgrade
    BY <1>1 DEF Upgrade
  <1>2. ASSUME NEW c \in Callers, AllSatisfied(c) PROVE StatusInv'
    BY <1>2 DEF AllSatisfied
  <1>3. ASSUME NEW c \in Callers, AskForVersion(c) PROVE StatusInv'
    BY <1>3 DEF AskForVersion
  <1>4. ASSUME NEW c \in Callers, Judge(c) PROVE StatusInv'
    BY <1>4 DEF Judge
  <1>5. ASSUME NEW c \in Callers, Lock(c) PROVE StatusInv'
    BY <1>5 DEF Lock
  <1>6. ASSUME NEW c \in Callers, UseCached(c) PROVE StatusInv'
    BY <1>6 DEF UseCached
  <1>7. ASSUME NEW c \in Callers, StartFetch(c) PROVE StatusInv'
    BY <1>7 DEF StartFetch
  <1>8. ASSUME NEW c \in Callers, FetchSucceeds(c) PROVE StatusInv'
    BY <1>8 DEF FetchSucceeds
  <1>9. ASSUME NEW c \in Callers, FetchFails(c) PROVE StatusInv'
    BY <1>9 DEF FetchFails
  <1>10. CASE UNCHANGED vars
    BY <1>10 DEF vars
  <1> QED  BY <1>1, <1>2, <1>3, <1>4, <1>5, <1>6, <1>7, <1>8, <1>9, <1>10 DEF Next, CallerSteps

\* The protocol of mutex and cache of getServerStatusRaw and serverInfo holds in
\* every state, for every number of callers.
THEOREM ClientInvariant == Spec => []ClientInv
  <1>1. ClientInv /\ [Next]_vars => ClientInv'
    BY ClientNextTypeOK, NextStatusInv DEF ClientInv
  <1> QED  BY <1>1, ClientInitInv, PTL DEF Spec

\* The type invariant of the status cache.
THEOREM ClientTypeCorrect == Spec => []TypeOK
  <1>1. ClientInv => TypeOK
    BY DEF ClientInv
  <1> QED  BY <1>1, ClientInvariant, PTL

\* However many goroutines share a client, one status request is in flight.
THEOREM SingleRequest == Spec => []OneRequestInFlight
  <1>1. ClientInv => OneRequestInFlight
    BY DEF ClientInv, TypeOK, StatusInv, MutexProtects, OneRequestInFlight
  <1> QED  BY <1>1, ClientInvariant, PTL

\* The protocol of mutex and cache, as the run states it.
THEOREM StatusProtocol == Spec => []StatusInv
  <1>1. ClientInv => StatusInv
    BY DEF ClientInv
  <1> QED  BY <1>1, ClientInvariant, PTL

\* Version requirements are never judged against two different server versions.
THEOREM JudgementConsistent == Spec => []ConsistentJudgement
  <1>1. ClientInv => ConsistentJudgement
    BY DEF ClientInv, StatusInv, AnswersAreCached, ConsistentJudgement
  <1> QED  BY <1>1, ClientInvariant, PTL

\* A cached status is never replaced: a request starts only when there is none.
THEOREM CacheStable == Spec => CacheIsStable
  <1>1. ClientInv /\ [Next]_vars => [cache # NotCached => cache' = cache]_vars
    BY DEF ClientInv, StatusInv, FetchOnlyIfNotCached, Next, CallerSteps, Upgrade, AllSatisfied,
           AskForVersion, Judge, Lock, UseCached, StartFetch, FetchSucceeds, FetchFails, vars
  <1> QED  BY <1>1, ClientInvariant, PTL DEF Spec, CacheIsStable

\* A caller moves past a requirement only when the cached status meets it, and the
\* cached status is not replaced.
LEMMA NextProgress == ClientInv /\ Progress /\ [Next]_vars => Progress'
  <1> SUFFICES ASSUME ClientInv, Progress, [Next]_vars PROVE Progress'
    OBVIOUS
  <1>0. \A c \in Callers : Len(reqs[c]) \in Nat
    BY RequirementsAssumption DEF ClientInv, TypeOK
  <1> USE <1>0, StatusesAssumption
      DEF ClientInv, TypeOK, Labels, Goto, StatusInv, FetchOnlyIfNotCached, AnswersAreCached, Progress
  <1>1. CASE Upgrade
    BY <1>1 DEF Upgrade
  <1>2. ASSUME NEW c \in Callers, AllSatisfied(c) PROVE Progress'
    BY <1>2 DEF AllSatisfied
  <1>3. ASSUME NEW c \in Callers, AskForVersion(c) PROVE Progress'
    BY <1>3 DEF AskForVersion
  <1>4. ASSUME NEW c \in Callers, Judge(c) PROVE Progress'
    BY <1>4 DEF Judge
  <1>5. ASSUME NEW c \in Callers, Lock(c) PROVE Progress'
    BY <1>5 DEF Lock
  <1>6. ASSUME NEW c \in Callers, UseCached(c) PROVE Progress'
    BY <1>6 DEF UseCached
  <1>7. ASSUME NEW c \in Callers, StartFetch(c) PROVE Progress'
    BY <1>7 DEF StartFetch
  <1>8. ASSUME NEW c \in Callers, FetchSucceeds(c) PROVE Progress'
    BY <1>8 DEF FetchSucceeds
  <1>9. ASSUME NEW c \in Callers, FetchFails(c) PROVE Progress'
    BY <1>9 DEF FetchFails
  <1>10. CASE UNCHANGED vars
    BY <1>10 DEF vars
  <1> QED  BY <1>1, <1>2, <1>3, <1>4, <1>5, <1>6, <1>7, <1>8, <1>9, <1>10 DEF Next, CallerSteps

\* What EnforceVersionRequirements has left behind is met by the cached status.
THEOREM ProgressIsSound == Spec => []Progress
  <1>1. Init => Progress
    <2> SUFFICES ASSUME Init, NEW c \in Callers
                 PROVE  /\ stage[c] = "next" /\ at[c] = 1
                        /\ \A i \in 1 .. Len(reqs[c]) : ~(i < at[c])
      BY DEF Progress
    <2>1. stage[c] = "next" /\ at[c] = 1
      BY DEF Init
    <2> QED  BY <2>1
  <1>2. ClientInv /\ Progress /\ [Next]_vars => Progress'
    BY NextProgress
  <1> QED  BY <1>1, <1>2, ClientInvariant, PTL DEF Spec

\* Every step of the client is a step of the abstract gate or leaves it alone.
LEMMA StepsImplementGate == ClientInv /\ Progress /\ [Next]_vars => [Gate!Next]_(Gate!vars)
  <1> SUFFICES ASSUME ClientInv, Progress, [Next]_vars PROVE [Gate!Next]_(Gate!vars)
    OBVIOUS
  <1> DEFINE V(p) == [c \in Callers |-> IF p[c] \in {"passed", "unsupported", "failed"} THEN p[c] ELSE "undecided"]
  <1>0. \A c \in Callers : reqs[c] \in Seq(SUBSET {s.version : s \in Statuses})
    BY RequirementsAssumption DEF ClientInv, TypeOK
  <1> USE StatusesAssumption DEF ClientInv, TypeOK, Labels, Goto, Gate!vars
  <1>1. CASE Upgrade
    BY <1>1 DEF Upgrade
  <1>2. ASSUME NEW c \in Callers, AllSatisfied(c) PROVE Gate!Pass(c)
    <2>1. V(stage)[c] = "undecided" /\ V(stage') = [V(stage) EXCEPT ![c] = "passed"]
      BY <1>2 DEF AllSatisfied
    <2>2. reqs[c] # <<>> => cache # NotCached /\ Gate!Readable(cache) /\ Gate!Meets(cache, reqs[c])
      BY <1>0, <1>2 DEF AllSatisfied, Progress, Gate!Readable, Gate!Meets, Parses, Satisfies
    <2> QED  BY <1>2, <2>1, <2>2 DEF AllSatisfied, Gate!Pass, Gate!Decide
  <1>3. ASSUME NEW c \in Callers, Judge(c) PROVE [Gate!Reject(c) \/ Gate!GiveUp(c)]_(Gate!vars)
    <2>1. answer[c] = cache /\ cache # NotCached /\ at[c] \in 1 .. Len(reqs[c])
      BY <1>0, <1>3 DEF Judge, Progress, StatusInv, AnswersAreCached
    <2>2. CASE Parses(cache) /\ Satisfies(cache, reqs[c][at[c]])
      BY <1>3, <2>1, <2>2 DEF Judge
    <2>3. CASE Parses(cache) /\ ~Satisfies(cache, reqs[c][at[c]])
      <3>1. Gate!Readable(cache) /\ ~Gate!Meets(cache, reqs[c])
        BY <2>1, <2>3 DEF Gate!Readable, Gate!Meets, Parses, Satisfies
      <3>2. V(stage)[c] = "undecided" /\ V(stage') = [V(stage) EXCEPT ![c] = "unsupported"]
        BY <1>3, <2>1, <2>3 DEF Judge
      <3> QED  BY <1>3, <2>1, <3>1, <3>2 DEF Judge, Gate!Reject, Gate!Decide
    <2>4. CASE ~Parses(cache)
      <3>1. ~Gate!Readable(cache)
        BY <2>4 DEF Gate!Readable, Parses
      <3>2. V(stage)[c] = "undecided" /\ V(stage') = [V(stage) EXCEPT ![c] = "failed"]
        BY <1>3, <2>1, <2>4 DEF Judge
      <3> QED  BY <1>3, <3>1, <3>2 DEF Judge, Gate!GiveUp, Gate!Decide
    <2> QED  BY <2>2, <2>3, <2>4
  <1>4. ASSUME NEW c \in Callers, FetchSucceeds(c) PROVE Gate!Settle
    <2>1. cache = NotCached /\ cache' \in Statuses /\ UNCHANGED reqs
      BY <1>4 DEF FetchSucceeds, StatusInv, FetchOnlyIfNotCached
    <2>2. V(stage') = V(stage)
      BY <1>4 DEF FetchSucceeds
    <2> QED  BY <2>1, <2>2 DEF Gate!Settle
  <1>5. ASSUME NEW c \in Callers, FetchFails(c) PROVE Gate!GiveUp(c)
    <2>1. cache = NotCached
      BY <1>5 DEF FetchFails, StatusInv, FetchOnlyIfNotCached
    <2>2. V(stage)[c] = "undecided" /\ V(stage') = [V(stage) EXCEPT ![c] = "failed"]
      BY <1>5 DEF FetchFails
    <2> QED  BY <1>5, <2>1, <2>2 DEF FetchFails, Gate!GiveUp, Gate!Decide
  <1>6. ASSUME NEW c \in Callers, AskForVersion(c) \/ Lock(c) \/ UseCached(c) \/ StartFetch(c)
        PROVE  UNCHANGED Gate!vars
    <2>1. V(stage') = V(stage)
      BY <1>6 DEF AskForVersion, Lock, UseCached, StartFetch
    <2> QED  BY <1>6, <2>1 DEF AskForVersion, Lock, UseCached, StartFetch
  <1>7. CASE UNCHANGED vars
    BY <1>7 DEF vars
  <1> QED  BY <1>1, <1>2, <1>3, <1>4, <1>5, <1>6, <1>7 DEF Next, CallerSteps, Gate!Next

\* The status cache implements version gating: whoever fetched the status and
\* whenever the server was upgraded, each verdict is that of the settled status.
THEOREM ImplementsGate == Spec => VerdictsFollowStatus
  <1>1. Init => Gate!Init
    BY DEF Init, Gate!Init
  <1>2. ClientInv /\ Progress /\ [Next]_vars => [Gate!Next]_(Gate!vars)
    BY StepsImplementGate
  <1> QED  BY <1>1, <1>2, ClientInvariant, ProgressIsSound, PTL DEF Spec, VerdictsFollowStatus, Gate!Spec

(***************************************************************************)
(* The ephemeral API key: the private state is enough for Close, and no    *)
(* key is left behind without an error, for any number of resources and    *)
(* clusters.                                                               *)
(***************************************************************************)

\* A client is always made for a cluster.
LEMMA ClientIsCluster == ASSUME NEW c \in Conns PROVE ClientFor(c) \in Clusters
  BY EphemeralAssumption DEF Conns, ClientFor

\* One step of the envelope or of Terraform core preserves the invariant.
LEMMA EInvStep == EInv /\ [KeyNext]_keyVars => EInv'
<1> SUFFICES ASSUME EInv, [KeyNext]_keyVars PROVE EInv'
  OBVIOUS
<1> USE EphemeralAssumption, ClientIsCluster DEF EInv
<1>1. KeyTypeOK'
  <2>1. CASE UNCHANGED keyVars
    BY <2>1 DEF KeyTypeOK, keyVars
  <2>2. CASE Killed
    BY <2>2 DEF KeyTypeOK, Killed, slots
  <2>3. ASSUME NEW i \in Opens,
               \/ BeginOpen(i) \/ OpenRejected(i) \/ SaveFails(i) \/ SetResult(i) \/ BeginClose(i)
        PROVE  KeyTypeOK'
    BY <2>3 DEF KeyTypeOK, BeginOpen, OpenRejected, SaveFails, SetResult, BeginClose, Error, Go, At, Steps, slots
  <2>4. ASSUME NEW i \in Opens, CreateAPIKey(i) \/ CreateFails(i)
        PROVE  KeyTypeOK'
    <3>1. config[i].conn \in Conns
      BY DEF KeyTypeOK, Config
    <3>2. <<i, ClientFor(config[i].conn)>> \in Opens \X Clusters
      <4>1. ClientFor(config[i].conn) \in Clusters
        BY <3>1, ClientIsCluster, Zenon
      <4> QED
        BY <4>1
    <3>3. live' \in {live, live \cup {<<i, ClientFor(config[i].conn)>>}}
      BY <2>4 DEF CreateAPIKey, CreateFails
    <3>4. live' \subseteq Opens \X Clusters
      BY <3>2, <3>3 DEF KeyTypeOK
    <3> QED
      BY <2>4, <3>4 DEF KeyTypeOK, CreateAPIKey, CreateFails, Error, Go, At, Steps, slots
  <2>5. ASSUME NEW i \in Opens, SaveConnection(i) \/ SaveCloseState(i)
        PROVE  KeyTypeOK'
    <3>1. /\ config[i].conn \in Conns
          /\ [key |-> i, invalidate |-> config[i].invalidate] \in CloseState
      BY DEF KeyTypeOK, Config, CloseState
    <3> QED
      BY <2>5, <3>1 DEF KeyTypeOK, SaveConnection, SaveCloseState, Go, At, Steps
  <2>6. ASSUME NEW i \in Opens, Close(i) \/ CloseFails(i)
        PROVE  KeyTypeOK'
    BY <2>6 DEF KeyTypeOK, Close, CloseFails, Error, Go, At, Steps, slots
  <2> QED
    BY <2>1, <2>2, <2>3, <2>4, <2>5, <2>6 DEF KeyNext
<1>2. SlotsFilled'
  <2> SUFFICES ASSUME NEW j \in Opens
      PROVE /\ step'[j] \in {"saveState", "setResult", "open", "closing"} => connSlot'[j] = config'[j].conn
            /\ step'[j] \in {"setResult", "open", "closing"} =>
                 stateSlot'[j] = [key |-> j, invalidate |-> config'[j].invalidate]
    BY DEF SlotsFilled
  <2>1. CASE UNCHANGED keyVars \/ Killed
    BY <2>1 DEF SlotsFilled, keyVars, Killed, slots
  <2>2. ASSUME NEW i \in Opens,
               \/ BeginOpen(i) \/ OpenRejected(i) \/ SaveFails(i) \/ SetResult(i) \/ BeginClose(i)
               \/ CreateAPIKey(i) \/ CreateFails(i) \/ Close(i) \/ CloseFails(i)
        PROVE  /\ step'[j] \in {"saveState", "setResult", "open", "closing"} => connSlot'[j] = config'[j].conn
               /\ step'[j] \in {"setResult", "open", "closing"} =>
                    stateSlot'[j] = [key |-> j, invalidate |-> config'[j].invalidate]
    BY <2>2 DEF KeyTypeOK, SlotsFilled, BeginOpen, OpenRejected, SaveFails, SetResult, BeginClose, CreateAPIKey,
       CreateFails, Close, CloseFails, Error, Go, At, slots
  <2>3. ASSUME NEW i \in Opens, SaveConnection(i) \/ SaveCloseState(i)
        PROVE  /\ step'[j] \in {"saveState", "setResult", "open", "closing"} => connSlot'[j] = config'[j].conn
               /\ step'[j] \in {"setResult", "open", "closing"} =>
                    stateSlot'[j] = [key |-> j, invalidate |-> config'[j].invalidate]
    BY <2>3 DEF KeyTypeOK, SlotsFilled, SaveConnection, SaveCloseState, Go, At
  <2> QED
    BY <2>1, <2>2, <2>3 DEF KeyNext
<1>3. KeyPlaces' /\ NoSilentLeak'
  <2>1. CASE UNCHANGED keyVars \/ Killed
    BY <2>1 DEF KeyPlaces, NoSilentLeak, KeysOf, keyVars, Killed, slots
  <2>2. ASSUME NEW i \in Opens,
               \/ BeginOpen(i) \/ OpenRejected(i) \/ SaveFails(i) \/ SetResult(i) \/ BeginClose(i)
               \/ SaveConnection(i) \/ SaveCloseState(i)
        PROVE  KeyPlaces' /\ NoSilentLeak'
    BY <2>2 DEF KeyTypeOK, KeyPlaces, NoSilentLeak, KeysOf, BeginOpen, OpenRejected, SaveFails, SetResult, BeginClose,
       SaveConnection, SaveCloseState, Error, Go, At, slots
  <2>3. ASSUME NEW i \in Opens, CreateAPIKey(i) \/ CreateFails(i)
        PROVE  KeyPlaces' /\ NoSilentLeak'
    BY <2>3 DEF KeyTypeOK, KeyPlaces, NoSilentLeak, KeysOf, CreateAPIKey, CreateFails, Error, Go, At, slots
  <2>4. ASSUME NEW i \in Opens, Close(i)
        PROVE  KeyPlaces' /\ NoSilentLeak'
    <3>1. /\ connSlot[i] = config[i].conn
          /\ stateSlot[i].key = i /\ stateSlot[i].invalidate = config[i].invalidate
          /\ ~NothingSaved(i)
      <4>1. config[i].conn \in Conns /\ config[i].invalidate \in BOOLEAN
        BY DEF KeyTypeOK, Config
      <4>2. [key |-> i, invalidate |-> config[i].invalidate] \in CloseState
        BY <4>1 DEF CloseState
      <4> QED
        BY <2>4, <4>1, <4>2 DEF SlotsFilled, NothingSaved, Close, At
    <3>2. live' = IF config[i].invalidate THEN live \ {<<i, ClientFor(config[i].conn)>>} ELSE live
      BY <2>4, <3>1 DEF Close, Invalidates
    <3>3. /\ step' = [step EXCEPT ![i] = "closed"] /\ step[i] = "closing"
          /\ UNCHANGED <<config, reported>>
      BY <2>4 DEF Close, At, Go
    <3>4. KeyPlaces'
      BY <3>2, <3>3 DEF KeyTypeOK, KeyPlaces, KeysOf
    <3>5. NoSilentLeak'
      BY <3>2, <3>3 DEF KeyTypeOK, KeyPlaces, NoSilentLeak, KeysOf
    <3> QED
      BY <3>4, <3>5
  <2>5. ASSUME NEW i \in Opens, CloseFails(i)
        PROVE  KeyPlaces' /\ NoSilentLeak'
    <3>1. /\ step' = [step EXCEPT ![i] = "closed"] /\ step[i] = "closing"
          /\ reported' = [reported EXCEPT ![i] = TRUE] /\ UNCHANGED config
          /\ live' \subseteq live
      BY <2>5 DEF CloseFails, At, Go, Error
    <3> QED
      BY <3>1 DEF KeyTypeOK, KeyPlaces, NoSilentLeak, KeysOf
  <2> QED
    BY <2>1, <2>2, <2>3, <2>4, <2>5 DEF KeyNext
<1> QED
  BY <1>1, <1>2, <1>3

\* The inductive invariant: types, the slots of the private state, where the
\* keys are, and that none is left behind silently.
THEOREM EphemeralInvariant == KeySpec => []EInv
<1>1. KeyInit => EInv
  BY DEF KeyInit, EInv, KeyTypeOK, SlotsFilled, KeyPlaces, NoSilentLeak, KeysOf, Steps
<1> QED
  BY <1>1, EInvStep, PTL DEF KeySpec

\* openWithPrivate and Close keep their variables in their types.
THEOREM EphemeralTypeCorrect == KeySpec => []KeyTypeOK
  BY EphemeralInvariant, PTL DEF EInv

\* persistOpenPrivateState leaves in the private state of everything that was
\* opened exactly what closeFromPrivate decodes.
THEOREM OpenedIsCloseable == KeySpec => []OpenIsCloseable
<1>1. EInv => OpenIsCloseable
  BY DEF EInv, SlotsFilled, OpenIsCloseable
<1> QED
  BY <1>1, EphemeralInvariant, PTL

\* The key of a resource is on the cluster of its connection block only.
THEOREM KeysInPlace == KeySpec => []KeyPlaces
  BY EphemeralInvariant, PTL DEF EInv

\* No failure of Open or Close leaves a key behind without a diagnostic.
THEOREM NoSilentLeaks == KeySpec => []NoSilentLeak
  BY EphemeralInvariant, PTL DEF EInv

\* The close of one resource never invalidates the key of another.
THEOREM OwnKeysOnly == KeySpec => InvalidatedByItsClose
<1>1. ASSUME EInv, KeyNext, NEW i \in Opens, NEW k \in KeysOf(i), k \notin live'
      PROVE  step[i] = "closing" /\ config[i].invalidate
  <2>1. PICK j \in Opens : Close(j) \/ CloseFails(j)
    BY <1>1 DEF KeyNext, KeysOf, BeginOpen, OpenRejected, CreateAPIKey, CreateFails, SaveConnection, SaveCloseState,
       SetResult, SaveFails, BeginClose, Killed, Error, slots
  <2>2. /\ step[j] = "closing" /\ Invalidates(stateSlot[j])
        /\ k = <<stateSlot[j].key, ClientFor(connSlot[j])>>
    BY <1>1, <2>1 DEF KeysOf, Close, CloseFails, At
  <2>3. stateSlot[j].key = j /\ stateSlot[j].invalidate = config[j].invalidate
    <3>1. stateSlot[j] = [key |-> j, invalidate |-> config[j].invalidate]
      BY <1>1, <2>2 DEF EInv, SlotsFilled
    <3> QED
      BY <3>1
  <2> QED
    BY <1>1, <2>2, <2>3 DEF KeysOf, Invalidates
<1>2. EInv /\ [KeyNext]_keyVars =>
        [\A i \in Opens : \A k \in KeysOf(i) : k \notin live' => step[i] = "closing" /\ config[i].invalidate]_keyVars
  BY <1>1
<1> QED
  BY <1>2, EphemeralInvariant, PTL DEF KeySpec, InvalidatedByItsClose
=============================================================================
