--------------------------- MODULE BackoffPoller ---------------------------
(***************************************************************************)
(* asyncutils.PollWithBackoff: one goroutine that calls a poll function,   *)
(* then waits for a timer or for its context, until the function reports   *)
(* done, fails, or a configured bound is reached.                          *)
(*                                                                         *)
(* Time is a natural number that only the goroutine's own steps move: a    *)
(* call of the poll function takes 0..MaxCall, and the select statement    *)
(* sleeps until the timer or the context, whichever comes first.           *)
(***************************************************************************)
EXTENDS Integers

CONSTANTS
  Configs,     \* the BackoffConfig values callers may pass
  CtxDoneAts,  \* the times at which the caller's context may end
  MaxCall      \* bound: the longest one call of the poll function takes

\* A duration or count of zero switches the corresponding bound off.  Jitter is
\* the fraction of the delay in percent (0.5 is 50).
BackoffConfig ==
  [Initial : Nat \ {0}, Max : Nat, MaxAttempts : Nat, MaxElapsed : Nat, Jitter : Nat]

ASSUME ConfigsAssumption == Configs \subseteq BackoffConfig
ASSUME CtxDoneAtsAssumption == CtxDoneAts \subseteq Nat
ASSUME MaxCallAssumption == MaxCall \in Nat

VARIABLES
  cfg,        \* the BackoffConfig of this call
  ctxDoneAt,  \* when ctx is cancelled or its deadline passes
  now,        \* the clock; the call starts at time 0
  pc,         \* "call": about to call fn; "select": waiting; "returned"
  attempt,    \* the 1-based number of the current attempt
  backoff,    \* the delay of the next wait, before jitter
  timerAt,    \* when the timer of the current wait fires
  result      \* how PollWithBackoff returned

pollVars == <<cfg, ctxDoneAt, now, pc, attempt, backoff, timerAt, result>>

Larger(a, b) == IF a >= b THEN a ELSE b

(***************************************************************************)
(* The delay.                                                              *)
(***************************************************************************)

\* The width of the random extra delay for a given delay.
JitterSpan(delay) == (delay * cfg.Jitter) \div 100

\* The delays withJitter may return: rand.Int64N(span) excludes span itself.
JitteredDelays(delay) ==
  IF JitterSpan(delay) > 0 THEN delay .. (delay + JitterSpan(delay) - 1) ELSE {delay}

\* Defect: the cap on the doubled delay is forgotten.
NextBackoffUncapped == IF cfg.Max > 0 THEN 2 * backoff ELSE backoff

\* Doubling with a cap, or a flat delay when no cap is configured.
NextBackoff ==
  IF cfg.Max > 0 THEN (IF 2 * backoff > cfg.Max THEN cfg.Max ELSE 2 * backoff)
                 ELSE backoff

(***************************************************************************)
(* The loop.                                                               *)
(***************************************************************************)

PollInit ==
  /\ cfg \in Configs
  /\ ctxDoneAt \in CtxDoneAts
  /\ now = 0
  /\ pc = "call"
  /\ attempt = 1
  /\ backoff = cfg.Initial
  /\ timerAt = 0
  /\ result = "none"

\* Defects: the attempt bound is off by one; zero attempts read as "none left"
\* rather than "unbounded"; the elapsed time restarts with every attempt.
AttemptsUsedUpOffByOne == cfg.MaxAttempts > 0 /\ attempt > cfg.MaxAttempts
AttemptsUsedUpAtZero == attempt >= cfg.MaxAttempts
ElapsedSinceLastAttempt(t) == cfg.MaxElapsed > 0 /\ t - now >= cfg.MaxElapsed

AttemptsUsedUp == cfg.MaxAttempts > 0 /\ attempt >= cfg.MaxAttempts

ElapsedUsedUp(t) == cfg.MaxElapsed > 0 /\ t >= cfg.MaxElapsed

Return(r) == pc' = "returned" /\ result' = r

\* fn reported done or an error: its verdict is returned as it is.
CallSettles(verdict) ==
  /\ pc = "call"
  /\ \E d \in 0 .. MaxCall : now' = now + d
  /\ Return(verdict)
  /\ UNCHANGED <<cfg, ctxDoneAt, attempt, backoff, timerAt>>

\* fn wants another attempt but a bound is reached: a nil error is returned.
CallExhausts ==
  /\ pc = "call"
  /\ \E d \in 0 .. MaxCall : now' = now + d
  /\ AttemptsUsedUp \/ ElapsedUsedUp(now')
  /\ Return("exhausted")
  /\ UNCHANGED <<cfg, ctxDoneAt, attempt, backoff, timerAt>>

\* fn wants another attempt and no bound is reached: the wait begins.
CallRetries ==
  /\ pc = "call"
  /\ \E d \in 0 .. MaxCall : now' = now + d
  /\ ~AttemptsUsedUp
  /\ ~ElapsedUsedUp(now')
  /\ \E delay \in JitteredDelays(backoff) : timerAt' = now' + delay
  /\ pc' = "select"
  /\ UNCHANGED <<cfg, ctxDoneAt, attempt, backoff, result>>

\* Defects: the context is looked at and then plainly slept through; a context
\* that is never seen.
SleepAfterCtxCheck ==
  /\ pc = "select"
  /\ now < ctxDoneAt
  /\ now' = timerAt
  /\ pc' = "call"
  /\ attempt' = attempt + 1
  /\ backoff' = NextBackoff
  /\ UNCHANGED <<cfg, ctxDoneAt, timerAt, result>>
CtxNeverSeen == FALSE

\* The select statement wakes at the first of the two events.  When both are
\* ready Go picks either.
SelectTimer ==
  /\ pc = "select"
  /\ timerAt <= Larger(now, ctxDoneAt)
  /\ now' = timerAt
  /\ pc' = "call"
  /\ attempt' = attempt + 1
  /\ backoff' = NextBackoff
  /\ UNCHANGED <<cfg, ctxDoneAt, timerAt, result>>

SelectCtxDone ==
  /\ pc = "select"
  /\ Larger(now, ctxDoneAt) <= timerAt
  /\ now' = Larger(now, ctxDoneAt)
  /\ Return("ctxerr")
  /\ UNCHANGED <<cfg, ctxDoneAt, attempt, backoff, timerAt>>

Select == SelectTimer \/ SelectCtxDone

\* The function that PollWithBackoff is given is arbitrary here.
PollNext ==
  \/ CallSettles("done")
  \/ CallSettles("error")
  \/ CallExhausts
  \/ CallRetries
  \/ Select

\* A call of fn returns and a select whose timer is armed wakes.
PollSpec == PollInit /\ [][PollNext]_pollVars /\ WF_pollVars(PollNext)

(***************************************************************************)
(* Properties.                                                             *)
(***************************************************************************)

\* Types: attempts are counted from one and a delay is never zero.
PollTypeOK ==
  /\ cfg \in Configs
  /\ ctxDoneAt \in CtxDoneAts
  /\ now \in Nat
  /\ pc \in {"call", "select", "returned"}
  /\ attempt \in Nat \ {0}
  /\ backoff \in Nat \ {0}
  /\ timerAt \in Nat
  /\ result \in {"none", "done", "error", "exhausted", "ctxerr"}

\* fn is called at most MaxAttempts times when MaxAttempts is set.
AttemptsWithinBound == cfg.MaxAttempts > 0 => attempt <= cfg.MaxAttempts

LongestBackoff == Larger(cfg.Initial, cfg.Max)

\* The delay never grows beyond the larger of Initial and Max; with no Max it
\* stays flat at Initial.
BackoffWithinBound == backoff <= LongestBackoff /\ (cfg.Max = 0 => backoff = cfg.Initial)

\* The longest wait between two attempts.
LongestWait == LongestBackoff + JitterSpan(LongestBackoff)

\* How far a MaxElapsed policy can overrun: the elapsed check precedes the wait,
\* so the last attempt starts less than one longest wait after MaxElapsed.
OverrunWithinOneWait ==
  (cfg.MaxElapsed > 0 /\ pc = "call") => now < cfg.MaxElapsed + LongestWait

\* What holds during a wait: the timer is armed within one longest wait, in the
\* future, and neither bound was reached when the wait began.  This is the part
\* of the inductive invariant that the bounds above rest on.
WaitArmed ==
  pc = "select" =>
    /\ now < timerAt /\ timerAt <= now + LongestWait
    /\ cfg.MaxAttempts > 0 => attempt < cfg.MaxAttempts
    /\ cfg.MaxElapsed > 0 => now < cfg.MaxElapsed

\* The attempt that follows a wait starts no later than the context's end, be it
\* before the wait or during it: now is when the wait began and now' when it ended,
\* and the timer of a wait is in the future when the wait begins.  Only when both
\* events fall together may the select still choose the timer.
NoAttemptAfterCtxDone ==
  [][(pc = "select" /\ pc' = "call") => now' <= ctxDoneAt]_pollVars

\* The caller gets control back no later than one call after its context ended,
\* and no attempt starts after that moment.
ReturnsByDeadline ==
  /\ now <= ctxDoneAt + MaxCall
  /\ pc = "call" => now <= ctxDoneAt

\* A nil error without a done verdict is returned only when the caller set a
\* bound: an unbounded policy never reports success for something unseen.
SilentExhaustionNeedsBound ==
  result = "exhausted" => cfg.MaxAttempts > 0 \/ cfg.MaxElapsed > 0

\* PollWithBackoff returns: every caller's context has a deadline.
PollReturns == <>(pc = "returned")

\* The documented reading of MaxElapsed ("bounds the total wall-clock time spent
\* retrying, measured from the first attempt"): no attempt starts later.
MaxElapsedBoundsRetrying ==
  (cfg.MaxElapsed > 0 /\ pc = "call") => now <= cfg.MaxElapsed

=============================================================================
