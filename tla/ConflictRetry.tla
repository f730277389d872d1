--------------------------- MODULE ConflictRetry ---------------------------
(***************************************************************************)
(* kibanautil.ConflictRetry: a Kibana write that is sent again while       *)
(* Kibana answers 409 Conflict, through PollWithBackoff.  Others hold      *)
(* Kibana's write lock for a while, and may change the object a versioned  *)
(* update was built from, which then conflicts whatever the lock does.     *)
(*                                                                         *)
(* Time is counted in units of the initial delay.                          *)
(***************************************************************************)
EXTENDS BackoffPoller

CONSTANT MaxAttemptsOf \* the values of maxAttempts callers pass

ASSUME MaxAttemptsAssumption == MaxAttemptsOf \subseteq Nat \ {0}

VARIABLES
  versioned,  \* the request carries the version of the object it updates
  locked,     \* another writer holds the write lock
  stale,      \* the version in the request is no longer the current one
  status,     \* the last answer: its kind of status code
  applied,    \* history: how often the write took effect
  metLockAt   \* history: when an attempt last met the lock

kibana == <<locked, stale>>
retryVars == <<pollVars, versioned, kibana, status, applied, metLockAt>>

Answers == {"none", "ok", "conflict", "rejected", "transport"}

\* Defect: without a Max the poller's delay is flat.
FlatPolicy(n) == [Initial |-> 1, Max |-> 0, MaxAttempts |-> n, MaxElapsed |-> 0, Jitter |-> 50]

\* 500ms at first, doubling up to an hour.
ConflictPolicy(n) == [Initial |-> 1, Max |-> 7200, MaxAttempts |-> n, MaxElapsed |-> 0, Jitter |-> 50]

RetryInit ==
  /\ \E n \in MaxAttemptsOf : cfg = ConflictPolicy(n)
  /\ ctxDoneAt \in CtxDoneAts
  /\ now = 0 /\ timerAt = 0 /\ attempt = 1 /\ backoff = 1
  /\ pc = "call" /\ result = "none"
  /\ versioned \in BOOLEAN /\ locked \in BOOLEAN
  /\ stale = FALSE /\ status = "none" /\ applied = 0 /\ metLockAt = -1

\* Defect: any failure is tried again.
DoneOnSuccess(s) == s = "ok"

\* Only a conflict is tried again, not a lost answer: status code zero.
Done(s) == s # "conflict"

\* What Kibana answers, and whether the write takes effect: a request whose
\* answer is lost may have been carried out.
Answer(s) ==
  /\ s = "conflict" <=> (locked \/ stale) /\ s # "transport"
  /\ applied' \in CASE s = "ok" -> {applied + 1}
                    [] s = "transport" /\ ~locked /\ ~stale -> {applied, applied + 1}
                    [] OTHER -> {applied}
  /\ metLockAt' = IF locked THEN now ELSE metLockAt

Attempt ==
  /\ \E s \in Answers \ {"none"} :
       /\ Answer(s)
       /\ status' = s
       /\ IF Done(s) THEN CallSettles("done") ELSE CallRetries \/ CallExhausts
  /\ UNCHANGED <<versioned, kibana>>

Waits == Select /\ UNCHANGED <<versioned, kibana, status, applied, metLockAt>>

\* Other writers take and release the lock, and change the object under it.
OtherWriter ==
  /\ pc # "returned"
  /\ locked' = ~locked
  /\ stale' \in IF locked /\ versioned THEN {stale, TRUE} ELSE {stale}
  /\ UNCHANGED <<pollVars, versioned, status, applied, metLockAt>>

RetryNext == Attempt \/ Waits \/ OtherWriter

\* The goroutine's own steps are taken; nothing is assumed of other writers.
RetrySpec == RetryInit /\ [][RetryNext]_retryVars /\ WF_retryVars(Attempt \/ Waits)

\* Defect: the nil error of the poller is taken for the write's.
ReportsNilError == pc = "returned" /\ result # "ctxerr"

\* The caller sees no error diagnostic: an exhausted policy is a nil error, so
\* the diagnostics of the last answer decide.
ReportsSuccess == pc = "returned" /\ result # "ctxerr" /\ status = "ok"

(***************************************************************************)
(* Properties.                                                             *)
(***************************************************************************)

\* Types, and what the poller promises of its own variables.
RetryTypeOK ==
  /\ cfg \in {ConflictPolicy(n) : n \in MaxAttemptsOf}
  /\ ctxDoneAt \in CtxDoneAts
  /\ now \in Nat /\ timerAt \in Nat /\ attempt \in Nat \ {0} /\ backoff \in Nat \ {0}
  /\ pc \in {"call", "select", "returned"}
  /\ result \in {"none", "done", "exhausted", "ctxerr"}
  /\ versioned \in BOOLEAN /\ locked \in BOOLEAN /\ stale \in BOOLEAN
  /\ status \in Answers /\ applied \in Nat /\ metLockAt \in Nat \cup {-1}

\* A write is never carried out twice: it is sent again only after Kibana
\* refused it, never after its answer was lost.
AppliedAtMostOnce == applied <= 1

\* Success is reported only for a write that took effect: neither the nil error
\* of an exhausted policy nor an earlier answer stands for one.
SuccessMeansApplied == ReportsSuccess => applied = 1

\* A write fails with a conflict only if the lock was still held when the last
\* attempt was due, which is the doubled delays after the first attempt, or if
\* the version in the request is outdated: brief contention leaves no error.
ConflictMeansLongLock ==
  (result = "exhausted" /\ status = "conflict") =>
    stale \/ (attempt = cfg.MaxAttempts /\ metLockAt + 1 >= 2 ^ (cfg.MaxAttempts - 1))
=============================================================================
