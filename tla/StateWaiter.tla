---------------------------- MODULE StateWaiter ----------------------------
(***************************************************************************)
(* asyncutils.WaitForTerminalOrDesiredState, which polls a remote          *)
(* resource through WaitForStateTransition and PollWithBackoff, while the  *)
(* server and other clients move the resource.                             *)
(***************************************************************************)
EXTENDS BackoffPoller

CONSTANTS
  States,          \* the states of the remote resource (an ML job, a datafeed)
  Terminal,        \* terminalStates: the server does not leave them by itself
  Moves,           \* the transitions the server makes by itself
  Absent,          \* getState returns nil: the resource does not exist
  PollIntervals,   \* the intervals callers pass to WithPollInterval
  DefaultInterval, \* defaultPollInterval
  MaxActs          \* bound: how often another client acts on the resource

ASSUME WaiterAssumption ==
  /\ Terminal \subseteq States
  /\ Moves \subseteq (States \ Terminal) \X States
  /\ Absent \notin States
  /\ PollIntervals \subseteq Nat
  /\ DefaultInterval \in Nat \ {0}
  /\ MaxActs \in Nat

VARIABLES
  desired,    \* desiredState
  remote,     \* the state of the resource on the server
  observed,   \* what the last lookup returned
  cause,      \* why the checker failed: "lookup", "absent" or "terminal"
  acts,       \* how often another client acted
  settledAt   \* since when remote is in a terminal state other than desired; -1: it is not

envVars == <<remote, acts, settledAt>>
waitVars == <<pollVars, desired, observed, cause, envVars>>

\* WithPollInterval ignores a non-positive interval.
PollInterval(d) == IF d > 0 THEN d ELSE DefaultInterval

\* Defect: the waiter gives up after a fixed number of attempts.
BoundedWaitPolicy(d) ==
  [Initial |-> PollInterval(d), Max |-> 0, MaxAttempts |-> 2, MaxElapsed |-> 0, Jitter |-> 0]

\* The policy WaitForStateTransition polls with: flat and unbounded.
WaitPolicy(d) ==
  [Initial |-> PollInterval(d), Max |-> 0, MaxAttempts |-> 0, MaxElapsed |-> 0, Jitter |-> 0]

\* Defect: the terminal states are looked up before the desired state.
TerminalFirst(s) == s \in Terminal

\* A terminal state other than the desired one.
Mismatched(s) == s \in Terminal \ {desired}

WaitInit ==
  /\ \E d \in PollIntervals : cfg = WaitPolicy(d) /\ backoff = cfg.Initial
  /\ ctxDoneAt \in CtxDoneAts
  /\ now = 0 /\ timerAt = 0 /\ attempt = 1
  /\ pc = "precheck" /\ result = "none"
  /\ desired \in States
  /\ remote \in States \cup {Absent}
  /\ observed = Absent /\ cause = "none" /\ acts = 0
  /\ settledAt = IF Mismatched(remote) THEN 0 ELSE -1

(***************************************************************************)
(* The waiter.                                                             *)
(***************************************************************************)

\* An ended context returns without a check; otherwise polling starts.
CtxPrecheck ==
  /\ pc = "precheck"
  /\ IF ctxDoneAt <= now THEN Return("ctxerr") ELSE pc' = "call" /\ UNCHANGED result
  /\ UNCHANGED <<cfg, ctxDoneAt, now, attempt, backoff, timerAt>>
  /\ UNCHANGED <<desired, observed, cause, envVars>>

\* getState fails: a transport error, or an ended context.
LookupFails ==
  /\ CallSettles("error")
  /\ cause' = "lookup"
  /\ UNCHANGED <<desired, observed, envVars>>

CheckAbsent ==
  /\ remote = Absent
  /\ CallSettles("error")
  /\ observed' = remote /\ cause' = "absent"
  /\ UNCHANGED <<desired, envVars>>

CheckDesired ==
  /\ remote = desired
  /\ CallSettles("done")
  /\ observed' = remote
  /\ UNCHANGED <<desired, cause, envVars>>

CheckTerminal ==
  /\ Mismatched(remote)
  /\ CallSettles("error")
  /\ observed' = remote /\ cause' = "terminal"
  /\ UNCHANGED <<desired, envVars>>

\* Defect: the checker does not know the terminal states.
CheckAnyAgain ==
  /\ remote \in States \ {desired}
  /\ CallRetries \/ CallExhausts
  /\ observed' = remote
  /\ UNCHANGED <<desired, cause, envVars>>

\* Any other state: the poller decides whether to wait or to give up.
CheckAgain ==
  /\ remote \in States \ (Terminal \cup {desired})
  /\ CallRetries \/ CallExhausts
  /\ observed' = remote
  /\ UNCHANGED <<desired, cause, envVars>>

SelectWakes == Select /\ UNCHANGED <<desired, observed, cause, envVars>>

Waiter ==
  \/ CtxPrecheck \/ LookupFails \/ CheckAbsent \/ CheckDesired \/ CheckTerminal
  \/ CheckAgain \/ SelectWakes

(***************************************************************************)
(* The server and the other clients.                                       *)
(***************************************************************************)

RemoteBecomes(s) ==
  /\ remote' = s
  /\ settledAt' = IF ~Mismatched(s) THEN -1 ELSE IF settledAt >= 0 THEN settledAt ELSE now

ServerMoves ==
  /\ pc # "returned"
  /\ \E s \in States : <<remote, s>> \in Moves /\ RemoteBecomes(s)
  /\ UNCHANGED <<pollVars, desired, observed, cause, acts>>

OtherClientActs ==
  /\ pc # "returned"
  /\ acts < MaxActs
  /\ acts' = acts + 1
  /\ \E s \in (States \cup {Absent}) \ {remote} : RemoteBecomes(s)
  /\ UNCHANGED <<pollVars, desired, observed, cause>>

WaitNext == Waiter \/ ServerMoves \/ OtherClientActs

\* The waiter's own steps are taken; nothing is assumed of the server.
WaitSpec == WaitInit /\ [][WaitNext]_waitVars /\ WF_waitVars(Waiter)

(***************************************************************************)
(* Properties.                                                             *)
(***************************************************************************)

\* Types: whatever interval a caller passes, the waiter never polls without delay.
WaitTypeOK ==
  /\ cfg \in BackoffConfig
  /\ ctxDoneAt \in CtxDoneAts
  /\ now \in Nat /\ timerAt \in Nat /\ attempt \in Nat \ {0} /\ backoff \in Nat \ {0}
  /\ pc \in {"precheck", "call", "select", "returned"}
  /\ result \in {"none", "done", "error", "exhausted", "ctxerr"}
  /\ desired \in States
  /\ remote \in States \cup {Absent} /\ observed \in States \cup {Absent}
  /\ cause \in {"none", "lookup", "absent", "terminal"}
  /\ acts \in 0 .. MaxActs
  /\ settledAt \in Nat \cup {-1}

\* WaitForStateTransition returns a nil error only when a lookup saw the desired
\* state: PollWithBackoff's nil error on an exhausted bound must not leak through.
NilErrorMeansSeen == result \in {"done", "exhausted"} => observed = desired

\* ErrTerminalState means a lookup saw a terminal state that is not the desired
\* one, so a caller that maps it to "did not get there" is right.
TerminalErrorIsTruthful == cause = "terminal" => observed \in Terminal /\ observed # desired

\* Fail fast: once the resource has settled in a wrong terminal state the waiter
\* returns within one poll interval instead of waiting out its deadline.
FailsFast ==
  (settledAt >= 0 /\ pc \in {"call", "select"}) => now <= settledAt + cfg.Initial

\* An ended context is reported without a single lookup.
NoLookupWithEndedCtx == (ctxDoneAt = 0) => observed = Absent /\ cause = "none"

\* A wrong terminal state is reported in time, and never a right one.
WaitErrorsInv == TerminalErrorIsTruthful /\ FailsFast
=============================================================================
