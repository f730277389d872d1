----------------------------- MODULE MCPolling -----------------------------
(***************************************************************************)
(* PollWithBackoff under each kind of caller: an arbitrary callback under  *)
(* every shape of policy, a waiter on a resource with the life cycle of an *)
(* ML datafeed, and a Kibana write that is retried on conflicts.  A        *)
(* behaviour is about one caller; the variables of the others rest.        *)
(*                                                                         *)
(* The life cycle: "starting" and "stopping" are left by the server        *)
(* itself, "started" and "stopped" are the terminal states (a datafeed     *)
(* that comes to its end is another client's act here).                    *)
(***************************************************************************)
EXTENDS StateWaiter, ConflictRetry

VARIABLE caller

waiterVars == <<desired, observed, cause, envVars>>
writeVars == <<versioned, kibana, status, applied, metLockAt>>
vars == <<caller, pollVars, waiterVars, writeVars>>

\* Capped and flat delays, every combination of the bounds, an Initial above Max,
\* and jitter.
MCConfigs ==
  [Initial : {1, 3}, Max : {0, 2, 5}, MaxAttempts : {0, 3}, MaxElapsed : {0, 4}, Jitter : {0, 50}]

MCStates == {"starting", "started", "stopping", "stopped"}
MCTerminal == {"started", "stopped"}
MCMoves == {<<"starting", "started">>, <<"stopping", "stopped">>, <<"starting", "stopped">>}
MCPollIntervals == {0, 3}

\* Deadlines that end a call before its first wait, in and between waits, and
\* after the last attempt of a retried write.
MCCtxDoneAts == {0, 3, 6, 9, 14, 24}

NoWait ==
  /\ desired = "stopped" /\ remote = desired /\ observed = desired
  /\ cause = "none" /\ acts = 0 /\ settledAt = -1
NoWrite ==
  /\ versioned = FALSE /\ locked = FALSE /\ stale = FALSE
  /\ status = "none" /\ applied = 0 /\ metLockAt = -1

PollingInit ==
  \/ caller = "any" /\ PollInit /\ NoWait /\ NoWrite
  \/ caller = "waiter" /\ WaitInit /\ NoWrite
  \/ caller = "write" /\ RetryInit /\ NoWait

AnyCallback == caller = "any" /\ PollNext /\ UNCHANGED <<caller, waiterVars, writeVars>>
AWaiter == caller = "waiter" /\ Waiter /\ UNCHANGED <<caller, writeVars>>
AWrite == caller = "write" /\ (Attempt \/ Waits) /\ UNCHANGED <<caller, waiterVars>>
Caller == AnyCallback \/ AWaiter \/ AWrite

Others ==
  \/ caller = "waiter" /\ (ServerMoves \/ OtherClientActs) /\ UNCHANGED <<caller, writeVars>>
  \/ caller = "write" /\ OtherWriter /\ UNCHANGED <<caller, waiterVars>>

\* The caller's own steps are taken; nothing is assumed of anybody else.
PollingSpec == PollingInit /\ [][Caller \/ Others]_vars /\ WF_vars(Caller)
=============================================================================
