---------------------------- MODULE ScopedClient ----------------------------
(***************************************************************************)
(* The server status cache of a scoped client (getServerStatusRaw of the   *)
(* Kibana client, serverInfo of the Elasticsearch one) under concurrent    *)
(* callers, each of which evaluates its model's version requirements       *)
(* (EnforceVersionRequirements) while the server may be upgraded.          *)
(***************************************************************************)
EXTENDS Integers, Sequences

CONSTANTS
  Callers,      \* the goroutines that share the client
  Statuses,     \* what the server may answer: a version and a build flavor
  Malformed,    \* a version string that does not parse
  Requirements, \* the requirement lists of models; a requirement is the set of
                \* versions that satisfy it (a minimum, or a custom check)
  NotCached, Nobody,
  MaxUpgrades   \* bound: how often the server changes

ASSUME StatusesAssumption == NotCached \notin Statuses /\ Nobody \notin Callers
ASSUME RequirementsAssumption == Requirements \subseteq Seq(SUBSET {s.version : s \in Statuses})
ASSUME MaxUpgradesAssumption == MaxUpgrades \in Nat

VARIABLES
  reqs,      \* the requirements of each caller's model
  at,        \* the requirement each caller evaluates
  stage,        \* where each caller is
  mutex,     \* who holds statusMu
  cache,     \* the cached status
  server,    \* the status the server would answer now
  answer,    \* the status each caller was given last
  judgedBy,  \* history: the statuses each caller's requirements were judged by
  upgrades

vars == <<reqs, at, stage, mutex, cache, server, answer, judgedBy, upgrades>>

Init ==
  /\ reqs \in [Callers -> Requirements]
  /\ at = [c \in Callers |-> 1]
  /\ stage = [c \in Callers |-> "next"]
  /\ mutex = Nobody
  /\ cache = NotCached
  /\ server \in Statuses
  /\ answer = [c \in Callers |-> NotCached]
  /\ judgedBy = [c \in Callers |-> {}]
  /\ upgrades = 0

Goto(c, label) == stage' = [stage EXCEPT ![c] = label]

(***************************************************************************)
(* EnforceVersionRequirements and enforceMinVersion.                       *)
(***************************************************************************)

\* Every requirement is satisfied: the caller may go on to its API calls.
AllSatisfied(c) ==
  /\ stage[c] = "next" /\ at[c] > Len(reqs[c])
  /\ Goto(c, "passed")
  /\ UNCHANGED <<reqs, at, mutex, cache, server, answer, judgedBy, upgrades>>

AskForVersion(c) ==
  /\ stage[c] = "next" /\ at[c] <= Len(reqs[c])
  /\ Goto(c, "lock")
  /\ UNCHANGED <<reqs, at, mutex, cache, server, answer, judgedBy, upgrades>>

\* applyVersionConstraint: serverless satisfies everything.
Satisfies(s, req) == s.flavor = "serverless" \/ s.version \in req

Parses(s) == s.flavor = "serverless" \/ s.version # Malformed

\* Defect: one satisfied requirement is enough.
JudgeFirstOnly(c) ==
  /\ stage[c] = "judge"
  /\ judgedBy' = [judgedBy EXCEPT ![c] = @ \cup {answer[c]}]
  /\ Goto(c, IF ~Parses(answer[c]) THEN "failed"
             ELSE IF Satisfies(answer[c], reqs[c][at[c]]) THEN "passed" ELSE "unsupported")
  /\ UNCHANGED <<reqs, at, mutex, cache, server, answer, upgrades>>

Judge(c) ==
  /\ stage[c] = "judge"
  /\ judgedBy' = [judgedBy EXCEPT ![c] = @ \cup {answer[c]}]
  /\ IF Parses(answer[c]) /\ Satisfies(answer[c], reqs[c][at[c]])
     THEN at' = [at EXCEPT ![c] = @ + 1] /\ Goto(c, "next")
     ELSE Goto(c, IF Parses(answer[c]) THEN "unsupported" ELSE "failed") /\ UNCHANGED at
  /\ UNCHANGED <<reqs, mutex, cache, server, answer, upgrades>>

(***************************************************************************)
(* getServerStatusRaw / serverInfo: the mutex is held across the request.  *)
(***************************************************************************)

\* Defect: the mutex is not taken.
LockNothing(c) ==
  /\ stage[c] = "lock"
  /\ Goto(c, "locked")
  /\ UNCHANGED <<reqs, at, mutex, cache, server, answer, judgedBy, upgrades>>

Lock(c) ==
  /\ stage[c] = "lock" /\ mutex = Nobody
  /\ mutex' = c
  /\ Goto(c, "locked")
  /\ UNCHANGED <<reqs, at, cache, server, answer, judgedBy, upgrades>>

UseCached(c) ==
  /\ stage[c] = "locked" /\ cache # NotCached
  /\ answer' = [answer EXCEPT ![c] = cache]
  /\ mutex' = Nobody
  /\ Goto(c, "judge")
  /\ UNCHANGED <<reqs, at, cache, server, judgedBy, upgrades>>

StartFetch(c) ==
  /\ stage[c] = "locked" /\ cache = NotCached
  /\ Goto(c, "fetching")
  /\ UNCHANGED <<reqs, at, mutex, cache, server, answer, judgedBy, upgrades>>

\* Defect: the answer is handed out but not cached.
FetchNotCached(c) ==
  /\ stage[c] = "fetching"
  /\ answer' = [answer EXCEPT ![c] = server]
  /\ mutex' = Nobody
  /\ Goto(c, "judge")
  /\ UNCHANGED <<reqs, at, cache, server, judgedBy, upgrades>>

\* Only a successful answer is cached.
FetchSucceeds(c) ==
  /\ stage[c] = "fetching"
  /\ cache' = server
  /\ answer' = [answer EXCEPT ![c] = server]
  /\ mutex' = Nobody
  /\ Goto(c, "judge")
  /\ UNCHANGED <<reqs, at, server, judgedBy, upgrades>>

\* Defects: an error is cached like an answer; the early return keeps the mutex.
FetchErrorCached(c) ==
  /\ stage[c] = "fetching"
  /\ cache' = [version |-> Malformed, flavor |-> ""]
  /\ mutex' = Nobody
  /\ Goto(c, "failed")
  /\ UNCHANGED <<reqs, at, server, answer, judgedBy, upgrades>>
FetchErrorKeepsMutex(c) ==
  /\ stage[c] = "fetching"
  /\ Goto(c, "failed")
  /\ UNCHANGED <<reqs, at, mutex, cache, server, answer, judgedBy, upgrades>>

\* A failed request, or an ended context: nothing is cached, the mutex released.
FetchFails(c) ==
  /\ stage[c] = "fetching"
  /\ mutex' = Nobody
  /\ Goto(c, "failed")
  /\ UNCHANGED <<reqs, at, cache, server, answer, judgedBy, upgrades>>

\* The server is upgraded, or a node with another version answers.
Upgrade ==
  /\ upgrades < MaxUpgrades /\ upgrades' = upgrades + 1
  /\ server' \in Statuses \ {server}
  /\ UNCHANGED <<reqs, at, stage, mutex, cache, answer, judgedBy>>

CallerSteps(c) ==
  \/ AllSatisfied(c) \/ AskForVersion(c) \/ Judge(c)
  \/ UseCached(c) \/ StartFetch(c) \/ FetchSucceeds(c) \/ FetchFails(c)

Next == Upgrade \/ \E c \in Callers : CallerSteps(c) \/ Lock(c)

\* Goroutines run, requests end (their context has a deadline), and a Go mutex
\* is handed to a waiter that has been starved (sync.Mutex starvation mode).
Spec ==
  /\ Init /\ [][Next]_vars
  /\ \A c \in Callers : WF_vars(CallerSteps(c)) /\ SF_vars(Lock(c))

(***************************************************************************)
(* Properties.                                                             *)
(***************************************************************************)

Labels == {"next", "lock", "locked", "fetching", "judge", "passed", "unsupported", "failed"}

\* Types: only a status that the server answered is ever cached or handed out.
TypeOK ==
  /\ reqs \in [Callers -> Requirements]
  /\ at \in [Callers -> Nat \ {0}]
  /\ stage \in [Callers -> Labels]
  /\ mutex \in Callers \cup {Nobody}
  /\ cache \in Statuses \cup {NotCached}
  /\ server \in Statuses
  /\ answer \in [Callers -> Statuses \cup {NotCached}]
  /\ judgedBy \in [Callers -> SUBSET (Statuses \cup {NotCached})]
  /\ upgrades \in 0 .. MaxUpgrades

\* At most one status request is in flight ("concurrent callers wait for the
\* in-flight request ... instead of issuing parallel requests").
OneRequestInFlight ==
  \A c, d \in Callers : stage[c] = "fetching" /\ stage[d] = "fetching" => c = d

\* All the requirements of all the callers of one client are judged against one
\* and the same server status, even if the server is upgraded in the meantime.
ConsistentJudgement ==
  \A c, d \in Callers : \A s \in judgedBy[c], t \in judgedBy[d] : s = t

\* Why: exactly the caller that holds the mutex is inside getServerStatusRaw;
\* nothing is cached while its request is in flight; what waits to be judged, or
\* was judged, is the cached status.  This is the inductive strengthening.
MutexProtects == \A c \in Callers : stage[c] \in {"locked", "fetching"} <=> mutex = c
FetchOnlyIfNotCached == \A c \in Callers : stage[c] = "fetching" => cache = NotCached
AnswersAreCached ==
  \A c \in Callers :
    /\ stage[c] = "judge" => answer[c] = cache /\ cache # NotCached
    /\ judgedBy[c] \subseteq {cache} \ {NotCached}
StatusInv == MutexProtects /\ FetchOnlyIfNotCached /\ AnswersAreCached

\* The inductive invariant: types and the protocol of mutex and cache, which let
\* one caller fetch while the others wait.
ClientInv == TypeOK /\ StatusInv

\* Once a status is cached it is never replaced.
CacheIsStable == [][cache # NotCached => cache' = cache]_vars

\* Why the verdicts are right: the requirements a caller has left behind are met
\* by the cached status, and the one it is at is one of its list.
Progress ==
  \A c \in Callers :
    /\ stage[c] \in {"lock", "locked", "fetching", "judge"} => at[c] <= Len(reqs[c])
    /\ \A i \in 1 .. Len(reqs[c]) :
         i < at[c] => cache # NotCached /\ Parses(cache) /\ Satisfies(cache, reqs[c][i])

Gate == INSTANCE VersionGate WITH
  status <- cache,
  verdict <- [c \in Callers |->
                IF stage[c] \in {"passed", "unsupported", "failed"} THEN stage[c] ELSE "undecided"]

\* The client keeps the promise of version gating: each verdict is the one that
\* the one settled status determines, whichever caller fetched it and when.
VerdictsFollowStatus == Gate!Spec

\* Every caller gets its verdict: no failure leaves the mutex locked.
EveryCallerEnds == \A c \in Callers : <>(stage[c] \in {"passed", "unsupported", "failed"})
=============================================================================
