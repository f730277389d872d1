----------------------------- MODULE MLDatafeed -----------------------------
(***************************************************************************)
(* One machine learning datafeed managed by two resources whose calls may  *)
(* run concurrently: ml_datafeed ("feed": its definition, which can only   *)
(* be changed while it is stopped) and ml_datafeed_state ("state": whether *)
(* it runs), while Elasticsearch and other clients start, stop, finish or  *)
(* delete it.  Waiting is WaitForTerminalOrDesiredState (StateWaiter).     *)
(*                                                                         *)
(* External: the datafeed APIs (an update, delete or start needs a stopped *)
(* datafeed) and Terraform core (refresh, plan, apply, state file).        *)
(***************************************************************************)
EXTENDS Integers

CONSTANTS
  Defs,        \* definitions of the datafeed
  Absent,      \* nothing on the server, in the configuration or in the state
  MaxSearches, \* bound: how often the datafeed searches
  MaxFaults,   \* bound: how many calls fail or time out
  MaxActs,     \* bound: how often Elasticsearch or another client interferes
  MaxEdits     \* bound: how often the practitioner edits the configuration

ASSUME DatafeedAssumption ==
  /\ Absent \notin Defs \cup {"stopped", "starting", "started", "stopping"}
  /\ MaxSearches \in Nat /\ MaxFaults \in Nat /\ MaxActs \in Nat /\ MaxEdits \in Nat

VARIABLES
  feed,     \* the datafeed on the server
  timed,    \* its stats contain timing stats
  config,   \* per resource: what is configured
  saved,    \* per resource: Terraform's state
  op, pc,   \* per resource: the provider call and where it is
  seen,     \* per resource: the state of the datafeed when the call looked
  goal,     \* per resource: the state the call waits for
  before,   \* the searches when the state resource looked
  foreign,  \* history, per resource: somebody else moved the datafeed during the call
  ran,      \* history: the datafeed was started at some time since the state resource looked
  budget

tfVars == <<config, saved>>
callVars == <<op, pc, seen, goal, before>>
vars == <<feed, timed, tfVars, callVars, foreign, ran, budget>>

Resources == {"feed", "state"}
RunStates == {"stopped", "starting", "started", "stopping"}
TerminalStates == {"stopped", "started"}
Configs == [feed : Defs \cup {Absent}, state : TerminalStates \cup {Absent}]

Exists == feed # Absent
RunState == IF Exists THEN feed.run ELSE Absent
Running(run) == run \in {"started", "starting"}

Init ==
  /\ feed = Absent /\ timed \in BOOLEAN
  /\ config \in {c \in Configs : c.feed # Absent}
  /\ saved = [r \in Resources |-> Absent]
  /\ op = [r \in Resources |-> "none"] /\ pc = [r \in Resources |-> "done"]
  /\ seen = [r \in Resources |-> Absent] /\ goal = [r \in Resources |-> Absent]
  /\ before = 0 /\ ran = FALSE
  /\ foreign = [r \in Resources |-> FALSE]
  /\ budget = [faults |-> 0, acts |-> 0, edits |-> 0]

Spend(what, max) == budget[what] < max /\ budget' = [budget EXCEPT ![what] = @ + 1]

Goto(r, label) == pc' = [pc EXCEPT ![r] = label]
At(r, label) == pc[r] = label

\* The datafeed becomes f by the doing of resource r (or of somebody else).
SetFeed(f, who) ==
  /\ feed' = f
  /\ ran' = (op["state"] # "none" /\ (ran \/ (f # Absent /\ f.run = "started")))
  /\ foreign' = [r \in Resources |-> op[r] # "none" /\ (foreign[r] \/ r # who)]

SameFeed == UNCHANGED <<feed, foreign, ran>>

(***************************************************************************)
(* A Terraform run: refresh both resources, then apply both.               *)
(***************************************************************************)

NewRun ==
  /\ \A r \in Resources : At(r, "done")
  /\ \E r \in Resources : saved[r] # Absent \/ config[r] # Absent
  /\ pc' = [r \in Resources |-> "refresh"]
  /\ SameFeed /\ UNCHANGED <<timed, tfVars, op, seen, goal, before, budget>>

\* Defect: the state of the datafeed is not refreshed.
ReadPrior(r) ==
  /\ At(r, "refresh")
  /\ saved' = [saved EXCEPT ![r] =
                 IF saved[r] = Absent \/ ~Exists THEN Absent
                 ELSE IF r = "feed" THEN feed.def ELSE saved[r]]
  /\ Goto(r, "planned")
  /\ SameFeed /\ UNCHANGED <<timed, config, op, seen, goal, before, budget>>

\* readDatafeed and readMLDatafeedState; a datafeed that is gone leaves the state.
Read(r) ==
  /\ At(r, "refresh")
  /\ saved' = [saved EXCEPT ![r] =
                 IF saved[r] = Absent \/ ~Exists THEN Absent
                 ELSE IF r = "feed" THEN feed.def ELSE feed.run]
  /\ Goto(r, "planned")
  /\ SameFeed /\ UNCHANGED <<timed, config, op, seen, goal, before, budget>>

PlannedOp(r) ==
  IF config[r] = saved[r] THEN "none"
  ELSE IF config[r] = Absent THEN "delete"
  ELSE IF saved[r] = Absent THEN "create" ELSE "update"

Begin(r) ==
  /\ At(r, "planned") /\ \A q \in Resources : ~At(q, "refresh")
  /\ op' = [op EXCEPT ![r] = PlannedOp(r)]
  /\ Goto(r, CASE PlannedOp(r) = "none" -> "done"
               [] PlannedOp(r) = "create" /\ r = "feed" -> "put"
               [] OTHER -> "look")
  /\ foreign' = [foreign EXCEPT ![r] = FALSE]
  /\ UNCHANGED <<feed, ran, timed, tfVars, seen, goal, before, budget>>

\* The call returns: with value v for the state file, or with error diagnostics.
EndCall(r) ==
  /\ Goto(r, "done") /\ op' = [op EXCEPT ![r] = "none"]
  /\ seen' = [seen EXCEPT ![r] = Absent] /\ goal' = [goal EXCEPT ![r] = Absent]
  /\ before' = IF r = "state" THEN 0 ELSE before
Finish(r, v) == EndCall(r) /\ saved' = [saved EXCEPT ![r] = v]
Fail(r) == EndCall(r) /\ UNCHANGED saved

(***************************************************************************)
(* The look at the current state: maybeStopDatafeed (update and delete of  *)
(* the datafeed), writeMLDatafeedState with Perform, deleteMLDatafeedState. *)
(***************************************************************************)

\* What remains to be done once the datafeed need not be stopped first.
Proceed == IF op["feed"] = "update" THEN "update" ELSE "remove"

\* Defect: a datafeed that is still starting is taken for one that is not running.
AfterLookStartedOnly(r) ==
  IF r = "feed" THEN (IF RunState = "started" THEN "stop" ELSE Proceed)
  ELSE IF op[r] = "delete" THEN (IF RunState = "started" THEN "stop" ELSE "return")
  ELSE IF RunState = config[r] THEN "readback"
  ELSE IF config[r] = "started" THEN "start" ELSE "stop"

\* Defect: destroying the state resource leaves the datafeed running.
AfterLookNoStop(r) ==
  IF r = "feed" THEN (IF Running(RunState) THEN "stop" ELSE Proceed)
  ELSE IF op[r] = "delete" THEN "return"
  ELSE IF RunState = config[r] THEN "readback"
  ELSE IF config[r] = "started" THEN "start" ELSE "stop"

\* A datafeed that is stopping is neither stopped nor waited for.
AfterLook(r) ==
  IF r = "feed" THEN (IF Running(RunState) THEN "stop" ELSE Proceed)
  ELSE IF op[r] = "delete" THEN (IF RunState = "started" THEN "stop" ELSE "return")
  ELSE IF RunState = config[r] THEN "readback"
  ELSE IF config[r] = "started" THEN "start" ELSE "stop"

\* Defect: a search that is running is counted as done.
LookCountsAhead(r) ==
  /\ At(r, "look") /\ (Exists \/ r = "feed" \/ op[r] = "delete")
  /\ seen' = [seen EXCEPT ![r] = RunState]
  /\ IF r = "state" THEN /\ before' = IF Exists THEN feed.searches + 1 ELSE 0
                         /\ ran' = (RunState = "started")
                    ELSE UNCHANGED <<before, ran>>
  /\ Goto(r, AfterLook(r))
  /\ UNCHANGED <<feed, foreign, timed, tfVars, op, goal, budget>>

Look(r) ==
  /\ At(r, "look") /\ (Exists \/ r = "feed" \/ op[r] = "delete")
  /\ seen' = [seen EXCEPT ![r] = RunState]
  /\ IF r = "state" THEN /\ before' = IF Exists THEN feed.searches ELSE 0
                         /\ ran' = (RunState = "started")
                    ELSE UNCHANGED <<before, ran>>
  /\ Goto(r, AfterLook(r))
  /\ UNCHANGED <<feed, foreign, timed, tfVars, op, goal, budget>>

\* "ML Datafeed not found".
LookNotFound ==
  /\ At("state", "look") /\ op["state"] # "delete" /\ ~Exists
  /\ Fail("state")
  /\ SameFeed /\ UNCHANGED <<timed, config, budget>>

(***************************************************************************)
(* The requests of a call, and what the server does with them.             *)
(***************************************************************************)

Requests == {"put", "stop", "start", "update", "remove"}

Accepts(request) ==
  CASE request = "put"    -> ~Exists
    [] request = "stop"   -> TRUE
    [] request = "remove" -> RunState \in {Absent, "stopped"}
    [] OTHER              -> RunState = "stopped"

\* A stop or start may be answered before the datafeed has stopped or started.
Effects(request) ==
  CASE request = "put"    -> {[run |-> "stopped", def |-> config.feed, searches |-> 0]}
    [] request = "stop"   -> IF ~Running(RunState) THEN {feed}
                             ELSE {[feed EXCEPT !.run = s] : s \in {"stopping", "stopped"}}
    [] request = "start"  -> {[feed EXCEPT !.run = s] : s \in {"starting", "started"}}
    [] request = "update" -> {[feed EXCEPT !.def = config.feed]}
    [] request = "remove" -> {Absent}

\* Defect: the datafeed is not started again after the update.
AfterRequestNoRestart(r) ==
  CASE pc[r] \in {"stop", "start"} -> "await"
    [] pc[r] = "remove"            -> "return"
    [] OTHER                       -> "readback"

\* needsRestart: the update found the datafeed running.
AfterRequest(r) ==
  CASE pc[r] \in {"stop", "start"}                      -> "await"
    [] pc[r] = "remove"                                 -> "return"
    [] pc[r] = "update" /\ Running(seen["feed"])        -> "start"
    [] OTHER                                            -> "readback"

Request(r) ==
  /\ pc[r] \in Requests /\ Accepts(pc[r])
  /\ \E f \in Effects(pc[r]) : SetFeed(f, r)
  /\ goal' = [goal EXCEPT ![r] = IF pc[r] = "stop" THEN "stopped"
                                 ELSE IF pc[r] = "start" THEN "started" ELSE @]
  /\ Goto(r, AfterRequest(r))
  /\ UNCHANGED <<timed, tfVars, op, seen, before, budget>>

Refused(r) ==
  /\ pc[r] \in Requests /\ ~Accepts(pc[r])
  /\ Fail(r)
  /\ SameFeed /\ UNCHANGED <<timed, config, budget>>

(***************************************************************************)
(* WaitForDatafeedState: settled in the wanted state, or in the other      *)
(* terminal one, which is no error.                                        *)
(***************************************************************************)

\* Only the state resource looks at the result, and only when it writes.
AfterAwait(r, inDesiredState) ==
  IF r = "feed" THEN (IF goal[r] = "stopped" THEN Proceed ELSE "readback")
  ELSE IF op[r] = "delete" THEN "return"
  ELSE IF inDesiredState THEN "readback" ELSE "missed"

\* Defect: the first answer ends the wait, be the datafeed between two states.
AwaitOnce(r) ==
  /\ At(r, "await") /\ Exists
  /\ Goto(r, AfterAwait(r, RunState = goal[r]))
  /\ SameFeed /\ UNCHANGED <<timed, tfVars, op, seen, goal, before, budget>>

Await(r) ==
  /\ At(r, "await") /\ RunState \in TerminalStates
  /\ Goto(r, AfterAwait(r, RunState = goal[r]))
  /\ SameFeed /\ UNCHANGED <<timed, tfVars, op, seen, goal, before, budget>>

AwaitNotFound(r) ==
  /\ At(r, "await") /\ ~Exists
  /\ Fail(r)
  /\ SameFeed /\ UNCHANGED <<timed, config, budget>>

\* Defect: the number of searches need not have grown.
MissedTransitionAny ==
  /\ At("state", "missed") /\ Exists
  /\ Finish("state", config.state)
  /\ SameFeed /\ UNCHANGED <<timed, config, budget>>

\* updateAfterMissedTransition: a datafeed that has searched since is taken to
\* have been in the wanted state; without timing stats that is taken on trust.
MissedTransition ==
  /\ At("state", "missed") /\ Exists
  /\ IF timed /\ feed.searches <= before THEN Fail("state") ELSE Finish("state", config.state)
  /\ SameFeed /\ UNCHANGED <<timed, config, budget>>

MissedNotFound ==
  /\ At("state", "missed") /\ ~Exists
  /\ Fail("state")
  /\ SameFeed /\ UNCHANGED <<timed, config, budget>>

\* The read that ends a write.  A value that is not the planned one is saved, but
\* Terraform core reports it as an inconsistent result.
ReadBack(r) ==
  /\ At(r, "readback")
  /\ IF Exists THEN Finish(r, IF r = "feed" THEN feed.def ELSE feed.run) ELSE Fail(r)
  /\ SameFeed /\ UNCHANGED <<timed, config, budget>>

Return(r) ==
  /\ At(r, "return")
  /\ Finish(r, Absent)
  /\ SameFeed /\ UNCHANGED <<timed, config, budget>>

\* A request fails, without effect or with its response lost; a wait times out.
CallFails(r) ==
  /\ pc[r] \in Requests \cup {"look", "await", "missed", "readback"}
  /\ Spend("faults", MaxFaults)
  /\ Fail(r)
  /\ \/ SameFeed
     \/ pc[r] \in Requests /\ Accepts(pc[r]) /\ \E f \in Effects(pc[r]) : SetFeed(f, r)
  /\ UNCHANGED <<timed, config>>

(***************************************************************************)
(* Elasticsearch, other clients and the practitioner.                      *)
(***************************************************************************)

\* A datafeed that is starting or stopping gets there.
ServerMoves ==
  /\ RunState \in {"starting", "stopping"}
  /\ feed' = [feed EXCEPT !.run = IF @ = "starting" THEN "started" ELSE "stopped"]
  /\ ran' = (op["state"] # "none" /\ (ran \/ feed'.run = "started"))
  /\ UNCHANGED <<foreign, timed, tfVars, callVars, budget>>

Search ==
  /\ RunState = "started" /\ feed.searches < MaxSearches
  /\ feed' = [feed EXCEPT !.searches = @ + 1]
  /\ UNCHANGED <<foreign, ran, timed, tfVars, callVars, budget>>

\* The datafeed reaches its end or cannot be started; another client starts,
\* stops or deletes it.
Interferes ==
  /\ Spend("acts", MaxActs) /\ Exists
  /\ \E f \in {[feed EXCEPT !.run = s] :
                 s \in CASE RunState = "stopped"  -> {"starting", "started"}
                         [] RunState = "stopping" -> {}
                         [] OTHER                 -> {"stopping", "stopped"}} \cup {Absent} :
       SetFeed(f, "another")
  /\ UNCHANGED <<timed, tfVars, callVars>>

EditConfig ==
  /\ \A r \in Resources : At(r, "done")
  /\ Spend("edits", MaxEdits)
  /\ config' \in Configs \ {config}
  /\ config'.feed = Absent => config'.state = Absent
  /\ SameFeed /\ UNCHANGED <<timed, saved, callVars>>

Provider ==
  \/ NewRun \/ LookNotFound \/ MissedTransition \/ MissedNotFound
  \/ \E r \in Resources :
       \/ Read(r) \/ Begin(r) \/ Look(r) \/ Request(r) \/ Refused(r)
       \/ Await(r) \/ AwaitNotFound(r) \/ ReadBack(r) \/ Return(r)

Next ==
  \/ Provider \/ ServerMoves \/ Search \/ Interferes \/ EditConfig
  \/ \E r \in Resources : CallFails(r)

\* Terraform is run again and again and its calls make progress; Elasticsearch
\* ends what is starting or stopping.
Spec == Init /\ [][Next]_vars /\ WF_vars(Provider) /\ WF_vars(ServerMoves)

(***************************************************************************)
(* Properties.                                                             *)
(***************************************************************************)

Feed == [run : RunStates, def : Defs, searches : 0 .. MaxSearches]
ASSUME FeedAssumption == Absent \notin Feed

Labels == Requests \cup {"refresh", "planned", "look", "await", "missed", "readback", "return", "done"}

\* Types; a request names the operation that sends it.
TypeOK ==
  /\ feed \in Feed \cup {Absent} /\ timed \in BOOLEAN
  /\ config \in Configs
  /\ saved \in [Resources -> Defs \cup RunStates \cup {Absent}]
  /\ op \in [Resources -> {"none", "create", "update", "delete"}]
  /\ pc \in [Resources -> Labels]
  /\ seen \in [Resources -> RunStates \cup {Absent}]
  /\ goal \in [Resources -> TerminalStates \cup {Absent}]
  /\ before \in 0 .. MaxSearches
  /\ foreign \in [Resources -> BOOLEAN] /\ ran \in BOOLEAN
  /\ budget \in [faults : 0 .. MaxFaults, acts : 0 .. MaxActs, edits : 0 .. MaxEdits]

\* Stopping a running datafeed first works: when an update or delete is sent, the
\* datafeed is stopped, unless somebody else moved it during the call or the call
\* found it already stopping.
WriteMeetsStopped ==
  At("feed", "update") \/ At("feed", "remove") =>
    RunState \in {Absent, "stopped"} \/ foreign["feed"] \/ seen["feed"] = "stopping"

\* Types, and stopping first works.
FeedInv == TypeOK /\ WriteMeetsStopped

\* An update that found the datafeed running leaves it running when it succeeds,
\* unless somebody else moved it during the call.
UpdateKeepsRunning ==
  [][(op["feed"] = "update" /\ At("feed", "readback") /\ saved' # saved /\ Running(seen["feed"]))
       => RunState = "started" \/ foreign["feed"]]_vars

\* What ml_datafeed_state saves after a write is the state of the datafeed, unless
\* somebody else moved it during the call.
SavedStateIsReal ==
  [][(op["state"] \in {"create", "update"} /\ saved'["state"] # saved["state"])
       => saved'["state"] = RunState \/ foreign["state"]]_vars

\* A write that saves "started" without seeing it is about a datafeed that did
\* run since the write began, if its stats contain timing stats.
MissedStartDidRun ==
  [][(At("state", "missed") /\ config.state = "started" /\ saved'["state"] # saved["state"])
       => ran \/ ~timed]_vars

\* Destroying ml_datafeed_state leaves the datafeed stopped, unless somebody else
\* moved it during the call or it was found between two states.
DestroyStops ==
  [][(op["state"] = "delete" /\ saved["state"] # Absent /\ saved'["state"] = Absent)
       => \/ RunState \in {Absent, "stopped"} \/ foreign["state"]
          \/ seen["state"] \in {"starting", "stopping"}]_vars

\* What ml_datafeed_state saves or drops is true of the datafeed: its state after a
\* write, a start it did not see, and the stop at its destroy.
StateIsTruthful == SavedStateIsReal /\ MissedStartDidRun /\ DestroyStops

\* Server and state agree with the configuration.
Reconciled ==
  /\ saved = config
  /\ config.feed # Absent => Exists /\ feed.def = config.feed
  /\ config.feed = Absent => ~Exists
  /\ config.state # Absent => RunState = config.state

\* A create whose answer was lost, or a destroyed resource that another client
\* put back: the datafeed exists and Terraform does not know of it.
Orphaned == Exists /\ saved.feed = Absent

\* Re-running Terraform repairs updates that were cut short with the datafeed
\* stopped, refused requests and lost answers, once the interference ends; only
\* an orphaned datafeed has to be imported or deleted by hand.
Converges == <>[](Orphaned \/ Reconciled)

\* What the specification of ml_datafeed says of an update: it waits "for the
\* datafeed to reach `stopped` state before proceeding".
UpdateWaitsForStopped ==
  [][(At("feed", "await") /\ goal["feed"] = "stopped" /\ pc'["feed"] \in {"update", "remove"})
       => RunState = "stopped"]_vars
=============================================================================
