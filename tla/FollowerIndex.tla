--------------------------- MODULE FollowerIndex ---------------------------
(***************************************************************************)
(* The CCR follower index resource (internal/elasticsearch/ccr/            *)
(* followerindex): the sequences of API calls behind its create, update    *)
(* and delete, run inside the resource envelope, while Elasticsearch and   *)
(* other clients pause, resume and delete the follower.                    *)
(*                                                                         *)
(* External, modelled from how the code uses them: the CCR and index APIs  *)
(* (a pause needs running follow tasks, an unfollow a paused and closed    *)
(* follower) and Terraform core (refresh, plan, apply, state file).        *)
(***************************************************************************)
EXTENDS Sequences, Integers

CONSTANTS
  Tunings,   \* values of the tuning parameters, taken together
  Settings,  \* values of settings_raw
  Null,      \* an attribute that is not set
  NoIndex, NoState, NoConfig, NoPlan,
  MaxFaults, \* bound: how many API calls fail
  MaxActs,   \* bound: how often Elasticsearch or another client acts
  MaxEdits   \* bound: how often the practitioner edits or imports

ASSUME FollowerAssumption ==
  /\ Null \notin Tunings \cup Settings
  /\ MaxFaults \in Nat /\ MaxActs \in Nat /\ MaxEdits \in Nat

VARIABLES
  index,      \* the index on the server
  config,     \* the configuration
  tfstate,    \* the resource in Terraform's state file
  refreshed,  \* this Terraform run has refreshed the state
  op, step,   \* the provider call in progress, and where it is
  plan,       \* the planned model
  ops,        \* the API operations still to be executed
  gaps,       \* history: why the settings on the server may not be those in the state
  faults, acts, edits

callVars == <<op, step, plan, ops>>
budget == <<faults, acts, edits>>
vars == <<index, config, tfstate, refreshed, callVars, gaps, budget>>

\* A starting follower has no shard follow tasks yet; a regular index (after
\* unfollow) keeps its settings.
Index == [follower : BOOLEAN, open : BOOLEAN, status : {"starting", "active", "paused"},
          tuning : Tunings, settings : Settings \cup {Null}]

Model == [status : {"active", "paused"}, tuning : Tunings \cup {Null},
          settings : Settings \cup {Null}, deleteIndexOnDestroy : BOOLEAN]

Config == {m \in Model : m.tuning # Null}

IsFollower(i) == i # NoIndex /\ i.follower
IsActive(i) == IsFollower(i) /\ i.status = "active"

Init ==
  /\ index \in {i \in Index : i.follower /\ i.open /\ i.status = "active"} \cup {NoIndex}
  /\ config \in Config
  /\ tfstate = NoState /\ refreshed = FALSE
  /\ op = "idle" /\ step = "none" /\ plan = NoPlan /\ ops = <<>>
  /\ gaps = {}
  /\ faults = 0 /\ acts = 0 /\ edits = 0

Fault == faults < MaxFaults /\ faults' = faults + 1 /\ UNCHANGED <<acts, edits>>

EndCall == op' = "idle" /\ step' = "none" /\ plan' = NoPlan /\ ops' = <<>>

\* Error diagnostics: the state file stays as it is and the run is over.
EndWithError == EndCall /\ refreshed' = FALSE /\ UNCHANGED <<config, tfstate>>

(***************************************************************************)
(* Which API operations an update and a delete execute.                    *)
(***************************************************************************)

\* settings_raw that is not configured is never sent.
SettingsRawChanged(prior, p) == p.settings # Null /\ prior.settings # p.settings

\* The ten tuning parameters are compared together.
TuningParamsChanged(prior, p) == prior.tuning # p.tuning

SettingsOp(prior, p) == IF SettingsRawChanged(prior, p) THEN <<"settings">> ELSE <<>>

\* Defects: no branch resumes the follower; a change of the settings is overlooked.
PlanUpdateNoResume(prior, p) ==
  IF prior.status = "active" THEN <<"pause">> \o SettingsOp(prior, p)
  ELSE IF p.status = "active" THEN SettingsOp(prior, p)
  ELSE <<>>
PlanUpdateTuningOnly(prior, p) ==
  IF prior.status = "active" /\ p.status = "active"
  THEN IF prior.tuning # p.tuning THEN <<"pause", "resume">> ELSE <<>>
  ELSE IF prior.status = "active" THEN <<"pause">>
  ELSE IF p.status = "active" THEN <<"resume">>
  ELSE <<>>

PlanUpdateOperations(prior, p) ==
  CASE prior.status = "active" /\ p.status = "active" ->
         IF ~TuningParamsChanged(prior, p) /\ ~SettingsRawChanged(prior, p)
         THEN <<>>
         ELSE <<"pause">> \o SettingsOp(prior, p) \o <<"resume">>
    [] prior.status = "active" /\ p.status = "paused" -> <<"pause">>
    [] prior.status = "paused" /\ p.status = "active" -> SettingsOp(prior, p) \o <<"resume">>
    [] OTHER -> <<>>

\* Defect: the index stays closed after unfollow.
PlanDeleteNoOpen(prior) ==
  (IF prior.status = "active" THEN <<"pause">> ELSE <<>>) \o <<"close", "unfollow">>
    \o (IF prior.deleteIndexOnDestroy THEN <<"delete">> ELSE <<>>)

PlanDeleteOperations(prior) ==
  (IF prior.status = "active" THEN <<"pause">> ELSE <<>>) \o <<"close", "unfollow">>
    \o (IF prior.deleteIndexOnDestroy THEN <<"delete">> ELSE <<"open">>)

(***************************************************************************)
(* What an API operation does to the index.  A pause, close, unfollow,     *)
(* delete or open of an index that does not exist counts as done.          *)
(***************************************************************************)

NotFoundIsSuccess == {"pause", "close", "unfollow", "delete", "open"}

Accepts(o) ==
  IF index = NoIndex THEN o \in NotFoundIsSuccess
  ELSE CASE o = "pause"    -> IsActive(index)
         [] o = "resume"   -> index.follower /\ index.open /\ index.status = "paused"
         [] o = "unfollow" -> index.follower /\ ~index.open /\ index.status = "paused"
         [] OTHER          -> TRUE

Effect(o) ==
  IF index = NoIndex THEN index
  ELSE CASE o = "pause"    -> [index EXCEPT !.status = "paused"]
         [] o = "settings" -> [index EXCEPT !.settings = plan.settings]
         [] o = "resume"   -> [index EXCEPT !.status = "active", !.tuning = plan.tuning]
         [] o = "close"    -> [index EXCEPT !.open = FALSE]
         [] o = "unfollow" -> [index EXCEPT !.follower = FALSE]
         [] o = "delete"   -> NoIndex
         [] o = "open"     -> [index EXCEPT !.open = TRUE]

(***************************************************************************)
(* Create.                                                                 *)
(***************************************************************************)

BeginCreate ==
  /\ op = "idle" /\ tfstate = NoState /\ config # NoConfig
  /\ op' = "create" /\ step' = "follow" /\ plan' = config
  /\ UNCHANGED <<index, config, tfstate, refreshed, ops, gaps, budget>>

Followed == [follower |-> TRUE, open |-> TRUE, status |-> "starting",
             tuning |-> plan.tuning, settings |-> plan.settings]

\* PUT /_ccr/follow: returns before the shard follow tasks start.
Follow ==
  /\ step = "follow" /\ index = NoIndex
  /\ index' = Followed /\ gaps' = {} /\ step' = "wait"
  /\ UNCHANGED <<config, tfstate, refreshed, op, plan, ops, budget>>

\* The name is taken.
FollowRefused ==
  /\ step = "follow" /\ index # NoIndex
  /\ EndWithError
  /\ UNCHANGED <<index, gaps, budget>>

\* The request fails, without effect or with its response lost.
FollowFails ==
  /\ step = "follow" /\ Fault /\ EndWithError
  /\ UNCHANGED gaps
  /\ \/ UNCHANGED index
     \/ index = NoIndex /\ index' = Followed

\* What remains of a create once following has started.
AfterWait == ops' = IF plan.status = "paused" THEN <<"pause">> ELSE <<>>

\* Defect: any answer about the follower ends the wait.
WaitAnyStatus ==
  /\ step = "wait" /\ IsFollower(index)
  /\ AfterWait /\ step' = "ops"
  /\ UNCHANGED <<index, config, tfstate, refreshed, op, plan, gaps, budget>>

\* waitForFollowerActive: active, with its parameters.
WaitActive ==
  /\ step = "wait" /\ IsActive(index)
  /\ AfterWait /\ step' = "ops"
  /\ UNCHANGED <<index, config, tfstate, refreshed, op, plan, gaps, budget>>

\* The follower did not start within followerActiveTimeout.
WaitTimesOut ==
  /\ step = "wait" /\ ~IsActive(index)
  /\ EndWithError
  /\ UNCHANGED <<index, gaps, budget>>

WaitFails ==
  /\ step = "wait" /\ Fault /\ EndWithError
  /\ UNCHANGED <<index, gaps>>

(***************************************************************************)
(* Update and delete, and the pause of a create: executeUpdateOperations   *)
(* and executeDeleteOperations.                                            *)
(***************************************************************************)

BeginUpdate ==
  /\ op = "idle" /\ tfstate # NoState /\ refreshed
  /\ config \notin {NoConfig, tfstate}
  /\ op' = "update" /\ step' = "ops" /\ plan' = config
  /\ ops' = PlanUpdateOperations(tfstate, config)
  /\ UNCHANGED <<index, config, tfstate, refreshed, gaps, budget>>

BeginDelete ==
  /\ op = "idle" /\ tfstate # NoState /\ refreshed /\ config = NoConfig
  /\ op' = "delete" /\ step' = "ops" /\ plan' = tfstate
  /\ ops' = PlanDeleteOperations(tfstate)
  /\ UNCHANGED <<index, config, tfstate, refreshed, gaps, budget>>

\* A changed settings_raw that is saved with a paused follower: no API call
\* carries it out.
Deferred == op = "update" /\ plan.status = "paused" /\ SettingsRawChanged(tfstate, plan)

ExecuteOp ==
  /\ step = "ops" /\ ops # <<>> /\ Accepts(Head(ops))
  /\ index' = Effect(Head(ops)) /\ ops' = Tail(ops)
  /\ gaps' = IF Head(ops) = "settings" THEN {} ELSE gaps
  /\ UNCHANGED <<config, tfstate, refreshed, op, step, plan, budget>>

\* The server refuses the operation: the rest of the sequence is not executed.
OpRefused ==
  /\ step = "ops" /\ ops # <<>> /\ ~Accepts(Head(ops))
  /\ gaps' = IF op = "update" THEN gaps \cup {"torn"} ELSE gaps
  /\ EndWithError
  /\ UNCHANGED <<index, budget>>

\* The operation fails, without effect or with its response lost.
OpFails ==
  /\ step = "ops" /\ ops # <<>> /\ Fault
  /\ \/ UNCHANGED index
     \/ Accepts(Head(ops)) /\ index' = Effect(Head(ops))
  /\ gaps' = IF op = "update" THEN gaps \cup {"torn"} ELSE gaps
  /\ EndWithError

(***************************************************************************)
(* Read: mapFollowerIndexToModel keeps what the API does not return, the   *)
(* tuning parameters of a follower that is not active included.            *)
(***************************************************************************)

\* Defect: the status of the follower is taken over from its tasks.
MapTaskStatus(i, prior) == [prior EXCEPT !.status = i.status, !.tuning = i.tuning]

MapFollowerIndexToModel(i, prior) ==
  [prior EXCEPT !.status = IF i.status = "active" THEN "active" ELSE "paused",
                !.tuning = IF i.status = "active" THEN i.tuning ELSE prior.tuning]

\* Read-after-write; the model that was read is saved.
ReadBack ==
  /\ step = "ops" /\ ops = <<>> /\ op \in {"create", "update"}
  /\ IsFollower(index)
  /\ tfstate' = MapFollowerIndexToModel(index, plan)
  /\ gaps' = IF Deferred THEN gaps \cup {"deferred"} ELSE gaps
  /\ refreshed' = FALSE /\ EndCall
  /\ UNCHANGED <<index, config, budget>>

ReadBackNotFound ==
  /\ step = "ops" /\ ops = <<>> /\ op \in {"create", "update"}
  /\ ~IsFollower(index)
  /\ EndWithError
  /\ UNCHANGED <<index, gaps, budget>>

ReadBackFails ==
  /\ step = "ops" /\ ops = <<>> /\ op \in {"create", "update"}
  /\ Fault /\ EndWithError
  /\ gaps' = IF op = "update" THEN gaps \cup {"torn"} ELSE gaps
  /\ UNCHANGED index

\* Every operation of a delete succeeded: the resource leaves the state.
DeleteDone ==
  /\ step = "ops" /\ ops = <<>> /\ op = "delete"
  /\ tfstate' = NoState /\ refreshed' = FALSE /\ EndCall
  /\ UNCHANGED <<index, config, gaps, budget>>

\* An index that is gone, or no longer follows, is dropped from the state.
Read ==
  /\ op = "idle" /\ tfstate # NoState /\ ~refreshed
  /\ tfstate' = IF IsFollower(index) THEN MapFollowerIndexToModel(index, tfstate) ELSE NoState
  /\ refreshed' = TRUE
  /\ UNCHANGED <<index, config, callVars, gaps, budget>>

(***************************************************************************)
(* Elasticsearch, other clients and the practitioner.                      *)
(***************************************************************************)

ServerStarts ==
  /\ IsFollower(index) /\ index.status = "starting"
  /\ index' = [index EXCEPT !.status = "active"]
  /\ UNCHANGED <<config, tfstate, refreshed, callVars, gaps, budget>>

\* Elasticsearch pauses a follower by itself; another client pauses, resumes or
\* deletes it.
OtherActs ==
  /\ acts < MaxActs /\ acts' = acts + 1
  /\ IsFollower(index) /\ index.status # "starting"
  /\ \/ \E s \in {"active", "paused"} \ {index.status} : index' = [index EXCEPT !.status = s]
     \/ index' = NoIndex
  /\ UNCHANGED <<config, tfstate, refreshed, callVars, gaps, faults, edits>>

\* Terraform found nothing to do; the practitioner runs it again.
NewRun ==
  /\ op = "idle" /\ tfstate # NoState /\ refreshed /\ config = tfstate
  /\ refreshed' = FALSE
  /\ UNCHANGED <<index, config, tfstate, callVars, gaps, budget>>

EditConfig ==
  /\ op = "idle" /\ edits < MaxEdits /\ edits' = edits + 1
  /\ config' \in (Config \cup {NoConfig}) \ {config}
  /\ refreshed' = FALSE
  /\ UNCHANGED <<index, tfstate, callVars, gaps, faults, acts>>

\* terraform import, then the read that completes it.
Import ==
  /\ op = "idle" /\ tfstate = NoState /\ config # NoConfig /\ IsFollower(index)
  /\ edits < MaxEdits /\ edits' = edits + 1
  /\ tfstate' = MapFollowerIndexToModel(index,
                  [status |-> "paused", tuning |-> Null, settings |-> Null,
                   deleteIndexOnDestroy |-> FALSE])
  /\ refreshed' = TRUE
  /\ UNCHANGED <<index, config, callVars, gaps, faults, acts>>

Provider ==
  \/ BeginCreate \/ Follow \/ FollowRefused \/ WaitActive \/ WaitTimesOut
  \/ BeginUpdate \/ BeginDelete \/ ExecuteOp \/ OpRefused
  \/ ReadBack \/ ReadBackNotFound \/ DeleteDone \/ Read \/ NewRun

Failures == FollowFails \/ WaitFails \/ OpFails \/ ReadBackFails

Next == Provider \/ Failures \/ ServerStarts \/ OtherActs \/ EditConfig \/ Import

\* The practitioner runs Terraform again and again and each call makes progress;
\* nothing is assumed of failures, of the server or of other clients.
Spec == Init /\ [][Next]_vars /\ WF_vars(Provider)

(***************************************************************************)
(* Properties.                                                             *)
(***************************************************************************)

Operations == {"pause", "settings", "resume", "close", "unfollow", "delete", "open"}

\* Types: the status in the state is one the configuration can ask for.
TypeOK ==
  /\ index \in Index \cup {NoIndex}
  /\ config \in Config \cup {NoConfig}
  /\ tfstate \in Model \cup {NoState} /\ refreshed \in BOOLEAN
  /\ op \in {"idle", "create", "update", "delete"}
  /\ step \in {"none", "follow", "wait", "ops"}
  /\ plan \in Model \cup {NoPlan} /\ ops \in Seq(Operations)
  /\ gaps \subseteq {"deferred", "torn"}
  /\ faults \in 0 .. MaxFaults /\ acts \in 0 .. MaxActs /\ edits \in 0 .. MaxEdits

\* A create pauses its follower only once the follow tasks have started: before
\* that the pause would be refused and the create would fail on its own doing.
PauseAfterStart ==
  (op = "create" /\ step = "ops" /\ IsFollower(index)) => index.status # "starting"

\* A delete that succeeds leaves no index, or an open regular one when
\* delete_index_on_destroy is false: never a follower and never a closed index.
DeleteDisposes ==
  [][(op = "delete" /\ tfstate' = NoState) =>
        \/ index' = NoIndex
        \/ ~index'.follower /\ index'.open /\ ~tfstate.deleteIndexOnDestroy]_vars

\* The settings on the server are those in the state, except after a change
\* that was saved while the follower was paused, or after an update that failed
\* half way.
SettingsGapsAreKnown ==
  (op = "idle" /\ tfstate # NoState /\ IsFollower(index) /\ gaps = {}) =>
    tfstate.settings \in {Null, index.settings}

\* A call in progress has a plan; a create has no prior state, an update and a
\* delete have one.
CallInv ==
  /\ op = "idle" <=> step = "none"
  /\ op # "idle" => plan \in Model
  /\ op = "create" => tfstate = NoState /\ plan.tuning # Null
  /\ op \in {"update", "delete"} => tfstate # NoState /\ step = "ops"
  /\ op = "update" => plan.tuning # Null

\* A create that has followed has its settings on the server.
CreateInv ==
  op = "create" /\ step \in {"wait", "ops"} /\ IsFollower(index) => index.settings = plan.settings

\* A delete that has unfollowed leaves a regular index, at last an open one or none.
LastOp == IF tfstate.deleteIndexOnDestroy THEN "delete" ELSE "open"
DeleteInv ==
  op = "delete" =>
    /\ (gaps = {} /\ IsFollower(index)) => tfstate.settings \in {Null, index.settings}
    /\ \/ ops \in {<<"pause", "close", "unfollow", LastOp>>, <<"close", "unfollow", LastOp>>,
                   <<"unfollow", LastOp>>}
       \/ ops = <<LastOp>> /\ (index = NoIndex \/ ~index.follower)
       \/ ops = <<>> /\ (index = NoIndex \/ (~index.follower /\ index.open /\ ~tfstate.deleteIndexOnDestroy))

\* An update has its settings still to send, or the server has them, or they are
\* deferred.
UpdateInv ==
  op = "update" =>
    \/ ops \in {<<"pause", "settings", "resume">>, <<"settings", "resume">>}
    \/ /\ ops \in {<<"pause", "resume">>, <<"resume">>, <<"pause">>, <<>>}
       /\ \/ Deferred
          \/ (gaps = {} /\ IsFollower(index)) => plan.settings \in {Null, index.settings}

\* The inductive invariant: how far each call has got, and what it has achieved on
\* the server by then.
FollowerInv ==
  TypeOK /\ CallInv /\ CreateInv /\ DeleteInv /\ UpdateInv /\ PauseAfterStart /\ SettingsGapsAreKnown

\* State and server agree with the configuration on status and tuning, unless
\* the follower never starts or a destroy that was given up has closed it.
Reconciled ==
  (index # NoIndex => index.status # "starting") =>
    IF config = NoConfig THEN tfstate = NoState
    ELSE (tfstate # NoState /\ IsFollower(index) /\ index.open) =>
           /\ tfstate.status = config.status /\ index.status = config.status
           /\ config.status = "active" => index.tuning = config.tuning

\* Re-running Terraform repairs an update that failed between its pause and its
\* resume, carries deferred tuning parameters over to the next resume, and
\* completes an interrupted destroy.
Converges == <>[]Reconciled

\* What the specification of the resource says of settings_raw: changes made
\* while paused are "stored in state and applied on the next active transition".
SettingsAppliedOnResume ==
  [][(op = "update" /\ tfstate.status = "paused" /\ plan.status = "active" /\ tfstate' # tfstate)
       => plan.settings \in {Null, index.settings}]_vars

\* What it says of destroy: afterwards the index does not exist, or is an open
\* regular index; it is not stranded in a closed state.
DestroyDisposes ==
  [][(config = NoConfig /\ tfstate # NoState /\ tfstate' = NoState) =>
        \/ index' = NoIndex
        \/ ~index'.follower /\ index'.open /\ ~tfstate.deleteIndexOnDestroy]_vars
=============================================================================
