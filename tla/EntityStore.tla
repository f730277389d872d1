---------------------------- MODULE EntityStore ----------------------------
(***************************************************************************)
(* The security entity store resource: the API calls of its create, update *)
(* and delete in their order, the retry of an install that answers 500,    *)
(* the waits for the end of installing and of uninstalling, the shrink     *)
(* guard, and the degraded read, while Kibana installs and removes engines *)
(* in the background and other clients install and uninstall them.         *)
(*                                                                         *)
(* External: the entity store API (an install starts its engines, and      *)
(* answers 500 while one of them is being removed) and Terraform core.     *)
(***************************************************************************)
EXTENDS Sequences, Integers

CONSTANTS
  Types,     \* entity types, each with an engine
  Logs,      \* log extraction settings
  ReadBack,  \* what the status of an engine reports of them: four of their attributes
  Configs,   \* the configurations of the practitioner
  NoLog, NoState, NoConfig,
  MaxFaults, \* bound: how many requests fail or deadlines pass
  MaxActs,   \* bound: how often another client acts
  MaxEdits   \* bound: how often the practitioner edits the configuration

ASSUME StoreAssumption ==
  /\ NoLog \notin Logs /\ Logs # {}
  /\ ReadBack \in [Logs -> Logs] /\ \A l \in Logs : ReadBack[ReadBack[l]] = ReadBack[l]
  /\ MaxFaults \in Nat /\ MaxActs \in Nat /\ MaxEdits \in Nat

VARIABLES
  engine,     \* the state of each type's engine
  log,        \* the log extraction settings of the store
  config,     \* the configuration
  tfstate,    \* the resource in Terraform's state file
  refreshed,  \* this Terraform run has refreshed the state
  op,         \* the provider call in progress
  ops,        \* the API operations it still has to execute
  requests,   \* history: the requests of this call that reached the store
  disturbed,  \* history: another client acted during this call, or it is an
              \* update planned before an engine was removed
  budget

store == <<engine, log>>
tfVars == <<config, tfstate, refreshed>>
vars == <<store, tfVars, op, ops, requests, disturbed, budget>>

EngineStates == {"none", "installing", "started", "stopped", "uninstalling"}
Model == [types : SUBSET Types, started : BOOLEAN, log : Logs \cup {NoLog}, shrink : BOOLEAN]
Config == {m \in Model : m.types # {} /\ m.log # NoLog}

ASSUME ModelAssumption == NoState \notin Model /\ NoConfig \notin Model /\ Configs \subseteq Config

Installed == {t \in Types : engine[t] # "none"}
Status == CASE Installed = {} -> "not_installed"
            [] \E t \in Types : engine[t] = "installing" -> "installing"
            [] OTHER -> "installed"

Init ==
  /\ engine = [t \in Types |-> "none"] /\ log = NoLog
  /\ config \in Configs
  /\ tfstate = NoState /\ refreshed = FALSE
  /\ op = "idle" /\ ops = <<>> /\ requests = {} /\ disturbed = FALSE
  /\ budget = [faults |-> 0, acts |-> 0, edits |-> 0]

Spend(what, max) == budget[what] < max /\ budget' = [budget EXCEPT ![what] = @ + 1]

EndCall == op' = "idle" /\ ops' = <<>> /\ requests' = {} /\ disturbed' = FALSE
Fail == EndCall /\ refreshed' = FALSE /\ UNCHANGED <<config, tfstate>>

(***************************************************************************)
(* Which operations a call executes.                                       *)
(***************************************************************************)

When(condition, operation) == IF condition THEN <<operation>> ELSE <<>>

CreateOps(plan) == <<"install">> \o When(~plan.started, "stop") \o <<"read">>

\* Defect: the shrink guard is missing.
UpdateOpsUnguarded(prior, plan) ==
  When(plan.log # prior.log, "log")
    \o When(plan.types \ prior.types # {}, "install")
    \o When(prior.types \ plan.types # {}, "uninstall")
    \o When(plan.started # prior.started, IF plan.started THEN "start" ELSE "stop")
    \o <<"read">>

\* Defect: an update leaves the engines running or stopped as they are.
UpdateOpsKeepStarted(prior, plan) ==
  When(plan.log # prior.log, "log")
    \o When(plan.types \ prior.types # {}, "install")
    \o When(prior.types \ plan.types # {}, IF plan.shrink THEN "uninstall" ELSE "refuse")
    \o <<"read">>

\* Log extraction and the added types come before the shrink guard.
UpdateOps(prior, plan) ==
  When(plan.log # prior.log, "log")
    \o When(plan.types \ prior.types # {}, "install")
    \o When(prior.types \ plan.types # {}, IF plan.shrink THEN "uninstall" ELSE "refuse")
    \o When(plan.started # prior.started, IF plan.started THEN "start" ELSE "stop")
    \o <<"read">>

DeleteOps == <<"uninstall", "awaitGone">>

Begin(o, sequence) ==
  /\ op = "idle"
  /\ op' = o /\ ops' = sequence
  /\ disturbed' = (o = "update" /\ \E t \in tfstate.types : engine[t] \in {"none", "uninstalling"})
  /\ UNCHANGED <<store, tfVars, requests, budget>>

BeginRead == tfstate # NoState /\ ~refreshed /\ Begin("read", <<"read">>)
BeginCreate == tfstate = NoState /\ config # NoConfig /\ Begin("create", CreateOps(config))
BeginUpdate ==
  /\ tfstate # NoState /\ refreshed /\ config \notin {NoConfig, tfstate}
  /\ Begin("update", UpdateOps(tfstate, config))
BeginDelete == tfstate # NoState /\ refreshed /\ config = NoConfig /\ Begin("delete", DeleteOps)

(***************************************************************************)
(* The requests, and what the store does with them.                        *)
(***************************************************************************)

Requests == {"log", "install", "uninstall", "start", "stop"}
Doing(o) == op # "idle" /\ ops # <<>> /\ Head(ops) = o

\* An uninstall names the types to remove; with none in the state, all.
Removed ==
  IF op = "update" THEN tfstate.types \ config.types
  ELSE IF tfstate.types = {} THEN Types ELSE tfstate.types

InstallAccepted == \A t \in config.types : engine[t] # "uninstalling"

Accepted(o) ==
  CASE o = "install" -> InstallAccepted
    [] o \in {"log", "start", "stop"} -> Installed # {}
    [] OTHER -> TRUE

EngineAfter(o, t) ==
  CASE o = "install" /\ t \in config.types /\ engine[t] = "none" -> {"installing", "started"}
    [] o = "uninstall" /\ t \in Removed /\ engine[t] # "none"    -> {"uninstalling", "none"}
    [] o = "start" /\ engine[t] = "stopped"                      -> {"started"}
    [] o = "stop" /\ engine[t] \in {"installing", "started"}     -> {"stopped"}
    [] OTHER                                                     -> {engine[t]}

Effect(o) ==
  /\ engine' \in {e \in [Types -> EngineStates] : \A t \in Types : e[t] \in EngineAfter(o, t)}
  /\ log' = IF o \in {"log", "install"} THEN config.log ELSE log

Execute ==
  /\ \E o \in Requests :
       /\ Doing(o) /\ Accepted(o) /\ Effect(o)
       /\ requests' = requests \cup {o}
  /\ ops' = Tail(ops)
  /\ UNCHANGED <<tfVars, op, disturbed, budget>>

\* A status other than 2xx or, for an install, 500 ends the call.
Refused ==
  /\ \E o \in Requests \ {"install"} : Doing(o) /\ ~Accepted(o)
  /\ Fail
  /\ UNCHANGED <<store, budget>>

\* Defect: a server error is taken for success.
InstallErrorIgnored ==
  /\ Doing("install") /\ Spend("faults", MaxFaults)
  /\ ops' = Tail(ops)
  /\ UNCHANGED <<store, tfVars, op, requests, disturbed>>

\* RetryCreateOnServerError: after a 500, whether or not it took effect, the
\* install is sent again.
InstallServerError ==
  /\ Doing("install") /\ Spend("faults", MaxFaults)
  /\ \/ UNCHANGED <<store, requests>>
     \/ Accepted("install") /\ Effect("install") /\ requests' = requests \cup {"install"}
  /\ UNCHANGED <<tfVars, op, ops, disturbed>>

\* "Entity type shrink blocked".
ShrinkRefused ==
  /\ Doing("refuse")
  /\ Fail
  /\ UNCHANGED <<store, budget>>

\* A request fails, without effect or with its response lost, or the deadline of
\* the call passes; only the deadline of a read is not an error (ReadDegraded).
CallFails ==
  /\ \E o \in Requests \cup {"awaitGone", "read"} :
       /\ Doing(o)
       /\ UNCHANGED store \/ (o \in Requests /\ Accepted(o) /\ Effect(o))
  /\ Spend("faults", MaxFaults) /\ Fail

\* Defect: the delete waits only for the engines it has uninstalled.
AwaitGoneOwn ==
  /\ Doing("awaitGone") /\ \A t \in tfstate.types : engine[t] = "none"
  /\ tfstate' = NoState /\ refreshed' = FALSE /\ EndCall
  /\ UNCHANGED <<store, config, budget>>

\* waitForUninstall: the whole store has to be gone.
AwaitGone ==
  /\ Doing("awaitGone") /\ Status = "not_installed"
  /\ tfstate' = NoState /\ refreshed' = FALSE /\ EndCall
  /\ UNCHANGED <<store, config, budget>>

\* The deadline passes because engines remain that this delete did not uninstall.
AwaitGoneTimesOut ==
  /\ Doing("awaitGone") /\ \E t \in Installed : engine[t] # "uninstalling"
  /\ Fail
  /\ UNCHANGED <<store, budget>>

(***************************************************************************)
(* Read: waitForStarted, flattenStatus.                                    *)
(***************************************************************************)

\* delay, field_history_length, frequency and lookback_period are read back; the
\* other seven attributes of log_extraction become null, whatever was configured.
Reported(l) == IF l = NoLog THEN NoLog ELSE ReadBack[l]

\* Defect: allow_entity_type_shrink, which the API does not know, is lost.
FlattenStatusOnly(visible) ==
  [types |-> visible, started |-> \E t \in visible : engine[t] = "started",
   log |-> IF visible = {} THEN NoLog ELSE Reported(log), shrink |-> NoConfig]

\* started: at least one engine is; without engines there are no log settings.
FlattenStatus(visible) ==
  [types |-> visible, started |-> \E t \in visible : engine[t] = "started",
   log |-> IF visible = {} THEN NoLog ELSE Reported(log),
   shrink |-> IF op = "read" THEN tfstate.shrink ELSE config.shrink]

\* Defect: a store that is still installing is read as it is.
ReadAtOnce ==
  /\ Doing("read") /\ Status # "not_installed"
  /\ \E visible \in SUBSET Installed :
       /\ {t \in Installed : engine[t] # "installing"} \subseteq visible
       /\ tfstate' = FlattenStatus(visible)
  /\ refreshed' = (op = "read") /\ EndCall
  /\ UNCHANGED <<store, config, budget>>

Read ==
  /\ Doing("read") /\ Status = "installed"
  /\ tfstate' = FlattenStatus(Installed)
  /\ refreshed' = (op = "read") /\ EndCall
  /\ UNCHANGED <<store, config, budget>>

\* The deadline passes while engines are being installed: a warning, and what
\* the status listed of them is saved.
ReadDegraded ==
  /\ Doing("read") /\ Status = "installing" /\ Spend("faults", MaxFaults)
  /\ \E visible \in SUBSET Installed :
       /\ {t \in Installed : engine[t] # "installing"} \subseteq visible
       /\ tfstate' = FlattenStatus(visible)
  /\ refreshed' = (op = "read") /\ EndCall
  /\ UNCHANGED <<store, config>>

\* A refresh drops the resource; the read-back of a write fails.
ReadNotInstalled ==
  /\ Doing("read") /\ Status = "not_installed"
  /\ IF op = "read" THEN tfstate' = NoState /\ refreshed' = TRUE /\ EndCall /\ UNCHANGED config
                    ELSE Fail
  /\ UNCHANGED <<store, budget>>

(***************************************************************************)
(* Kibana, other clients and the practitioner.                             *)
(***************************************************************************)

KibanaMoves ==
  /\ \E t \in Types :
       /\ engine[t] \in {"installing", "uninstalling"}
       /\ engine' = [engine EXCEPT ![t] = IF @ = "installing" THEN "started" ELSE "none"]
  /\ UNCHANGED <<log, tfVars, op, ops, requests, disturbed, budget>>

OtherClient ==
  /\ Spend("acts", MaxActs)
  /\ \E t \in Types :
       /\ engine[t] \in {"none", "started", "stopped"}
       /\ engine' = [engine EXCEPT ![t] = CASE @ = "none" -> "installing"
                                            [] @ = "started" -> "uninstalling"
                                            [] @ = "stopped" -> "started"]
  /\ disturbed' = (op # "idle")
  /\ log' = IF log = NoLog THEN CHOOSE l \in Logs : TRUE ELSE log
  /\ UNCHANGED <<tfVars, op, ops, requests>>

EditConfig ==
  /\ op = "idle" /\ Spend("edits", MaxEdits)
  /\ config' \in (Configs \cup {NoConfig}) \ {config}
  /\ refreshed' = FALSE
  /\ UNCHANGED <<store, tfstate, op, ops, requests, disturbed>>

\* Terraform found nothing to do and is run again.
NewRun ==
  /\ op = "idle" /\ tfstate # NoState /\ refreshed /\ config = tfstate
  /\ refreshed' = FALSE
  /\ UNCHANGED <<store, config, tfstate, op, ops, requests, disturbed, budget>>

Provider ==
  \/ BeginRead \/ BeginCreate \/ BeginUpdate \/ BeginDelete \/ NewRun
  \/ Execute \/ Refused \/ ShrinkRefused \/ AwaitGone \/ AwaitGoneTimesOut
  \/ Read \/ ReadNotInstalled

Next ==
  \/ Provider \/ InstallServerError \/ CallFails \/ ReadDegraded
  \/ KibanaMoves \/ OtherClient \/ EditConfig

\* Calls make progress, Terraform is run again and again, and Kibana ends what it
\* is installing or removing.
Spec == Init /\ [][Next]_vars /\ WF_vars(Provider) /\ WF_vars(KibanaMoves)

(***************************************************************************)
(* Properties.                                                             *)
(***************************************************************************)

Operations == Requests \cup {"refuse", "awaitGone", "read"}

\* Types of the store, the state file and the call.
TypeOK ==
  /\ engine \in [Types -> EngineStates] /\ log \in Logs \cup {NoLog}
  /\ config \in Config \cup {NoConfig}
  /\ tfstate \in Model \cup {NoState} /\ refreshed \in BOOLEAN
  /\ op \in {"idle", "read", "create", "update", "delete"}
  /\ ops \in Seq(Operations) /\ requests \subseteq Requests /\ disturbed \in BOOLEAN
  /\ budget \in [faults : 0 .. MaxFaults, acts : 0 .. MaxActs, edits : 0 .. MaxEdits]

\* The resource leaves the state only while no engine is installed, not even one
\* that another client installed while the delete was waiting.
ForgottenOnlyIfGone ==
  [][(tfstate # NoState /\ tfstate' = NoState) => Installed = {}]_vars

\* Throughout an update every engine of the prior state stays installed, unless
\* the configuration drops it and allows the shrink, or another client acts.
KeepsEngines ==
  (op = "update" /\ ~disturbed) =>
    \A t \in tfstate.types :
      (t \in config.types \/ ~config.shrink) => engine[t] \notin {"none", "uninstalling"}

\* Types, and no engine lost in an update.
StoreInv == TypeOK /\ KeepsEngines

\* A write that succeeds has every configured engine installed, however often its
\* install was answered with a server error, unless another client removed one.
WriteInstalls ==
  [][(op \in {"create", "update"} /\ tfstate' # tfstate /\ ~disturbed)
       => \A t \in config.types \ tfstate'.types : engine[t] = "installing"]_vars

\* The types in the state are all the installed ones, unless a read ran into its
\* deadline: an engine that is being installed is waited for.
ReadIsComplete ==
  [][(tfstate' \notin {tfstate, NoState} /\ budget' = budget) => tfstate'.types = Installed]_vars

\* The state file tells the truth about the store: when the resource leaves it,
\* when a write is saved and when a read is.
StateIsTruthful == ForgottenOnlyIfGone /\ WriteInstalls /\ ReadIsComplete

\* What no re-run settles: engines that the configuration does not list and may not
\* remove, and log extraction settings that the status does not report.  The read-back
\* drops these, so that every run plans them again, and Terraform core rejects the
\* result of every apply (its taint of a new resource is left out).
Blocked ==
  config # NoConfig
    /\ \/ tfstate # NoState /\ ~config.shrink /\ ~(tfstate.types \subseteq config.types)
       \/ config.log # Reported(config.log)

\* State, store and configuration agree as far as the status tells: settings that it
\* does not report may be left from an earlier configuration, and one engine that
\* is started stands for all.
Reconciled ==
  IF config = NoConfig THEN tfstate = NoState
  ELSE /\ tfstate = config /\ Installed = config.types /\ Reported(log) = config.log
       /\ (\E t \in Types : engine[t] = "started") <=> config.started

\* Re-running Terraform repairs what was cut short, a degraded read, and a destroy
\* that met engines it did not know, once the interference ends.
Converges == <>[](Blocked \/ Reconciled)

Saved == op \in {"create", "update"} /\ Doing("read") /\ tfstate' # tfstate

\* What the specification says of `started`: with true, start is called "if any
\* engine is not running after install or update".
StartedAfterWrite ==
  [][(Saved /\ config.started /\ ~disturbed) =>
       \A t \in tfstate'.types : engine[t] \in {"installing", "started"}]_vars

\* What the schema says of the eleven attributes of log_extraction: a configured
\* value is the one in the state.
LogSettingsAreSaved == [][(Saved /\ ~disturbed) => tfstate'.log \in {config.log, NoLog}]_vars

\* What the error message of the shrink guard says: "No API calls were made."
RefusalMakesNoCalls == Doing("refuse") => requests = {}

\* What the specification says of `started`: it "controls whether engines should
\* be running after create or update"; with false, stop is called.
StoppedAfterWrite ==
  [][(Saved /\ ~config.started /\ ~disturbed) => ~tfstate'.started]_vars
=============================================================================
