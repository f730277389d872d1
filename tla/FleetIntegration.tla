-------------------------- MODULE FleetIntegration --------------------------
(***************************************************************************)
(* The Fleet integration resource: several resources of one Terraform run, *)
(* each responsible for the same package in a space of its own, install,   *)
(* read and destroy it concurrently.  Fleet holds one installation of the  *)
(* package, with the space it was installed in and the further spaces its  *)
(* Kibana assets were installed in; an uninstall removes it from them all. *)
(*                                                                         *)
(* External: Fleet (what its requests do, and its installation of packages *)
(* and assets in the background), other clients of it and Terraform core.  *)
(***************************************************************************)
EXTENDS Integers, FiniteSets

CONSTANTS
  Resources, \* the integration resources that manage the package
  Spaces,    \* Kibana spaces
  Default,   \* the space of a request without a space id
  Versions,  \* versions of the package
  Configs,   \* the configurations the practitioner may write
  NoSpace, NoState, NoConfig,
  MaxFaults, \* bound: how many requests or installations fail
  MaxActs,   \* bound: how often another client acts
  MaxEdits   \* bound: how often the practitioner edits the configuration

Model == [space : Spaces \cup {NoSpace}, version : Versions, force : BOOLEAN, skip : BOOLEAN]

ASSUME FleetAssumption ==
  /\ IsFiniteSet(Spaces) /\ Default \in Spaces /\ NoSpace \notin Spaces /\ Versions # {}
  /\ NoState \notin Model /\ NoConfig \notin Model
  /\ Configs \subseteq [Resources -> Model \cup {NoConfig}]
  /\ MaxFaults \in Nat /\ MaxActs \in Nat /\ MaxEdits \in Nat

VARIABLES
  pkg,        \* Fleet's record of the package
  assets,     \* the spaces Fleet is still installing Kibana assets in
  spaceAware, \* the server has the kibana_assets endpoints (9.1.0 and later)
  config,     \* the configuration of each resource
  tfstate,    \* each resource in Terraform's state file
  phase,      \* where each resource is in this Terraform run
  step,       \* the next request of each resource's provider call
  model,      \* the model that call works on: its plan, or the state
  looked,     \* history: the spaces the last look of a destroy saw
  budget

fleet == <<pkg, assets, spaceAware>>
vars == <<fleet, config, tfstate, phase, step, model, looked, budget>>

Package == [status : {"none", "installing", "installed", "failed"}, version : Versions,
            primary : Spaces \cup {NoSpace}, others : SUBSET Spaces]
Steps == {"idle", "install", "awaitInstalled", "look", "assets", "awaitAssets", "readBack",
          "read", "lookDelete", "deleteAssets", "uninstall"}
NotInstalled == [status |-> "none", version |-> CHOOSE v \in Versions : TRUE, primary |-> NoSpace, others |-> {}]

Init ==
  /\ pkg = NotInstalled /\ assets = {} /\ spaceAware \in BOOLEAN
  /\ config \in Configs
  /\ tfstate = [r \in Resources |-> NoState]
  /\ phase = [r \in Resources |-> "stale"]
  /\ step = [r \in Resources |-> "idle"]
  /\ model = [r \in Resources |-> NoState]
  /\ looked = [r \in Resources |-> {}]
  /\ budget = [faults |-> 0, acts |-> 0, edits |-> 0]

Spend(what, max) == budget[what] < max /\ budget' = [budget EXCEPT ![what] = @ + 1]

(***************************************************************************)
(* What the provider makes of Fleet's record of the package.               *)
(***************************************************************************)

PackageSpaces == (pkg.others \cup {pkg.primary}) \ {NoSpace}
IsPackageInstalled == pkg.status = "installed"
FleetPackageInstalledInSpace(s) == IsPackageInstalled /\ s \in PackageSpaces
SupportsSpaceAwareIntegration(s) == s # NoSpace /\ spaceAware

\* Defect: the space the package was installed in is not counted.
InMultipleSpacesUncounted(s) ==
  /\ s \in PackageSpaces
  /\ IF pkg.primary = s THEN Cardinality(pkg.others) > 1
     ELSE Cardinality(pkg.others) > 1 \/ pkg.primary # NoSpace

IsInstalledInMultipleSpaces(s) ==
  /\ s \in PackageSpaces
  /\ IF pkg.primary = s THEN pkg.others # {}
     ELSE Cardinality(pkg.others) > 1 \/ pkg.primary # NoSpace

\* Whether a read finds the resource m is the state of.
Found(m) ==
  IF SupportsSpaceAwareIntegration(m.space) THEN FleetPackageInstalledInSpace(m.space)
  ELSE IsPackageInstalled

\* The installed version replaces the one in the model, so that drift shows;
\* a space that is not set becomes the one the package was installed in.
Observed(m) == [m EXCEPT !.version = pkg.version, !.space = IF @ = NoSpace THEN pkg.primary ELSE @]

(***************************************************************************)
(* A Terraform run: refresh every resource, then apply what they need.     *)
(***************************************************************************)

Go(r, s) == step' = [step EXCEPT ![r] = s]
\* A call ends, and the resource has had its turn in this run if it failed.
End(r, p) ==
  /\ Go(r, "idle")
  /\ phase' = [phase EXCEPT ![r] = p]
  /\ model' = [model EXCEPT ![r] = NoState]
  /\ looked' = [looked EXCEPT ![r] = {}]
Fail(r) == End(r, "done") /\ UNCHANGED <<config, tfstate>>
Save(r, m, p) == tfstate' = [tfstate EXCEPT ![r] = m] /\ End(r, p) /\ UNCHANGED config

\* space_id is computed and keeps no prior value, so that an unset one makes
\* every change a replacement, like a changed one does.
PlannedOp(r) ==
  IF config[r] = NoConfig THEN (IF tfstate[r] = NoState THEN "none" ELSE "delete")
  ELSE IF tfstate[r] = NoState THEN "write"
  ELSE IF config[r] \in {tfstate[r], [tfstate[r] EXCEPT !.space = NoSpace]} THEN "none"
  ELSE IF config[r].space # tfstate[r].space THEN "delete" ELSE "write"

Planned == \A r \in Resources : phase[r] # "stale" \/ (tfstate[r] = NoState /\ step[r] = "idle")
HasTurn(r) == Planned /\ phase[r] # "done" /\ step[r] = "idle"

BeginRead(r) ==
  /\ phase[r] = "stale" /\ step[r] = "idle" /\ tfstate[r] # NoState
  /\ Go(r, "read")
  /\ model' = [model EXCEPT ![r] = tfstate[r]]
  /\ UNCHANGED <<fleet, config, tfstate, phase, looked, budget>>

BeginWrite(r) ==
  /\ HasTurn(r) /\ PlannedOp(r) = "write"
  /\ Go(r, "install")
  /\ phase' = [phase EXCEPT ![r] = "planned"]
  /\ model' = [model EXCEPT ![r] = config[r]]
  /\ UNCHANGED <<fleet, config, tfstate, looked, budget>>

BeginDelete(r) ==
  /\ HasTurn(r) /\ PlannedOp(r) = "delete" /\ ~tfstate[r].skip
  /\ Go(r, IF SupportsSpaceAwareIntegration(tfstate[r].space) THEN "lookDelete" ELSE "uninstall")
  /\ phase' = [phase EXCEPT ![r] = "planned"]
  /\ model' = [model EXCEPT ![r] = tfstate[r]]
  /\ UNCHANGED <<fleet, config, tfstate, looked, budget>>

SkipDestroy(r) ==
  /\ HasTurn(r) /\ PlannedOp(r) = "delete" /\ tfstate[r].skip
  /\ Save(r, NoState, "planned")
  /\ UNCHANGED <<fleet, budget>>

NewRun ==
  /\ Planned
  /\ \A r \in Resources : step[r] = "idle" /\ (phase[r] = "done" \/ PlannedOp(r) = "none")
  /\ phase' = [r \in Resources |-> "stale"]
  /\ UNCHANGED <<fleet, config, tfstate, step, model, looked, budget>>

EditConfig ==
  /\ Spend("edits", MaxEdits)
  /\ \A r \in Resources : phase[r] = "stale" /\ step[r] = "idle"
  /\ config' \in Configs \ {config}
  /\ UNCHANGED <<fleet, tfstate, phase, step, model, looked>>

(***************************************************************************)
(* Create and update: install, wait, and install the assets in the space   *)
(* when the package turns out to be installed elsewhere only.              *)
(***************************************************************************)

Scope(r) == model[r].space
SpaceOrDefault(s) == IF s = NoSpace THEN Default ELSE s

\* Fleet: the first install decides the space, a later one only the version.
InstallRequested(s, v) ==
  [status : {"installing", "installed"}, version : {v},
   primary : {IF pkg.status = "none" THEN SpaceOrDefault(s) ELSE pkg.primary}, others : {pkg.others}]

InstallPackage(r) ==
  /\ step[r] = "install"
  /\ pkg' \in InstallRequested(Scope(r), model[r].version)
  /\ Go(r, "awaitInstalled")
  /\ UNCHANGED <<assets, spaceAware, config, tfstate, phase, model, looked, budget>>

\* Status installed is reported whatever the version and the space.
AwaitInstalled(r) ==
  /\ step[r] = "awaitInstalled" /\ IsPackageInstalled
  /\ Go(r, "look")
  /\ UNCHANGED <<fleet, config, tfstate, phase, model, looked, budget>>

\* Defect: the assets are never installed in the space.
AfterLookGlobalOnly(r) == "readBack"

\* An old server cannot install assets in a space: a warning, and no request.
AfterLook(r) ==
  IF Scope(r) # NoSpace /\ IsPackageInstalled /\ Scope(r) \notin PackageSpaces /\ spaceAware
  THEN "assets" ELSE "readBack"

Look(r) ==
  /\ step[r] = "look"
  /\ Go(r, AfterLook(r))
  /\ model' = [model EXCEPT ![r].space = IF @ = NoSpace THEN pkg.primary ELSE @]
  /\ UNCHANGED <<fleet, config, tfstate, phase, looked, budget>>

\* Fleet installs the assets at once or in the background.
InstallKibanaAssets(r) ==
  /\ step[r] = "assets" /\ pkg.status # "none"
  /\ \/ pkg' = [pkg EXCEPT !.others = @ \cup {Scope(r)}] /\ UNCHANGED assets
     \/ assets' = assets \cup {Scope(r)} /\ UNCHANGED pkg
  /\ Go(r, "awaitAssets")
  /\ UNCHANGED <<spaceAware, config, tfstate, phase, model, looked, budget>>

AssetsRefused(r) ==
  /\ step[r] = "assets" /\ pkg.status = "none"
  /\ Fail(r) /\ UNCHANGED <<fleet, budget>>

AwaitAssets(r) ==
  /\ step[r] = "awaitAssets" /\ FleetPackageInstalledInSpace(Scope(r))
  /\ Go(r, "readBack")
  /\ UNCHANGED <<fleet, config, tfstate, phase, model, looked, budget>>

Awaits(r) ==
  \/ step[r] = "awaitInstalled" /\ ~IsPackageInstalled
  \/ step[r] = "awaitAssets" /\ ~FleetPackageInstalledInSpace(Scope(r))

\* A wait ends when it sees install_failed, or at the deadline of the call
\* when nothing under way at Fleet can satisfy it.
AwaitFails(r) ==
  /\ Awaits(r)
  /\ pkg.status = "failed" \/ (pkg.status # "installing" /\ assets = {})
  /\ Fail(r) /\ UNCHANGED <<fleet, budget>>

(***************************************************************************)
(* Read, on its own and after a write.                                     *)
(***************************************************************************)

\* Defect: the space of the resource is left out of the question.
ReadAnywhere(r) ==
  /\ step[r] \in {"read", "readBack"} /\ IsPackageInstalled
  /\ Save(r, Observed(model[r]), "planned")
  /\ UNCHANGED <<fleet, budget>>

ReadIntegration(r) ==
  /\ step[r] \in {"read", "readBack"} /\ Found(model[r])
  /\ Save(r, Observed(model[r]), IF step[r] = "read" THEN "planned" ELSE "done")
  /\ UNCHANGED <<fleet, budget>>

\* A read drops the resource from the state; after a write it is an error.
ReadNotFound(r) ==
  /\ step[r] \in {"read", "readBack"} /\ ~Found(model[r])
  /\ \/ step[r] = "read" /\ Save(r, NoState, "planned")
     \/ step[r] = "readBack" /\ Fail(r)
  /\ UNCHANGED <<fleet, budget>>

(***************************************************************************)
(* Delete.                                                                 *)
(***************************************************************************)

LookDelete(r) ==
  /\ step[r] = "lookDelete"
  /\ Go(r, IF IsInstalledInMultipleSpaces(Scope(r)) THEN "deleteAssets" ELSE "uninstall")
  /\ looked' = [looked EXCEPT ![r] = PackageSpaces]
  /\ UNCHANGED <<fleet, config, tfstate, phase, model, budget>>

\* Fleet keeps the assets of the space the package was installed in.
InstallSpaceRejected(r) == pkg.status # "none" /\ pkg.primary = Scope(r)

DeleteKibanaAssets(r) ==
  /\ step[r] = "deleteAssets" /\ ~InstallSpaceRejected(r)
  /\ pkg' = [pkg EXCEPT !.others = @ \ {Scope(r)}]
  /\ assets' = assets \ {Scope(r)}
  /\ Save(r, NoState, "planned")
  /\ UNCHANGED <<spaceAware, budget>>

\* Defect: the rejection is taken for a success.
FallbackIgnored(r) == Save(r, NoState, "planned")

\* Only a forced destroy falls back to the uninstall everywhere.
Fallback(r) ==
  \/ model[r].force /\ Go(r, "uninstall") /\ UNCHANGED <<config, tfstate, phase, model, looked>>
  \/ ~model[r].force /\ Fail(r)

DeleteRejected(r) ==
  /\ step[r] = "deleteAssets" /\ InstallSpaceRejected(r)
  /\ Fallback(r)
  /\ UNCHANGED <<fleet, budget>>

\* A package that is not installed is no error.
Uninstall(r) ==
  /\ step[r] = "uninstall"
  /\ pkg' = NotInstalled /\ assets' = {}
  /\ Save(r, NoState, "planned")
  /\ UNCHANGED <<spaceAware, budget>>

\* A failed refresh is repeated before anything is applied.  An install that lost
\* its answer is one whose wait fails; a removal, one another client makes.
CallFails(r) ==
  /\ step[r] # "idle"
  /\ Spend("faults", MaxFaults)
  /\ End(r, IF step[r] = "read" THEN "stale" ELSE "done")
  /\ UNCHANGED <<fleet, config, tfstate>>

(***************************************************************************)
(* Fleet and its other clients.                                            *)
(***************************************************************************)

FleetMoves ==
  /\ \/ /\ pkg.status = "installing"
        /\ pkg' = [pkg EXCEPT !.status = "installed"] /\ UNCHANGED assets
     \/ /\ pkg.status # "none"
        /\ \E s \in assets : pkg' = [pkg EXCEPT !.others = @ \cup {s}] /\ assets' = assets \ {s}
  /\ UNCHANGED <<spaceAware, config, tfstate, phase, step, model, looked, budget>>

InstallFails ==
  /\ pkg.status = "installing"
  /\ Spend("faults", MaxFaults)
  /\ pkg' = [pkg EXCEPT !.status = "failed"]
  /\ UNCHANGED <<assets, spaceAware, config, tfstate, phase, step, model, looked>>

OtherClient ==
  /\ Spend("acts", MaxActs)
  /\ \/ pkg.status # "none" /\ pkg' = NotInstalled /\ assets' = {}
     \/ \E s \in pkg.others : pkg' = [pkg EXCEPT !.others = @ \ {s}] /\ UNCHANGED assets
     \/ \E s \in Spaces, v \in Versions : pkg' \in InstallRequested(s, v) /\ UNCHANGED assets
  /\ UNCHANGED <<spaceAware, config, tfstate, phase, step, model, looked>>

ProviderSteps(r) ==
  \/ BeginRead(r) \/ BeginWrite(r) \/ BeginDelete(r) \/ SkipDestroy(r)
  \/ InstallPackage(r) \/ AwaitInstalled(r) \/ Look(r)
  \/ InstallKibanaAssets(r) \/ AssetsRefused(r) \/ AwaitAssets(r) \/ AwaitFails(r)
  \/ ReadIntegration(r) \/ ReadNotFound(r)
  \/ LookDelete(r) \/ DeleteKibanaAssets(r) \/ DeleteRejected(r) \/ Uninstall(r)

Next ==
  \/ \E r \in Resources : ProviderSteps(r) \/ CallFails(r)
  \/ NewRun \/ EditConfig
  \/ FleetMoves \/ InstallFails \/ OtherClient

Fairness ==
  /\ \A r \in Resources : WF_vars(ProviderSteps(r))
  /\ WF_vars(NewRun) /\ WF_vars(FleetMoves)

Spec == Init /\ [][Next]_vars /\ Fairness

(***************************************************************************)
(* Properties.                                                             *)
(***************************************************************************)

\* Types of the package, the state file and the calls.
TypeOK ==
  /\ pkg \in Package /\ assets \subseteq Spaces /\ spaceAware \in BOOLEAN
  /\ config \in Configs
  /\ tfstate \in [Resources -> Model \cup {NoState}]
  /\ phase \in [Resources -> {"stale", "planned", "done"}]
  /\ step \in [Resources -> Steps]
  /\ model \in [Resources -> Model \cup {NoState}]
  /\ \A r \in Resources : step[r] # "idle" => model[r] # NoState
  /\ looked \in [Resources -> SUBSET Spaces]
  /\ budget \in [faults : 0 .. MaxFaults, acts : 0 .. MaxActs, edits : 0 .. MaxEdits]

Forgets(r) == tfstate[r] # NoState /\ tfstate'[r] = NoState
Lost(m) == ~Found(m)'

\* A resource leaves the state, by a read or a destroy, only when the package
\* is gone from its space (from the server, where there is no support for
\* spaces), unless it was told to leave the package alone: a destroy that
\* Fleet rejects must keep the resource.
ForgottenOnlyIfGone ==
  [][\A r \in Resources : Forgets(r) =>
       \E m \in {tfstate[r]} : Lost(m) \/ m.skip]_vars

\* A resource is saved, by a read or a write, only while the package is
\* installed and, on a server that tells spaces apart, installed in the space
\* the state names: neither the status of another space nor the earlier
\* success of the wait is enough.
SavedIsInSpace ==
  [][\A r \in Resources :
       tfstate'[r] \notin {tfstate[r], NoState} =>
         IsPackageInstalled /\ (spaceAware => tfstate'[r].space \in PackageSpaces)]_vars

\* The state file tells the truth about the package: it leaves the state only when
\* it is gone from the space, and is saved only while it is there.
StateIsTruthful == []TypeOK /\ ForgottenOnlyIfGone /\ SavedIsInSpace

\* A destroy without force, whose look found the package in the space of the
\* resource and in others, removes it from no other space: it goes through
\* the assets of its own space, and ends in an error if Fleet rejects that.
SeenPeersSurvive ==
  [][\A r \in Resources :
       /\ Forgets(r) /\ ~tfstate[r].force
       /\ tfstate[r].space \in looked[r] /\ looked[r] # {tfstate[r].space}
       => PackageSpaces \ {tfstate[r].space} \subseteq PackageSpaces']_vars

SpareOthers(r) == Forgets(r) /\ ~tfstate[r].force /\ spaceAware

\* "otherwise an actionable error is returned instead of silently affecting
\* other, independently managed spaces": a destroy without force never takes
\* the package from a space another resource has in its state.
OthersSurvive ==
  [][\A r, q \in Resources :
       SpareOthers(r) /\ q # r /\ tfstate[q] # NoState /\ tfstate[q].space # tfstate[r].space
       => \A m \in {tfstate[q]} : Found(m) => ~Lost(m)]_vars

\* "After a successful install, when `space_id` was unknown in the plan, the
\* resource SHALL set `space_id` to null in state."
UnsetSpaceIsNull ==
  [][\A r \in Resources :
       tfstate[r] = NoState /\ tfstate'[r] # NoState /\ config[r].space = NoSpace
       => tfstate'[r].space = NoSpace]_vars

Agree == \A r, q \in Resources :
  config[r] # NoConfig /\ config[q] # NoConfig => config[r].version = config[q].version

\* Fleet rejects the destroy of the install space while others remain.
HeldByPeers(r) == ~tfstate[r].force /\ IsInstalledInMultipleSpaces(tfstate[r].space)
                    /\ tfstate[r].space = pkg.primary

Settled(r) ==
  \/ tfstate[r] # NoState /\ PlannedOp(r) = "delete" /\ HeldByPeers(r)
  \/ PlannedOp(r) = "none" /\ (config[r] # NoConfig => Found(tfstate[r]) /\ tfstate[r].version = pkg.version)

\* Runs repeated without further edits bring every resource to its
\* configuration: installed in its space at the configured version, or
\* destroyed; provided the resources agree on the version, of which Fleet
\* keeps only one.  Fleet may hold back a destroy, the first half of a
\* replacement included, for the sake of the other spaces: without space_id
\* in the configuration every change is a replacement.
Converges == <>[]Agree => <>[](\A r \in Resources : Settled(r))
=============================================================================
