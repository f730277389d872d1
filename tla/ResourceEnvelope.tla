-------------------------- MODULE ResourceEnvelope --------------------------
(***************************************************************************)
(* One resource of the provider through its life: the generic Create and   *)
(* Update (runGenericResourceWrite) and Read and Delete                    *)
(* (baseResourceEnvelope) of internal/entitycore, driven by Terraform core *)
(* and acting on a remote API that other clients change and whose calls    *)
(* may fail with or without taking effect.                                 *)
(*                                                                         *)
(* External, modelled from how the envelope uses them: Terraform core (it  *)
(* refreshes, plans, applies and keeps the state file) and the concrete    *)
(* resource's callbacks (one API call each, identifiers filled in).        *)
(***************************************************************************)
EXTENDS Identity

CONSTANTS
  Kinds,      \* the kinds of concrete resource considered
  Spaces,     \* the Kibana spaces
  Names,      \* the resource identifiers that are chosen by people
  Generated,  \* the identifiers the server may generate for this resource
  Cluster,    \* the Elasticsearch cluster uuid
  Contents,   \* what an object may hold
  Absent, NoState, NoConfig, NoObject, NoModel,
  MaxFaults,  \* bound: how many API calls fail
  MaxDrifts,  \* bound: how often another client changes an object
  MaxEdits    \* bound: how often the practitioner edits the configuration

\* backend; whether the server generates the identifier; whether a write of a
\* name creates or overwrites (PUT) or insists (POST, then 409 or 404); whether
\* read-after-write is skipped; whether the planned identifiers of an update are
\* unknown (Kibana resources whose ModifyPlan marks them so).
Kind == [backend : {"elasticsearch", "kibana"}, generated : BOOLEAN, upsert : BOOLEAN,
         skipReadAfterWrite : BOOLEAN, unknownOnUpdate : BOOLEAN]

ASSUME KindsAssumption ==
  /\ Kinds \subseteq Kind
  /\ \A k \in Kinds : k.unknownOnUpdate => k.backend = "kibana"

VARIABLES
  kind,       \* the kind of this resource
  supported,  \* the server satisfies the model's version requirements
  remote,     \* the objects on the server
  config,     \* the configuration: a space and a content, or none
  tfstate,    \* the resource in Terraform's state file
  refreshed,  \* this Terraform run has refreshed the state
  op, step,   \* the provider call in progress, and where it is
  plan,       \* the planned model
  key,        \* writeKey and spaceID of the write
  written,    \* the model the write callback returned
  hit,        \* history: the object that the write in progress has written
  tracked,    \* history: the object that was created or imported into the state
  made,       \* history: objects this configuration brought into existence
  reported,   \* history: objects whose create ended with an error or was killed
  faults, drifts, edits

tfVars == <<config, tfstate, refreshed>>
callVars == <<op, step, plan, key, written, hit>>
history == <<tracked, made, reported>>
budget == <<faults, drifts, edits>>
vars == <<kind, supported, remote, tfVars, callVars, history, budget>>

\* Space of an Elasticsearch object: there is none.
SpacesOf(k) == IF k.backend = "kibana" THEN Spaces ELSE {EmptyStr}
Resources == Names \cup Generated
Objects == [space : Spaces \cup {EmptyStr}, resource : Resources]
ObjectsOf(k) == [space : SpacesOf(k), resource : Resources]

\* What the practitioner may write down for the resource.
ConfigsOf(k) == [space : SpacesOf(k), name : IF k.generated THEN {EmptyStr} ELSE Names, content : Contents]

\* A cluster uuid and a space id contain no slash; identifiers are not blank.
ASSUME IdentifiersAssumption ==
  /\ \A s \in Spaces \cup {Cluster} : s \in Seq(STRING) /\ Len(s) = 1 /\ s # EmptyStr
  /\ \A n \in Resources : n \in Seq(STRING) /\ n \notin {<<>>, <<" ">>, EmptyStr}

ASSUME EnvelopeAssumption ==
  /\ Absent \notin Contents /\ NoObject \notin Objects
  /\ \A k \in Kinds : NoConfig \notin ConfigsOf(k)
  /\ MaxFaults \in Nat /\ MaxDrifts \in Nat /\ MaxEdits \in Nat

\* The cluster or the space that leads the composite id.
Prefix(space) == IF kind.backend = "kibana" THEN space ELSE Cluster

\* The object Read and Delete address for a model in the state.
TargetOf(model) ==
  IF kind.backend = "kibana"
  THEN ResolveKibanaResourceIdentity(model)
  ELSE [space |-> EmptyStr, resource |-> ResolveElasticsearchReadResourceID(model, EmptyStr)]

Init ==
  /\ kind \in Kinds
  /\ supported \in BOOLEAN
  /\ \E o \in {q \in ObjectsOf(kind) : q.resource \in Names}, c \in {Absent} \cup Contents :
       remote = [q \in Objects |-> IF q = o THEN c ELSE Absent]
  /\ config \in ConfigsOf(kind)
  /\ tfstate = NoState /\ refreshed = FALSE
  /\ op = "idle" /\ step = "none"
  /\ plan = NoModel /\ key = NoObject /\ written = NoModel /\ hit = NoObject
  /\ tracked = NoObject /\ made = {} /\ reported = {}
  /\ faults = 0 /\ drifts = 0 /\ edits = 0

(***************************************************************************)
(* The end of a provider call.  Terraform core keeps the prior state       *)
(* unless the call set or removed it: after a failed create that is none.  *)
(***************************************************************************)

Fault == faults < MaxFaults /\ faults' = faults + 1 /\ UNCHANGED <<drifts, edits>>

EndCall ==
  /\ op' = "idle" /\ step' = "none"
  /\ plan' = NoModel /\ key' = NoObject /\ written' = NoModel /\ hit' = NoObject

\* Error diagnostics: the state file stays as it is and the run is over.
EndWithError == EndCall /\ refreshed' = FALSE /\ UNCHANGED <<config, tfstate>>

\* A create that fails after the object came into being is reported as an error.
ReportObjects(os) == reported' = reported \cup (IF op = "create" THEN os ELSE {})

(***************************************************************************)
(* Create and Update: runGenericResourceWrite.                             *)
(***************************************************************************)

\* The configured name; a generated identifier is not known before the create.
PlanForCreate ==
  [id |-> Unknown, spaceID |-> config.space, content |-> config.content,
   resourceID |-> IF kind.generated THEN Unknown ELSE config.name]

\* space_id and the name require replacement, so an update keeps them; the id is
\* pinned by UseStateForUnknown or marked unknown.
PlanForUpdate ==
  [id |-> IF kind.unknownOnUpdate THEN Unknown ELSE tfstate.id,
   spaceID |-> tfstate.spaceID, content |-> config.content,
   resourceID |-> IF kind.unknownOnUpdate /\ kind.generated THEN Unknown ELSE tfstate.resourceID]

\* Defect: an update never falls back to the prior state's identity.
UpdateIdentityOfPlan(p) == ResolveKibanaResourceIdentity(p)

\* The identity of a Kibana update: the plan's, or the prior state's when the
\* plan has none.
KibanaUpdateIdentity(p) ==
  IF ResolveKibanaResourceIdentity(p).resource = EmptyStr
  THEN ResolveKibanaResourceIdentity(tfstate)
  ELSE ResolveKibanaResourceIdentity(p)

\* validateIdentity of the two adapters.
WriteIdentity(p) ==
  IF kind.backend = "elasticsearch"
  THEN [space |-> EmptyStr, resource |-> ValueString(p.resourceID)]
  ELSE IF op = "update" THEN KibanaUpdateIdentity(p)
  ELSE [space |-> ValueString(p.spaceID), resource |-> ValueString(p.resourceID)]

IdentityIsValid(p) ==
  IF kind.backend = "elasticsearch"
  THEN WriteIdentity(p).resource # EmptyStr \/ (op = "create" /\ kind.generated)
  ELSE /\ IsKnown(p.spaceID) /\ p.spaceID # EmptyStr
       /\ op = "update" => WriteIdentity(p).resource # EmptyStr

BeginCreate ==
  /\ op = "idle" /\ tfstate = NoState /\ config # NoConfig
  /\ op' = "create" /\ step' = "prepare" /\ plan' = PlanForCreate
  /\ UNCHANGED <<kind, supported, remote, tfVars, key, written, hit, history, budget>>

\* Terraform core plans an update when the refreshed state differs.
BeginUpdate ==
  /\ op = "idle" /\ tfstate # NoState /\ refreshed /\ config # NoConfig
  /\ config.space = tfstate.spaceID \/ kind.backend = "elasticsearch"
  /\ kind.generated \/ config.name = tfstate.resourceID
  /\ config.content # tfstate.content
  /\ op' = "update" /\ step' = "prepare" /\ plan' = PlanForUpdate
  /\ UNCHANGED <<kind, supported, remote, tfVars, key, written, hit, history, budget>>

\* Identity, client and version requirements are in order: the write is next.
Prepare ==
  /\ op \in {"create", "update"} /\ step = "prepare"
  /\ IdentityIsValid(plan) /\ supported
  /\ key' = WriteIdentity(plan) /\ step' = "write"
  /\ UNCHANGED <<kind, supported, remote, tfVars, op, plan, written, hit, history, budget>>

\* One of the checks before the write callback refuses.
PrepareRejects ==
  /\ op \in {"create", "update"} /\ step = "prepare"
  /\ ~IdentityIsValid(plan) \/ ~supported
  /\ EndWithError
  /\ UNCHANGED <<kind, supported, remote, history, budget>>

\* No client can be had, or the server's version cannot be fetched.
PrepareFails ==
  /\ op \in {"create", "update"} /\ step = "prepare"
  /\ Fault /\ EndWithError
  /\ UNCHANGED <<kind, supported, remote, history>>

\* The objects the write callback's API call may write.
WriteTargets ==
  IF key.resource = EmptyStr
  THEN {o \in Objects : o.space = key.space /\ o.resource \in Generated /\ remote[o] = Absent}
  ELSE {o \in Objects : o = key /\ (kind.upsert \/ (op = "create") = (remote[o] = Absent))}

\* The effect of the write on an object, and the model the callback returns.
WriteEffect(o) ==
  /\ remote' = [remote EXCEPT ![o] = plan.content]
  /\ made' = IF remote[o] = Absent THEN made \cup {o} ELSE made
  /\ UNCHANGED tracked

WrittenModel(o) ==
  [id |-> CompositeString([ClusterID |-> Prefix(o.space), ResourceID |-> o.resource]),
   spaceID |-> IF kind.backend = "kibana" THEN plan.spaceID ELSE Null,
   resourceID |-> o.resource, content |-> plan.content]

InvokeWrite ==
  /\ step = "write"
  /\ \E o \in WriteTargets : WriteEffect(o) /\ hit' = o /\ written' = WrittenModel(o)
  /\ step' = IF kind.skipReadAfterWrite THEN "postread" ELSE "readback"
  /\ UNCHANGED <<kind, supported, tfVars, op, plan, key, reported, budget>>

\* The API refuses: the name is taken, or the object to update is gone.
InvokeWriteRefused ==
  /\ step = "write" /\ WriteTargets = {}
  /\ EndWithError
  /\ UNCHANGED <<kind, supported, remote, history, budget>>

\* The API call fails, without effect or with its response lost.
InvokeWriteFails ==
  /\ step = "write" /\ Fault /\ EndWithError
  /\ \/ UNCHANGED <<remote, history>>
     \/ \E o \in WriteTargets : WriteEffect(o) /\ ReportObjects({o})
  /\ UNCHANGED <<kind, supported>>

\* Defect: read-after-write takes its identity from the plan.
ReadBackTargetOfPlan ==
  [space |-> IF kind.backend = "kibana" THEN ValueString(plan.spaceID) ELSE EmptyStr,
   resource |-> ValueString(plan.resourceID)]

\* The identity that read-after-write reads: Kibana's from the written model's
\* attributes, Elasticsearch's from the write key or the written model.
ReadBackTarget ==
  IF kind.backend = "kibana"
  THEN [space |-> ValueString(written.spaceID), resource |-> ValueString(written.resourceID)]
  ELSE [space |-> EmptyStr, resource |-> ResolveElasticsearchReadResourceID(written, key.resource)]

\* The read callback found the object.
ReadBack ==
  /\ step = "readback"
  /\ ReadBackTarget \in Objects /\ remote[ReadBackTarget] # Absent
  /\ written' = [written EXCEPT !.content = remote[ReadBackTarget]]
  /\ step' = "postread"
  /\ UNCHANGED <<kind, supported, remote, tfVars, op, plan, key, hit, history, budget>>

\* The object is gone again, or its identity is empty: an error, nothing is saved.
ReadBackNotFound ==
  /\ step = "readback"
  /\ ReadBackTarget \notin Objects \/ remote[ReadBackTarget] = Absent
  /\ ReportObjects({hit}) /\ EndWithError
  /\ UNCHANGED <<kind, supported, remote, tracked, made, budget>>

\* The read or the post-read hook fails (or the operation timeout passes).
ReadBackFails ==
  /\ step \in {"readback", "postread"}
  /\ step = "postread" => ~kind.skipReadAfterWrite \/ kind.backend = "elasticsearch"
  /\ Fault /\ ReportObjects({hit}) /\ EndWithError
  /\ UNCHANGED <<kind, supported, remote, tracked, made>>

\* Defect: the plan is saved in place of the model that was read.
PersistPlan ==
  /\ step = "postread"
  /\ tfstate' = plan /\ refreshed' = TRUE
  /\ tracked' = IF op = "create" THEN hit ELSE tracked
  /\ EndCall
  /\ UNCHANGED <<kind, supported, remote, config, made, reported, budget>>

\* The model is saved to the state.
Persist ==
  /\ step = "postread"
  /\ tfstate' = written /\ refreshed' = TRUE
  /\ tracked' = IF op = "create" THEN hit ELSE tracked
  /\ EndCall
  /\ UNCHANGED <<kind, supported, remote, config, made, reported, budget>>

(***************************************************************************)
(* Read and Delete: baseResourceEnvelope.                                  *)
(***************************************************************************)

\* The read callback fills in what the model does not say yet.
ReadModel(o) ==
  [tfstate EXCEPT !.resourceID = o.resource, !.content = remote[o],
                  !.spaceID = IF kind.backend = "kibana" THEN o.space ELSE Null]

\* Defect: a resource that is gone is kept in the state.
ReadKeepsMissing ==
  /\ op = "idle" /\ tfstate # NoState /\ ~refreshed
  /\ supported /\ TargetOf(tfstate) \in Objects
  /\ tfstate' = IF remote[TargetOf(tfstate)] = Absent THEN tfstate ELSE ReadModel(TargetOf(tfstate))
  /\ refreshed' = TRUE
  /\ UNCHANGED <<kind, supported, remote, config, callVars, history, budget>>

Read ==
  /\ op = "idle" /\ tfstate # NoState /\ ~refreshed
  /\ supported /\ TargetOf(tfstate) \in Objects
  /\ IF remote[TargetOf(tfstate)] = Absent
     THEN tfstate' = NoState /\ tracked' = NoObject
     ELSE tfstate' = ReadModel(TargetOf(tfstate)) /\ UNCHANGED tracked
  /\ refreshed' = TRUE
  /\ UNCHANGED <<kind, supported, remote, config, callVars, made, reported, budget>>

\* The read fails, now or in its post-read hook: the state is kept.
ReadFails ==
  /\ op = "idle" /\ tfstate # NoState /\ ~refreshed
  /\ Fault
  /\ UNCHANGED <<kind, supported, remote, tfVars, callVars, history>>

\* Terraform core destroys what is no longer configured, or must be replaced.
MustDelete ==
  config # NoConfig =>
    \/ kind.backend = "kibana" /\ config.space # tfstate.spaceID
    \/ ~kind.generated /\ config.name # tfstate.resourceID

Delete ==
  /\ op = "idle" /\ tfstate # NoState /\ refreshed /\ MustDelete
  /\ supported
  /\ remote' = [remote EXCEPT ![TargetOf(tfstate)] = Absent]
  /\ made' = made \ {TargetOf(tfstate)}
  /\ tfstate' = NoState /\ tracked' = NoObject
  /\ UNCHANGED <<kind, supported, config, refreshed, callVars, reported, budget>>

\* Defect: the error of a failed delete is swallowed.
DeleteErrorSwallowed ==
  /\ op = "idle" /\ tfstate # NoState /\ refreshed /\ MustDelete
  /\ supported /\ Fault
  /\ tfstate' = NoState /\ tracked' = NoObject /\ refreshed' = FALSE
  /\ UNCHANGED <<kind, supported, remote, config, callVars, made, reported>>

\* The delete fails, without effect or with its response lost: the state is kept.
DeleteFails ==
  /\ op = "idle" /\ tfstate # NoState /\ refreshed /\ MustDelete
  /\ supported /\ Fault
  /\ \/ UNCHANGED <<remote, made>>
     \/ /\ remote' = [remote EXCEPT ![TargetOf(tfstate)] = Absent]
        /\ made' = made \ {TargetOf(tfstate)}
  /\ refreshed' = FALSE
  /\ UNCHANGED <<kind, supported, config, tfstate, callVars, tracked, reported>>

(***************************************************************************)
(* Everybody else.                                                         *)
(***************************************************************************)

\* The identifiers a practitioner may import an object by: the composite id, or
\* the plain identifier of an Elasticsearch object.
ImportIDs(o) ==
  {CompositeString([ClusterID |-> Prefix(o.space), ResourceID |-> o.resource])}
    \cup {n \in {o.resource} : kind.backend = "elasticsearch" /\ Len(n) = 1}

\* What the importer puts into the state.  CompositeIDImporter takes a composite
\* id only and fills the resource-id attribute from it too; the resources that
\* pass the id through (ImportStatePassthroughID) set the id alone, whichever
\* form it has.  Which of the two a resource uses is left open.
Importer(o) ==
  LET bare == [id |-> Null, spaceID |-> Null, resourceID |-> Null, content |-> Null]
      composite == CompositeString([ClusterID |-> Prefix(o.space), ResourceID |-> o.resource])
  IN  {[bare EXCEPT !.id = composite, !.resourceID = o.resource]}
        \cup {[bare EXCEPT !.id = i] : i \in ImportIDs(o)}

\* terraform import: what the importer sets, completed by a read that must find
\* the object.
Import ==
  /\ op = "idle" /\ tfstate = NoState /\ config # NoConfig /\ supported
  /\ edits < MaxEdits /\ edits' = edits + 1
  /\ \E o \in ObjectsOf(kind) : \E bare \in Importer(o) :
       LET target == TargetOf(bare)
       IN  /\ target \in Objects /\ remote[target] # Absent
           /\ tfstate' = [id |-> bare.id, resourceID |-> target.resource, content |-> remote[target],
                          spaceID |-> IF kind.backend = "kibana" THEN target.space ELSE Null]
           /\ tracked' = o
  /\ refreshed' = TRUE
  /\ UNCHANGED <<kind, supported, remote, config, callVars, made, reported, faults, drifts>>

\* Terraform found nothing to do; the practitioner runs it again.
NewRun ==
  /\ op = "idle" /\ tfstate # NoState /\ refreshed
  /\ ~MustDelete /\ config.content = tfstate.content
  /\ refreshed' = FALSE
  /\ UNCHANGED <<kind, supported, remote, config, tfstate, callVars, history, budget>>

\* Terraform or the provider process is killed during a call.
Killed ==
  /\ op # "idle" /\ Fault
  /\ ReportObjects({hit} \ {NoObject}) /\ EndWithError
  /\ UNCHANGED <<kind, supported, remote, tracked, made>>

\* The practitioner edits the configuration between runs.
EditConfig ==
  /\ op = "idle" /\ edits < MaxEdits /\ edits' = edits + 1
  /\ config' \in ConfigsOf(kind) \cup {NoConfig}
  /\ config' # config /\ refreshed' = FALSE
  /\ UNCHANGED <<kind, supported, remote, tfstate, callVars, history, faults, drifts>>

\* Another client creates, changes or deletes an object.
Drift ==
  /\ drifts < MaxDrifts /\ drifts' = drifts + 1
  /\ \E o \in Objects : \E c \in (Contents \cup {Absent}) \ {remote[o]} :
       /\ o.space \in SpacesOf(kind)
       /\ remote[o] = Absent => o.resource \in Names
       /\ remote' = [remote EXCEPT ![o] = c]
       /\ made' = IF c = Absent THEN made \ {o} ELSE made
  /\ UNCHANGED <<kind, supported, tfVars, callVars, tracked, reported, faults, edits>>

Provider ==
  \/ BeginCreate \/ BeginUpdate \/ Prepare \/ PrepareRejects \/ InvokeWrite \/ InvokeWriteRefused
  \/ ReadBack \/ ReadBackNotFound \/ Persist \/ Read \/ Delete \/ NewRun

Failures == PrepareFails \/ InvokeWriteFails \/ ReadBackFails \/ ReadFails \/ DeleteFails \/ Killed

Next == Provider \/ Failures \/ Import \/ EditConfig \/ Drift

\* The practitioner runs Terraform again and again and each call makes progress;
\* nothing is assumed of failures, other clients or edits.
Spec == Init /\ [][Next]_vars /\ WF_vars(Provider)

(***************************************************************************)
(* Properties.                                                             *)
(***************************************************************************)

Strings == {EmptyStr, Cluster} \cup Spaces \cup Resources
             \cup {c \o n : c \in Spaces \cup {Cluster}, n \in Resources}
Model == [id : Strings \cup {Unknown}, spaceID : Strings \cup {Null}, content : Contents,
          resourceID : Resources \cup {Unknown}]

ASSUME ModelAssumption == NoState \notin Model /\ NoModel \notin Model

\* Types: what the state file holds is wholly known, and calls stay in bounds.
TypeOK ==
  /\ kind \in Kinds /\ supported \in BOOLEAN /\ refreshed \in BOOLEAN
  /\ remote \in [Objects -> {Absent} \cup Contents]
  /\ config \in ConfigsOf(kind) \cup {NoConfig}
  /\ tfstate \in {m \in Model : m.id # Unknown /\ m.resourceID # Unknown} \cup {NoState}
  /\ op \in {"idle", "create", "update"}
  /\ step \in {"none", "prepare", "write", "readback", "postread"}
  /\ plan \in Model \cup {NoModel} /\ written \in Model \cup {NoModel}
  /\ key \in [space : Spaces \cup {EmptyStr}, resource : Resources \cup {EmptyStr}] \cup {NoObject}
  /\ hit \in Objects \cup {NoObject} /\ tracked \in Objects \cup {NoObject}
  /\ made \subseteq Objects /\ reported \subseteq Objects
  /\ faults \in 0 .. MaxFaults /\ drifts \in 0 .. MaxDrifts /\ edits \in 0 .. MaxEdits

\* The model in the state always resolves to the object that was created or
\* imported, whatever mixture of composite id and attributes it carries.
StateAddressesTracked == tfstate # NoState => TargetOf(tfstate) = tracked

\* Read-after-write reads the very object that was written, although the write
\* and the read resolve their identities by different rules.
ReadBackReadsWritten == step = "readback" => ReadBackTarget = hit

\* The identity invariant: types, and both rules above.
IdentityInv == TypeOK /\ StateAddressesTracked /\ ReadBackReadsWritten

\* The provider changes no object but the tracked one, except when it creates.
OnlyTrackedChanged ==
  [][\A o \in Objects : remote'[o] # remote[o] =>
        drifts' # drifts \/ op = "create" \/ o = tracked]_vars

\* A resource leaves the state only when its object is gone from the server.
StateDroppedOnlyIfGone ==
  [][(tfstate # NoState /\ tfstate' = NoState) => remote'[tracked] = Absent]_vars

\* No silent orphan: between calls every object the configuration brought into
\* existence is in the state or was part of a create that reported an error.
NoSilentOrphan == op = "idle" => \A o \in made : o = tracked \/ o \in reported

\* State, server and configuration agree.
Settled ==
  IF config = NoConfig THEN tfstate = NoState
  ELSE /\ tfstate # NoState
       /\ tfstate.content = config.content
       /\ remote[TargetOf(tfstate)] = config.content

\* Re-running Terraform converges once failures, edits and other clients stop,
\* unless the resource insists on creating a name that is already taken.
Converges == (supported /\ (kind.upsert \/ kind.generated)) => <>[]Settled
=============================================================================
