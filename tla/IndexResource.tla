--------------------------- MODULE IndexResource ---------------------------
(***************************************************************************)
(* The Elasticsearch index resource with a static name: create or, with    *)
(* use_existing, adoption of an index that is already there; the update's  *)
(* requests for aliases, dynamic settings and mappings; the mappings plan  *)
(* modifier and semantic equality; import with its hydration; deletion     *)
(* protection.  Calls are cut short anywhere, and other clients change the *)
(* index, drop it, or have it created again by indexing into it.           *)
(*                                                                         *)
(* A mapping is a function from fields to types.  One dynamic and one      *)
(* static setting, and the analysis, stand for all of theirs.              *)
(*                                                                         *)
(* External: Elasticsearch, Terraform core, and the plugin framework,      *)
(* which keeps the prior or planned value of an attribute when the one it  *)
(* is given is semantically equal.                                         *)
(***************************************************************************)
EXTENDS Sequences, Integers

CONSTANTS
  Aliases, Fields, FieldTypes,
  Values,         \* of a setting
  DefaultStatic,  \* the static setting Elasticsearch chooses itself
  Null,           \* an unset attribute or setting; unknown in the plan of a create
  Template,       \* the mappings an index template adds
  Configs,        \* the configurations of the practitioner
  NoIndex, NoState, NoConfig,
  MaxFaults,      \* bound: how many requests fail
  MaxActs,        \* bound: how often another client acts
  MaxEdits        \* bound: how often the practitioner edits the configuration

Mappings == UNION {[S -> FieldTypes] : S \in SUBSET Fields}
Setting == Values \cup {Null}

Model == [alias : (SUBSET Aliases) \cup {Null}, dyn : Setting, static : Setting, analysis : Setting,
          mappings : Mappings \cup {Null}, protect : BOOLEAN, use : BOOLEAN \cup {Null}]
Index == [alias : SUBSET Aliases, dyn : Setting, static : Values, analysis : Setting, mappings : Mappings]

ASSUME IndexAssumption ==
  /\ DefaultStatic \in Values /\ Values # {DefaultStatic} /\ Template \in Mappings
  /\ Null \notin Values /\ (\A A \in SUBSET Aliases : Null # A) /\ Null \notin Mappings
  /\ NoIndex \notin Index /\ NoState \notin Model /\ NoConfig \notin Configs
  /\ Configs \subseteq [alias : (SUBSET Aliases) \cup {Null}, dyn : Setting, static : Setting,
                        analysis : Setting, mappings : Mappings \cup {Null},
                        protect : BOOLEAN, use : BOOLEAN]
  /\ MaxFaults \in Nat /\ MaxActs \in Nat /\ MaxEdits \in Nat

VARIABLES
  index,      \* the index of that name, if any
  config,     \* the configuration
  tfstate,    \* the resource in Terraform's state file
  hydrate,    \* its private state holds the import hydration flag
  refreshed,  \* this Terraform run has refreshed the state
  op,         \* the provider call in progress
  ops,        \* the requests it still has to make
  plan, base, \* the planned model, and the one it is compared with
  todo,       \* the aliases that are still to be put
  disturbed,  \* history: another client acted since the last refresh or create began
  swapped,    \* history: another client dropped the index that the state is of
  dynHidden,  \* history: the state may hide the dynamic setting's value
  budget

tfVars == <<config, tfstate, hydrate, refreshed>>
callVars == <<op, ops, plan, base, todo, disturbed>>
history == <<swapped, dynHidden>>
vars == <<index, tfVars, callVars, history, budget>>

Init ==
  /\ index \in {NoIndex,
                [alias |-> {}, dyn |-> CHOOSE v \in Values : v # DefaultStatic, static |-> DefaultStatic,
                 analysis |-> Null, mappings |-> Template]}
  /\ config \in Configs
  /\ tfstate = NoState /\ hydrate = FALSE /\ refreshed = FALSE
  /\ op = "idle" /\ ops = <<>> /\ plan = NoState /\ base = NoState /\ todo = {} /\ disturbed = FALSE
  /\ swapped = FALSE /\ dynHidden = FALSE
  /\ budget = [faults |-> 0, acts |-> 0, edits |-> 0]

Spend(what, max) == budget[what] < max /\ budget' = [budget EXCEPT ![what] = @ + 1]

EndCall ==
  /\ op' = "idle" /\ ops' = <<>> /\ plan' = NoState /\ base' = NoState /\ todo' = {}
  /\ UNCHANGED disturbed

Fail == EndCall /\ refreshed' = FALSE /\ UNCHANGED <<config, tfstate, hydrate>>

(***************************************************************************)
(* Mappings.                                                               *)
(***************************************************************************)

\* mappingsSemanticallyEqual: everything in m is also in n, which may have more.
Covers(n, m) == \A f \in DOMAIN m : f \in DOMAIN n /\ n[f] = m[f]

\* StringSemanticEquals, in both directions.
SemanticEquals(m, n) == Covers(m, n) \/ Covers(n, m)

Conflict(m, n) == \E f \in DOMAIN m \cap DOMAIN n : m[f] # n[f]

\* Defect: the semantic equality of the plan decides on the request.
RequiresUpdateBothWays(planned, prior) == planned # Null /\ ~SemanticEquals(planned, prior)

RequiresMappingsUpdate(planned, prior) == planned # Null /\ ~Covers(prior, planned)

\* The fields of m, and the further ones of n: what a merge of mappings keeps.
Overlay(m, n) == [f \in DOMAIN m \cup DOMAIN n |-> IF f \in DOMAIN m THEN m[f] ELSE n[f]]

\* mergeMappingsForPlan: fields that are only in the state are kept.
MergeForPlan(prior, cfg) == IF DOMAIN cfg = {} THEN cfg ELSE Overlay(cfg, prior)

\* compareMappingsForPlan: all properties gone, or a type changed.
MappingsReplace(prior, cfg) ==
  DOMAIN prior # {} /\ (DOMAIN cfg = {} \/ Conflict(prior, cfg))

(***************************************************************************)
(* Plans.                                                                  *)
(***************************************************************************)

Planned ==
  [config EXCEPT
     !.alias = IF @ = Null THEN tfstate.alias ELSE @,
     !.mappings = IF @ = Null THEN tfstate.mappings ELSE MergeForPlan(tfstate.mappings, @)]

RequiresReplace ==
  config # NoConfig
    /\ \/ config.static # tfstate.static
       \/ config.mappings # Null /\ MappingsReplace(tfstate.mappings, config.mappings)

When(condition, request) == IF condition THEN <<request>> ELSE <<>>

\* Defect: aliases that are no longer planned are left.
WriteOpsKeepAliases(p, b) ==
  When(p.alias \notin {Null, b.alias, {}}, "alias")
    \o When(p.dyn # b.dyn, "settings")
    \o When(RequiresMappingsUpdate(p.mappings, b.mappings), "mappings")
    \o <<"read">>

\* updateAliases, updateSettings and updateMappings make the requests that the
\* difference between the plan and the base calls for.
WriteOps(p, b) ==
  When(p.alias \notin {Null, b.alias} /\ b.alias \ p.alias # {}, "unalias")
    \o When(p.alias \notin {Null, b.alias, {}}, "alias")
    \o When(p.dyn # b.dyn, "settings")
    \o When(RequiresMappingsUpdate(p.mappings, b.mappings), "mappings")
    \o <<"read">>

Begin(o, p, b, requests) ==
  /\ op = "idle"
  /\ op' = o /\ plan' = p /\ base' = b /\ ops' = requests
  /\ todo' = IF o = "update" THEN p.alias ELSE {}
  /\ disturbed' = (disturbed /\ o \notin {"read", "create"})
  /\ swapped' = (swapped /\ o # "create")
  /\ UNCHANGED <<index, config, tfstate, refreshed, dynHidden, budget>>

BeginRead ==
  /\ tfstate # NoState /\ ~refreshed
  /\ Begin("read", tfstate, NoState, <<"read">>) /\ UNCHANGED hydrate

BeginCreate ==
  /\ tfstate = NoState /\ config # NoConfig
  /\ Begin("create", config, NoState, IF config.use THEN <<"look">> ELSE <<"put", "read">>)
  /\ UNCHANGED hydrate

\* ModifyPlan clears the hydration flag.
BeginUpdate ==
  /\ tfstate # NoState /\ refreshed /\ config # NoConfig /\ ~RequiresReplace /\ Planned # tfstate
  /\ Begin("update", Planned, tfstate, WriteOps(Planned, tfstate)) /\ hydrate' = FALSE

BeginDelete ==
  /\ tfstate # NoState /\ refreshed /\ (config = NoConfig \/ RequiresReplace)
  /\ Begin("delete", NoState, NoState, IF tfstate.protect THEN <<"refuse">> ELSE <<"delete">>)
  /\ UNCHANGED hydrate

\* Import and the read that follows it: every setting is hydrated, the
\* operational attributes get their defaults.
Import ==
  /\ op = "idle" /\ tfstate = NoState /\ config # NoConfig /\ index # NoIndex
  /\ tfstate' = [alias |-> index.alias, dyn |-> index.dyn, static |-> index.static,
                 analysis |-> index.analysis, mappings |-> index.mappings,
                 protect |-> TRUE, use |-> Null]
  /\ hydrate' = TRUE /\ swapped' = FALSE /\ dynHidden' = FALSE
  /\ UNCHANGED <<index, config, refreshed, callVars, budget>>

(***************************************************************************)
(* Requests.                                                               *)
(***************************************************************************)

Doing(o) == op # "idle" /\ ops # <<>> /\ Head(ops) = o
Continue == ops' = Tail(ops) /\ UNCHANGED <<tfVars, op, plan, base, disturbed, budget>>

\* Defect: static settings are not compared.
AdoptsAnything == TRUE

\* compareStaticSettings.
Adoptable == plan.static \in {Null, index.static}

\* The existing index is read without hydration, so that no setting is in the
\* base of its adoption.
Look ==
  /\ Doing("look")
  /\ IF index = NoIndex
     THEN ops' = <<"put", "read">> /\ UNCHANGED <<base, todo>>
     ELSE /\ Adoptable
          /\ base' = [alias |-> index.alias, dyn |-> Null, mappings |-> index.mappings]
          /\ ops' = WriteOps(plan, base')
          /\ todo' = IF plan.alias = Null THEN {} ELSE plan.alias
  /\ UNCHANGED <<index, tfVars, op, plan, disturbed, history, budget>>

AdoptionRefused ==
  /\ Doing("look") /\ index # NoIndex /\ ~Adoptable
  /\ Fail /\ UNCHANGED <<index, history, budget>>

Requests == {"put", "unalias", "alias", "settings", "mappings", "delete"}

Accepted(o) ==
  CASE o = "put" -> index = NoIndex
    [] o \in {"unalias", "delete"} -> TRUE
    [] o = "mappings" -> index # NoIndex /\ ~Conflict(plan.mappings, index.mappings)
    [] OTHER -> index # NoIndex

NewIndex ==
  [alias |-> IF plan.alias = Null THEN {} ELSE plan.alias, dyn |-> plan.dyn,
   static |-> IF plan.static = Null THEN DefaultStatic ELSE plan.static, analysis |-> plan.analysis,
   mappings |-> IF plan.mappings = Null THEN Template ELSE Overlay(plan.mappings, Template)]

\* Defect: a setting that is no longer planned is left out of the request.
DynAfterOmitted == IF plan.dyn = Null THEN index.dyn ELSE plan.dyn

\* A setting that is no longer planned is sent as null.
DynAfter == plan.dyn

Effect(o, a) ==
  index' = IF o # "put" /\ index = NoIndex THEN NoIndex ELSE
           CASE o = "put" -> NewIndex
             [] o = "delete" -> NoIndex
             [] o = "unalias" -> [index EXCEPT !.alias = @ \ (base.alias \ plan.alias)]
             [] o = "alias" -> [index EXCEPT !.alias = @ \cup {a}]
             [] o = "settings" -> [index EXCEPT !.dyn = DynAfter]
             [] o = "mappings" -> [index EXCEPT !.mappings = Overlay(plan.mappings, @)]

\* The aliases are put one by one, in any order.
PutAlias ==
  /\ Doing("alias") /\ Accepted("alias")
  /\ \E a \in todo : Effect("alias", a) /\ todo' = todo \ {a}
  /\ ops' = IF todo' = {} THEN Tail(ops) ELSE ops
  /\ UNCHANGED <<tfVars, op, plan, base, disturbed, history, budget>>

Execute ==
  /\ \E o \in Requests \ {"alias", "delete"} :
       /\ Doing(o) /\ Accepted(o) /\ Effect(o, Null)
       /\ dynHidden' = IF o \in {"settings", "put"} THEN FALSE ELSE dynHidden
  /\ Continue /\ UNCHANGED <<todo, swapped>>

\* A failure leaves the prior state, whatever has become of the settings request of
\* an update.
DynAtStake == op = "update" /\ plan.dyn # base.dyn

Refused ==
  /\ \E o \in Requests : Doing(o) /\ ~Accepted(o)
  /\ dynHidden' = (dynHidden \/ DynAtStake)
  /\ Fail /\ UNCHANGED <<index, swapped, budget>>

\* A request fails, without effect or with its answer lost.
CallFails ==
  /\ \E o \in Requests \cup {"look", "read"} :
       /\ Doing(o)
       /\ \/ UNCHANGED index
          \/ o \in Requests /\ Accepted(o) /\ \E a \in todo \cup {Null} : (o = "alias" => a # Null) /\ Effect(o, a)
  /\ Spend("faults", MaxFaults) /\ Fail
  /\ dynHidden' = (dynHidden \/ DynAtStake)
  /\ UNCHANGED swapped

(***************************************************************************)
(* Read and delete.                                                        *)
(***************************************************************************)

\* Defect: an unknown value counts as equal to any other.
KeepUnknown(m) == m.mappings = Null \/ SemanticEquals(m.mappings, index.mappings)

\* The framework keeps the value that populateFromAPI's is semantically equal to.
KeepMappings(m) == m.mappings # Null /\ SemanticEquals(m.mappings, index.mappings)

\* hydrateAllSettingsFromRaw: a setting that the index does not have is skipped, so
\* that the model keeps the value it had.
Hydrated(m) ==
  [m EXCEPT !.dyn = IF index.dyn = Null THEN @ ELSE index.dyn,
            !.static = index.static,
            !.analysis = IF index.analysis = Null THEN @ ELSE index.analysis]

\* populateFromAPI: settings only for a resource that has just been imported.
PopulateFromAPI(m) ==
  LET settings == IF op = "read" /\ hydrate THEN Hydrated(m) ELSE m
  IN [settings EXCEPT !.alias = index.alias, !.mappings = IF KeepMappings(m) THEN @ ELSE index.mappings]

Read ==
  /\ Doing("read") /\ index # NoIndex
  /\ tfstate' = PopulateFromAPI(plan)
  /\ refreshed' = (op = "read")
  /\ UNCHANGED swapped
  /\ dynHidden' = /\ dynHidden \/ (op = "create" /\ index.dyn # plan.dyn)
                  /\ ~(op = "read" /\ hydrate /\ index.dyn # Null)
  /\ EndCall /\ UNCHANGED <<index, config, hydrate, budget>>

\* A refresh drops the resource, the read-back of a write fails.
ReadNotFound ==
  /\ Doing("read") /\ index = NoIndex
  /\ IF op = "read"
     THEN tfstate' = NoState /\ hydrate' = FALSE /\ refreshed' = FALSE /\ EndCall /\ UNCHANGED config
     ELSE Fail
  /\ UNCHANGED <<index, history, budget>>

Delete ==
  /\ Doing("delete") /\ Effect("delete", Null)
  /\ tfstate' = NoState /\ hydrate' = FALSE /\ refreshed' = FALSE /\ EndCall
  /\ UNCHANGED <<config, history, budget>>

\* Defect: the protection of the configuration decides, so that the destroy of a
\* replacement or of a removed block is not protected.
Unprotected ==
  /\ Doing("refuse") /\ index' = NoIndex
  /\ tfstate' = NoState /\ hydrate' = FALSE /\ refreshed' = FALSE /\ EndCall
  /\ UNCHANGED <<config, history, budget>>

DeletionProtected ==
  /\ Doing("refuse")
  /\ Fail /\ UNCHANGED <<index, history, budget>>

(***************************************************************************)
(* Other clients, and the practitioner.                                    *)
(***************************************************************************)

\* Dropped, and created again by indexing a document; aliased; set; mapped.  An
\* alias that changes while a create runs would taint the resource: left out.
OtherClient ==
  /\ Spend("acts", MaxActs)
  /\ \/ /\ index' = IF index = NoIndex
                    THEN [alias |-> {}, dyn |-> Null, static |-> DefaultStatic, analysis |-> Null,
                          mappings |-> Template]
                    ELSE NoIndex
        /\ swapped' = TRUE /\ dynHidden' = TRUE
     \/ /\ index # NoIndex /\ op # "create"
        /\ \E a \in Aliases : index' = [index EXCEPT !.alias = IF a \in @ THEN @ \ {a} ELSE @ \cup {a}]
        /\ UNCHANGED history
     \/ /\ index # NoIndex
        /\ \E v \in Setting \ {index.dyn} : index' = [index EXCEPT !.dyn = v]
        /\ dynHidden' = TRUE /\ UNCHANGED swapped
     \/ /\ index # NoIndex
        /\ \E f \in Fields \ DOMAIN index.mappings, t \in FieldTypes :
             index' = [index EXCEPT !.mappings = Overlay(@, [x \in {f} |-> t])]
        /\ UNCHANGED history
  /\ disturbed' = TRUE
  /\ UNCHANGED <<tfVars, op, ops, plan, base, todo>>

EditConfig ==
  /\ op = "idle" /\ Spend("edits", MaxEdits)
  /\ config' \in (Configs \cup {NoConfig}) \ {config}
  /\ refreshed' = FALSE
  /\ UNCHANGED <<index, tfstate, hydrate, callVars, history>>

\* Terraform found nothing to do and is run again.
NewRun ==
  /\ op = "idle" /\ tfstate # NoState /\ refreshed /\ config # NoConfig
  /\ ~RequiresReplace /\ Planned = tfstate
  /\ refreshed' = FALSE
  /\ UNCHANGED <<index, config, tfstate, hydrate, callVars, history, budget>>

Provider ==
  \/ BeginRead \/ BeginCreate \/ BeginUpdate \/ BeginDelete \/ NewRun
  \/ Look \/ AdoptionRefused \/ PutAlias \/ Execute \/ Refused
  \/ Read \/ ReadNotFound \/ Delete \/ DeletionProtected

Next == Provider \/ Import \/ CallFails \/ OtherClient \/ EditConfig

\* Calls make progress and Terraform is run again and again.
Spec == Init /\ [][Next]_vars /\ WF_vars(Provider)

(***************************************************************************)
(* Properties.                                                             *)
(***************************************************************************)

\* Types of the index, the state file and the call.
TypeOK ==
  /\ index \in Index \cup {NoIndex}
  /\ config \in Configs \cup {NoConfig}
  /\ tfstate \in Model \cup {NoState}
  /\ tfstate # NoState => tfstate.alias # Null /\ tfstate.mappings # Null
  /\ hydrate \in BOOLEAN /\ refreshed \in BOOLEAN
  /\ op \in {"idle", "read", "create", "update", "delete"}
  /\ ops \in Seq(Requests \cup {"look", "read", "refuse"})
  /\ todo \subseteq Aliases /\ disturbed \in BOOLEAN
  /\ swapped \in BOOLEAN /\ dynHidden \in BOOLEAN
  /\ budget \in [faults : 0 .. MaxFaults, acts : 0 .. MaxActs, edits : 0 .. MaxEdits]

Deleted == index # NoIndex /\ index' = NoIndex

\* Terraform deletes an index only if it is in the state, with a protection that
\* an apply had turned off before: neither a replacement nor a removed block, nor
\* the failure of the apply that turns it off, gets around it.
ProtectedSurvives ==
  [][(Deleted /\ budget'.acts = budget.acts) => tfstate # NoState /\ ~tfstate.protect]_vars

\* The static setting in the state is the one of the index, be it created,
\* adopted or imported, unless another client put a new index in its place.
StaticIsReal ==
  (tfstate # NoState /\ index # NoIndex /\ ~swapped) => tfstate.static \in {Null, index.static}

Saved == op \in {"create", "update"} /\ tfstate' # tfstate

\* A create, an adoption or an update that ends well leaves what is configured in
\* the index: its aliases and no others, and every field with its type, whatever part
\* was there before, unless another client interfered.  The dynamic setting too, but
\* only while the state does not hide it (dynHidden): updateSettings compares the plan
\* with the prior state, so that after another client changed the setting, or an
\* update of it failed with its request made, an update back to the prior value ends
\* well without a request and leaves the other value in the index.
WriteApplies ==
  [][(Saved /\ ~disturbed /\ (op = "update" => ~swapped)) =>
       /\ config.alias \in {Null, index.alias}
       /\ config.mappings # Null => Covers(index.mappings, config.mappings)
       /\ ~dynHidden => config.dyn \in {Null, index.dyn}]_vars

\* The dynamic setting of the index differs from the state only if another client
\* changed it, an update of it failed, or the index was adopted with it: a call that
\* ends well, the removal of the attribute, or a failure of any other call hides
\* nothing.  No refresh closes such a gap but a hydrated one that finds the setting
\* in the index; one that another client has unset stays in the state.
DynGapsAreKnown ==
  (op = "idle" /\ tfstate # NoState /\ index # NoIndex /\ ~dynHidden) => tfstate.dyn = index.dyn

\* Types, and what the state says of settings that a refresh does not read.
IndexInv == TypeOK /\ StaticIsReal /\ DynGapsAreKnown

\* What Terraform reports as an error again and again: an index that is not
\* adopted, a protected one that has to be replaced or destroyed, or a field
\* whose type another client chose.
Blocked ==
  \/ /\ tfstate = NoState /\ config # NoConfig /\ index # NoIndex
     /\ ~config.use \/ config.static \notin {Null, index.static}
        \/ (config.mappings # Null /\ Conflict(config.mappings, index.mappings))
  \/ tfstate # NoState /\ tfstate.protect /\ (config = NoConfig \/ RequiresReplace)
  \/ /\ tfstate # NoState /\ config # NoConfig /\ config.mappings # Null /\ index # NoIndex
     /\ Conflict(config.mappings, index.mappings)

\* Aliases, mappings and protection are as configured; another client's new index
\* may lack fields, which the semantic equality hides.  The dynamic setting is not
\* among them: a gap that the state hides stays (DynGapsAreKnown says which).
Reconciled ==
  IF config = NoConfig THEN tfstate = NoState
  ELSE /\ tfstate # NoState /\ index # NoIndex
       /\ tfstate.alias = index.alias /\ config.alias \in {Null, index.alias}
       /\ (config.mappings # Null /\ ~swapped) => Covers(index.mappings, config.mappings)
       /\ tfstate.protect = config.protect

\* Re-running Terraform repairs the aliases, the mappings and the protection that a
\* failed call or another client left, or reports one of the errors that only the
\* practitioner can resolve.
Converges == <>[](Blocked \/ Reconciled)

\* What the specification says of a refresh: the prior mappings are preserved
\* when the index has them and more, and otherwise those of the index are saved.
ReadShowsLostFields ==
  [][(op = "read" /\ tfstate' \notin {tfstate, NoState}) \/ (op = "read" /\ refreshed' /\ ~refreshed)
       => Covers(index.mappings, tfstate'.mappings)]_vars

\* What the specification says of a read: "all individual setting attributes" are
\* populated from the API response.
ReadShowsSettings ==
  [][(op = "read" /\ refreshed' /\ ~refreshed) => tfstate'.dyn = index.dyn]_vars

\* What the specification says of an import: settings that the practitioner has
\* not configured do not appear as drift.
ImportIsNoDrift ==
  (tfstate # NoState /\ hydrate /\ config # NoConfig /\ config.static = Null
     /\ config.mappings = Null) => ~RequiresReplace

\* What the schema says of the analysis: an error is raised when an update tries
\* to change it.
AnalysisChangeIsError ==
  [][(op = "update" /\ Saved) => tfstate'.analysis = tfstate.analysis]_vars
=============================================================================
