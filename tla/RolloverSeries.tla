--------------------------- MODULE RolloverSeries ---------------------------
(***************************************************************************)
(* The rollover index series resource (rolloverindexseries): alias         *)
(* discovery, one request for the members and one for the kind of each, in *)
(* no particular order, and the create, read, update and delete built on   *)
(* it, while Elasticsearch rolls the alias over and other clients attach,  *)
(* detach, delete and create targets between any two requests.             *)
(*                                                                         *)
(* External: the alias and index APIs and Terraform core.                  *)
(***************************************************************************)
EXTENDS FiniteSets, Integers

CONSTANTS
  Names,        \* names of indices and data streams
  Bootstrap,    \* <prefix>-000001
  Generations,  \* the names that end in -<digits>
  Successor,    \* the name that the rollover of a generation creates
  NoWriter, NoState, NoConfig,
  MaxFaults,    \* bound: how many requests fail or deadlines pass
  MaxActs,      \* bound: how often Elasticsearch or other clients act
  MaxEdits      \* bound: how often the practitioner edits the configuration

ASSUME SeriesAssumption ==
  /\ Bootstrap \in Generations /\ Generations \subseteq Names
  /\ Successor \in [Generations -> Names] /\ NoWriter \notin Names
  /\ MaxFaults \in Nat /\ MaxActs \in Nat /\ MaxEdits \in Nat

VARIABLES
  target,     \* what exists under each name
  attached,   \* is_write_index of each member of the alias
  config,     \* deletion_protection as configured
  tfstate,    \* the resource in Terraform's state file
  refreshed,  \* this Terraform run has refreshed the state
  op, pc,     \* the provider call, and where its current request is
  view,       \* the members that the alias request answered
  kind,       \* what each of them has been resolved to so far
  previous,   \* the members that had disappeared in the previous attempt
  victims,    \* the members that the current pass of a delete has yet to delete
  sighted,    \* history: the targets seen to be ordinary members in this pass
  budget

callVars == <<op, pc, view, kind, previous, victims, sighted>>
vars == <<target, attached, config, tfstate, refreshed, callVars, budget>>

Kinds == {"index", "stream"}
\* How a member is attached; "no" is not a member, "unset" has no write flag.
Flags == {"no", "unset", "true", "false"}

Members(a) == {n \in Names : a[n] # "no"}
NoView == [n \in Names |-> "no"]
Unresolved == [n \in Names |-> "unresolved"]

Init ==
  /\ target \in [Names -> {"none", "index"}]
  /\ attached \in [Names -> {"no", "true", "unset"}]
  /\ \A n \in Names : target[n] = "none" => attached[n] = "no"
  /\ Cardinality({n \in Names : attached[n] = "true"}) <= 1
  /\ config \in BOOLEAN
  /\ tfstate = NoState /\ refreshed = FALSE
  /\ op = "none" /\ pc = "idle"
  /\ view = NoView /\ kind = Unresolved /\ previous = {} /\ victims = {} /\ sighted = {}
  /\ budget = [faults |-> 0, acts |-> 0, edits |-> 0]

Spend(what, max) == budget[what] < max /\ budget' = [budget EXCEPT ![what] = @ + 1]

EndCall ==
  /\ op' = "none" /\ pc' = "idle"
  /\ view' = NoView /\ kind' = Unresolved /\ previous' = {} /\ victims' = {} /\ sighted' = {}
Fail == EndCall /\ refreshed' = FALSE /\ UNCHANGED tfstate

(***************************************************************************)
(* discoverUntilTargetsResolve and interpretAlias.                         *)
(***************************************************************************)

\* Another attempt at discovery begins with the alias request.
StartDiscovery == pc' = "fetch" /\ view' = NoView /\ kind' = Unresolved

FetchAlias ==
  /\ pc = "fetch" /\ Members(attached) # {}
  /\ view' = attached /\ kind' = Unresolved /\ sighted' = {} /\ pc' = "resolve"
  /\ UNCHANGED <<target, attached, config, tfstate, refreshed, op, previous, victims, budget>>

\* resolveTargetKind.
ResolveTarget(n) ==
  /\ pc = "resolve" /\ n \in Members(view) /\ kind[n] = "unresolved"
  /\ kind' = [kind EXCEPT ![n] = IF target[n] = "none" THEN "missing" ELSE target[n]]
  /\ sighted' = IF target[n] = "index" THEN sighted \cup {n} ELSE sighted
  /\ UNCHANGED <<target, attached, config, tfstate, refreshed, op, pc, view, previous, victims, budget>>

Resolved == pc = "resolve" /\ \A n \in Members(view) : kind[n] # "unresolved"
Disappeared == {n \in Members(view) : kind[n] = "missing"}
SawDataStream == \E n \in Members(view) : kind[n] = "stream"

\* Defect: a member that disappeared counts as the zero kind, an ordinary index.
SettledAnyhow == Resolved

\* The view stands if nothing disappeared; next to a data stream, what
\* disappeared is omitted (the call is going to be rejected).
Settled == Resolved /\ (Disappeared = {} \/ SawDataStream)
SeriesMembers == Members(view) \ (IF SawDataStream THEN Disappeared ELSE {})

Rediscover ==
  /\ Resolved /\ ~Settled /\ previous # Disappeared
  /\ previous' = Disappeared /\ StartDiscovery /\ sighted' = {}
  /\ UNCHANGED <<target, attached, config, tfstate, refreshed, op, victims, budget>>

\* "Unable to resolve alias target type": the same members disappeared twice.
Unresolvable ==
  /\ Resolved /\ ~Settled /\ previous = Disappeared
  /\ Fail
  /\ UNCHANGED <<target, attached, config, budget>>

EffectiveWriter ==
  LET explicit == {n \in SeriesMembers : view[n] = "true"} IN
  CASE Cardinality(explicit) = 1 -> CHOOSE n \in explicit : TRUE
    [] explicit = {} /\ \E n \in Names : SeriesMembers = {n} /\ view[n] = "unset"
         -> CHOOSE n \in Names : SeriesMembers = {n}
    [] OTHER -> NoWriter

(***************************************************************************)
(* The callbacks.  A call begins with discovery; an update makes no other  *)
(* request than the read that ends it.                                     *)
(***************************************************************************)

BeginCall(o) ==
  /\ op = "none"
  /\ op' = o /\ StartDiscovery
  /\ UNCHANGED <<target, attached, config, tfstate, refreshed, previous, victims, sighted, budget>>

BeginRead == tfstate # NoState /\ ~refreshed /\ BeginCall("read")
BeginCreate == tfstate = NoState /\ config # NoConfig /\ BeginCall("create")
BeginUpdate ==
  /\ tfstate # NoState /\ refreshed /\ config \notin {NoConfig, tfstate.protected}
  /\ BeginCall("update")

BeginDelete ==
  /\ tfstate # NoState /\ refreshed /\ config = NoConfig /\ ~tfstate.protected
  /\ BeginCall("delete")

\* terraform import and the read that completes it; the resource is protected.
BeginImport ==
  /\ op = "none" /\ tfstate = NoState /\ config # NoConfig /\ Spend("edits", MaxEdits)
  /\ op' = "import" /\ StartDiscovery
  /\ UNCHANGED <<target, attached, config, tfstate, refreshed, previous, victims, sighted>>

\* The alias does not exist: a read or a delete drops the resource from the state,
\* a create goes on to bootstrap, and a write that reads back fails.
AliasAbsent ==
  /\ pc = "fetch" /\ Members(attached) = {}
  /\ \/ /\ op \in {"read", "delete"}
        /\ EndCall /\ tfstate' = NoState /\ refreshed' = (op = "read")
     \/ /\ op \in {"import", "update", "readback"} /\ Fail
     \/ /\ op = "create" /\ pc' = "bootstrap"
        /\ UNCHANGED <<tfstate, refreshed, op, view, kind, previous, victims, sighted>>
  /\ UNCHANGED <<target, attached, config, budget>>

\* PUT <prefix>-000001 with the alias: refused if the name, or the place of the
\* writer, is taken.
BootstrapAccepted == target[Bootstrap] = "none" /\ \A n \in Names : attached[n] # "true"
BootstrapEffect ==
  /\ target' = [target EXCEPT ![Bootstrap] = "index"]
  /\ attached' = [attached EXCEPT ![Bootstrap] = "true"]

BootstrapIndex ==
  /\ pc = "bootstrap" /\ BootstrapAccepted
  /\ BootstrapEffect
  /\ op' = "readback" /\ StartDiscovery /\ previous' = {}
  /\ UNCHANGED <<config, tfstate, refreshed, victims, sighted, budget>>

BootstrapRefused ==
  /\ pc = "bootstrap" /\ ~BootstrapAccepted
  /\ Fail
  /\ UNCHANGED <<target, attached, config, budget>>

RejectDataStreamTargets ==
  /\ Settled /\ SawDataStream
  /\ Fail
  /\ UNCHANGED <<target, attached, config, budget>>

\* A create adopts an alias whose writer can be rolled over.
Adopt ==
  /\ Settled /\ ~SawDataStream /\ op = "create"
  /\ IF EffectiveWriter \in Generations
     THEN /\ op' = "readback" /\ StartDiscovery /\ previous' = {} /\ sighted' = {}
          /\ UNCHANGED <<tfstate, refreshed, victims>>
     ELSE Fail
  /\ UNCHANGED <<target, attached, config, budget>>

\* Defect: a read takes deletion_protection from the configuration.
SaveObservedFromConfig ==
  /\ Settled /\ ~SawDataStream /\ op \in {"read", "update", "readback"}
  /\ tfstate' = [protected |-> config, writer |-> EffectiveWriter, indices |-> SeriesMembers]
  /\ refreshed' = (op = "read")
  /\ EndCall
  /\ UNCHANGED <<target, attached, config, budget>>

\* withObservedSeries: a read, or the read-back of a write, saves what it saw.
SaveObserved ==
  /\ Settled /\ ~SawDataStream /\ op \in {"read", "import", "update", "readback"}
  /\ tfstate' = [protected |-> CASE op = "read"   -> tfstate.protected
                                 [] op = "import" -> TRUE
                                 [] OTHER         -> config,
                 writer |-> EffectiveWriter, indices |-> SeriesMembers]
  /\ refreshed' = (op \in {"read", "import"})
  /\ EndCall
  /\ UNCHANGED <<target, attached, config, budget>>

\* A pass of a delete: the members just discovered, one by one.
BeginPass ==
  /\ Settled /\ ~SawDataStream /\ op = "delete"
  /\ victims' = SeriesMembers /\ pc' = "remove"
  /\ UNCHANGED <<target, attached, config, tfstate, refreshed, op, view, kind, previous, sighted, budget>>

Without(n) ==
  /\ target' = [target EXCEPT ![n] = "none"]
  /\ attached' = [attached EXCEPT ![n] = "no"]

\* Defect: an index that is already gone is asked for again.
DeleteIndexAgain(n) ==
  /\ pc = "remove" /\ n \in victims /\ target[n] # "none"
  /\ IF target[n] = "stream" THEN Fail /\ UNCHANGED <<target, attached>>
     ELSE /\ Without(n) /\ victims' = victims \ {n}
          /\ UNCHANGED <<tfstate, refreshed, op, pc, view, kind, previous, sighted>>
  /\ UNCHANGED <<config, budget>>

\* DELETE <name>: not found counts as done, and a data stream is refused.
DeleteIndex(n) ==
  /\ pc = "remove" /\ n \in victims
  /\ IF target[n] = "stream" THEN Fail /\ UNCHANGED <<target, attached>>
     ELSE /\ Without(n) /\ victims' = victims \ {n}
          /\ UNCHANGED <<tfstate, refreshed, op, pc, view, kind, previous, sighted>>
  /\ UNCHANGED <<config, budget>>

\* Defect: one pass is enough.
EndAfterOnePass ==
  /\ pc = "remove" /\ victims = {}
  /\ EndCall /\ tfstate' = NoState /\ refreshed' = FALSE
  /\ UNCHANGED <<target, attached, config, budget>>

\* After a pass the members are discovered again.
NextPass ==
  /\ pc = "remove" /\ victims = {}
  /\ StartDiscovery /\ previous' = {} /\ sighted' = {}
  /\ UNCHANGED <<target, attached, config, tfstate, refreshed, op, victims, budget>>

\* A request fails, without effect or with its response lost, or the deadline of
\* the call passes; deleteTimeoutDiagnostics keeps the resource in the state.
CallFails ==
  /\ pc # "idle" /\ Spend("faults", MaxFaults)
  /\ Fail
  /\ \/ UNCHANGED <<target, attached>>
     \/ pc = "bootstrap" /\ BootstrapAccepted /\ BootstrapEffect
     \/ pc = "remove" /\ \E n \in victims : target[n] # "stream" /\ Without(n)
  /\ UNCHANGED config

(***************************************************************************)
(* Elasticsearch, other clients and the practitioner.                      *)
(***************************************************************************)

Act == Spend("acts", MaxActs) /\ UNCHANGED <<config, tfstate, refreshed, callVars>>

\* The writer is rolled over: a new generation takes over the write flag.
Rollover ==
  /\ Act
  /\ \E n \in Generations :
       /\ attached[n] = "true" /\ target[n] = "index" /\ target[Successor[n]] = "none"
       /\ target' = [target EXCEPT ![Successor[n]] = "index"]
       /\ attached' = [attached EXCEPT ![n] = "false", ![Successor[n]] = "true"]

\* Another client attaches, detaches or deletes a target, or creates one, with or
\* without the alias.
OtherClient ==
  /\ Act
  /\ \E n \in Names :
       \/ /\ target[n] # "none" /\ UNCHANGED target
          /\ attached' = [attached EXCEPT ![n] = IF @ = "no" THEN "false" ELSE "no"]
       \/ /\ target[n] # "none" /\ Without(n)
       \/ /\ target[n] = "none" /\ \E k \in Kinds : target' = [target EXCEPT ![n] = k]
          /\ attached' \in {attached, [attached EXCEPT ![n] = "false"]}

EditConfig ==
  /\ op = "none" /\ Spend("edits", MaxEdits)
  /\ config' \in (BOOLEAN \cup {NoConfig}) \ {config}
  /\ refreshed' = FALSE
  /\ UNCHANGED <<target, attached, tfstate, callVars>>

\* Terraform found nothing to do, or the delete was refused; it is run again.
NewRun ==
  /\ op = "none" /\ tfstate # NoState /\ refreshed
  /\ config = tfstate.protected \/ (config = NoConfig /\ tfstate.protected)
  /\ refreshed' = FALSE
  /\ UNCHANGED <<target, attached, config, tfstate, callVars, budget>>

Provider ==
  \/ BeginRead \/ BeginCreate \/ BeginUpdate \/ BeginDelete \/ NewRun
  \/ FetchAlias \/ Rediscover \/ Unresolvable \/ AliasAbsent
  \/ BootstrapIndex \/ BootstrapRefused \/ RejectDataStreamTargets
  \/ Adopt \/ SaveObserved \/ BeginPass \/ NextPass
  \/ \E n \in Names : ResolveTarget(n) \/ DeleteIndex(n)

Next == Provider \/ BeginImport \/ CallFails \/ Rollover \/ OtherClient \/ EditConfig

\* Calls make progress and Terraform is run again and again.
Spec == Init /\ [][Next]_vars /\ WF_vars(Provider)

(***************************************************************************)
(* Properties.                                                             *)
(***************************************************************************)

States == [protected : BOOLEAN, writer : Names \cup {NoWriter}, indices : SUBSET Names]

ASSUME StatesAssumption == NoState \notin States

\* Types: what is saved is what the schema of the resource can hold.
TypeOK ==
  /\ target \in [Names -> Kinds \cup {"none"}] /\ attached \in [Names -> Flags]
  /\ config \in BOOLEAN \cup {NoConfig}
  /\ tfstate \in States \cup {NoState} /\ refreshed \in BOOLEAN
  /\ op \in {"none", "read", "import", "create", "update", "readback", "delete"}
  /\ pc \in {"idle", "fetch", "resolve", "bootstrap", "remove"}
  /\ view \in [Names -> Flags]
  /\ kind \in [Names -> Kinds \cup {"missing", "unresolved"}]
  /\ previous \subseteq Names /\ victims \subseteq Names /\ sighted \subseteq Names
  /\ budget \in [faults : 0 .. MaxFaults, acts : 0 .. MaxActs, edits : 0 .. MaxEdits]

\* The resource leaves the state only while its alias has no members: a delete
\* also gets the generations that were rolled over behind its back, and a member
\* that disappears under a read is not taken for the absence of the alias.
ForgottenOnlyIfAbsent ==
  [][(tfstate # NoState /\ tfstate' = NoState) => Members(attached) = {}]_vars

\* A delete request is sent only for a name that was a member and was seen to be
\* an ordinary index in the same pass, never for what could not be resolved.
VictimsWereSeen == victims \subseteq sighted

\* Types, and delete requests only for what was seen.
SeriesInv == TypeOK /\ VictimsWereSeen

\* An unprotected destroy ends, with the alias gone, once the rollovers end, unless
\* another client has attached a data stream that blocks it.
DestroyCompletes ==
  <>[](config = NoConfig =>
         \/ tfstate = NoState \/ tfstate.protected
         \/ \E n \in Names : target[n] = "stream" /\ attached[n] # "no")

\* What the specification of the resource says of delete: not by "stale
\* inventory", and "Detached indices SHALL remain untouched".
DetachedUntouched ==
  [][\A n \in Names : (pc = "remove" /\ n \in victims /\ n \notin victims' /\ target[n] = "index")
       => attached[n] # "no"]_vars
=============================================================================
