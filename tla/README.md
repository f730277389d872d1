# Formal models of the Elastic Stack Terraform provider

The provider maps Terraform resources onto the Elasticsearch, Kibana and Fleet
APIs. Most of its code is schemas and conversions around a single API call. What
is hard to get right sits underneath: a generic *envelope* that runs every
create, read, update and delete; rules that turn a half-known Terraform model
into the identity of a remote object; polling; a client status cache shared
between goroutines; and a handful of resources whose operations are *sequences*
of API calls that can be cut short anywhere. This project models that part in
TLA+, model-checks it with TLC and proves some of it with TLAPS.

`PROJECT.json` lists components, runs, mutants, theorems, hazards, and, for every
definition, the source lines it stands for.

## 1. Inventory

| Component | State | Operations | Interacts with |
|---|---|---|---|
| Polling (`internal/asyncutils/backoff_poller.go`) | attempt, delay, start time | `PollWithBackoff` | its callback, timer, context |
| State waiters (`asyncutils/state_waiter.go`) | none of their own | `WaitForStateTransition`, `WaitForTerminalOrDesiredState` | polls the server through the poller |
| Conflict retry (`clients/kibanautil/retry.go`) | none | retry on 409 | poller, Kibana's write lock |
| Identity (`clients/composite_id.go`, resolution in both envelopes) | none | parse, format, resolve | used by every operation of a resource |
| Resource envelope (`internal/entitycore`) | Terraform state file; the model in flight | Create, Read, Update, Delete, import | Terraform core, client factory, concrete callbacks |
| Ephemeral envelope and API key (`entitycore/ephemeral_envelope.go`, `security/apikey`) | private state, keys | Open, Close | Terraform core, several clusters |
| Scoped clients (`internal/clients/*_scoped_client.go`, version checks) | mutex, cached status | `getServerStatusRaw`, `serverInfo`, version gates | goroutines of one operation, the server |
| CCR follower index (`elasticsearch/ccr/followerindex`) | follower index and state | create, update, delete sequences | envelope, CCR API, Elasticsearch's own pauses |
| ML datafeed and datafeed state (`elasticsearch/ml`) | definition and run state | stop-update-start, start/stop with wait | two resources act on one datafeed |
| Security entity store (`kibana/security_entity_store`) | engines per entity type | install, update, uninstall, waits | 500 retries, waiters |
| Rollover index series (`elasticsearch/index/rolloverindexseries`) | indices of a series | discover, bootstrap, adopt, delete until empty | ILM rolls over meanwhile |
| Fleet integration (`internal/fleet/integration`) | one package, its spaces | install, uninstall with fallbacks | other spaces and resources |
| Elasticsearch index (`elasticsearch/index/index`) | settings, mappings, aliases | create or adopt, update in parts, import, protected delete | templates, indexing clients |
| Elastic Defend policy, template ILM attachment, auto-follow pattern, ML jobs | one object each | short call sequences | not modelled |
| Data source and action envelopes, importers, client factory | none | read, invoke, parse, construct | identity, clients |
| Generated clients, provider registration, remaining resources | none of interest | one call each | envelope |

Which behaviours are hard:

* **partial failure** - the object exists but the call reports an error; a
  multi-call sequence stops half way; a response is lost after the effect;
* **stale state** - the plan is older than the server, a cached status is older
  than an upgrade, a lookup is older than the decision it drives;
* **interleaving** - other clients, Elasticsearch's own transitions, goroutines
  that share a client;
* **identity** - several rules for naming the same object, unknown and null
  attributes, identifiers that contain the separator;
* **time** - bounds checked before a wait, a timer racing a context.

What makes each part correct: polling keeps its bounds and returns; a waiter
tells the truth about what it saw; a retried write is applied at most once; the
state always names the object that was created; nothing is orphaned or leaked
silently; re-running converges; one operation judges all its version requirements
by one version; a destroyed follower leaves neither a follower nor a closed index;
a resource leaves the state only when its object is gone; a destroy does not take
what others use.

## 2. Modules

| Module | Models | Run |
|---|---|---|
| `BackoffPoller` | `PollWithBackoff` | `polling` |
| `StateWaiter` (extends `BackoffPoller`) | the two waiters, the server, other clients | `polling` |
| `ConflictRetry` (extends `BackoffPoller`) | `kibanautil.ConflictRetry` against Kibana's lock and versions | `polling` |
| `Identity` | composite identifiers, both resolution rules | `envelope` |
| `ResourceEnvelope` (extends `Identity`) | one resource through its life | `envelope` |
| `ScopedClient` | status cache and version requirements | `status_cache` |
| `VersionGate` | abstract specification that `ScopedClient` implements | `status_cache` |
| `FollowerIndex` | CCR follower index resource | `follower`, `follower_settings`, `follower_destroy` |
| `MLDatafeed` | datafeed and datafeed state resources on one datafeed | `datafeed` |
| `RolloverSeries` | rollover index series resource | `rollover` |
| `EntityStore` | security entity store resource | `entity_store` |
| `FleetIntegration` | two integration resources of one package | `fleet` |
| `EphemeralKey` | ephemeral envelope with the API key | `ephemeral_key` |
| `IndexResource` | Elasticsearch index resource | `index` |
| `InfrastructureProofs` | theorems about what the resources share: `BackoffPoller`, `StateWaiter`, `ConflictRetry`, `ScopedClient`, `EphemeralKey` | - |
| `ResourceEnvelopeProofs` | theorems about `Identity` and `ResourceEnvelope` | - |
| other `*Proofs` | theorems about the module they are named after: `FollowerIndex`, `MLDatafeed`, `RolloverSeries`, `EntityStore`, `FleetIntegration`, `IndexResource` | - |
| `MC*` | values of the constants; `MCPolling` composes the poller with its callers | - |

Each module holds, directly before the definition it belongs to, variants marked
`Defect`: plausible bugs (a dropped guard, an off-by-one, a missing reset). They
are not part of any specification; substituting one for the definition it
precedes makes a property fail, which shows that the property depends on that
piece of code.

### BackoffPoller

Time is a natural number (`now`); one unit is arbitrary. `cfg` is the
`BackoffConfig`, with `Jitter` in percent. A step is a call of `fn` that settles
(`CallSettles`: done or error), exhausts a bound (`CallExhausts`), or leads to
the `select` (`CallRetries`), and one of the two ways the `select` wakes up.
A call takes `0..MaxCall` units, whether or not its context ends meanwhile. The
random jitter is any delay `withJitter` can return; `rand.Int64N` excludes its
upper end. When timer and context are both ready,
either may be chosen, as in Go.

### StateWaiter

Adds the context check before the first lookup and the checker's branches in
the order of the code: lookup error, absent, desired, terminal, other. The server makes
its own moves (`Moves`) and other clients may do anything, up to `MaxActs`
times, between lookups. `settledAt` is a history variable.

### Identity and ResourceEnvelope

A string is the sequence of its slash-separated segments, so that `SplitN(id,
"/", 2)` is `Head` and `Tail` and identifiers with slashes are real. The states
of an attribute, known, null and unknown, are kept.

`ResourceEnvelope` follows one resource. The steps of `runGenericResourceWrite`
are separate actions (identity, client and version checks; the write callback;
read-after-write; saving), because other clients, kills and failures come
between them. Read and Delete are one API call and one action each. A failing
write or delete either had no effect or lost its response. `Kind` abstracts the
concrete resource: backend, generated identifier, PUT or POST semantics,
skipped read-after-write, identifiers unknown in an update's plan.
An import is either the composite importer's, which takes a composite id and fills the
resource-id attribute, or passes the id through, in which case a plain Elasticsearch
identifier is accepted too (`Importer`); the read that completes it is part of the action.

External parts, modelled from how the code uses them: Terraform core (refresh
before plan, replacement when space or name changes, the state file is kept on
error), the write callback (one API call; fills in the identifiers), the server.
`tracked`, `made`, `reported` and `hit` are history variables.

Left out: models with `GetReadResourceID`, unscoped Kibana models and the
composite resource id that some data sources opt into; decoding errors of plan,
config and state (Terraform core never produces them); the timeouts attribute,
which is copied from plan to state.

### ScopedClient

Callers are goroutines that run `EnforceVersionRequirements` with a list of
requirements (a requirement is the set of versions that satisfy it, which covers
both minimum versions and custom checks). The mutex is held across the request as in
`getServerStatusRaw` and `serverInfo`, which have the same shape and share the
model. The server may be upgraded between any two steps. A malformed version and the
serverless flavor are statuses of their own.

### FollowerIndex

The plan of an update or a delete is a sequence of API operations
(`PlanUpdateOperations`, `PlanDeleteOperations`), executed one per step, with
other clients' and Elasticsearch's own pauses, resumes and deletes, refusals and failures
between them. The ten tuning parameters, always compared and sent together, are
one value. The envelope around the callbacks is kept to what matters here:
read-after-write, the state kept on error, a read that finds no follower drops
the resource. `gaps` is a history variable: why the settings on the server may
differ from those in the state.

### ConflictRetry

The callback of the poller is one HTTP request. Other writers take and release
Kibana's write lock and may change the object that a versioned request was built
from. Only a 409 is sent again; an answer that is lost may or may not have taken
effect. `applied` and `metLockAt` are history variables.

### VersionGate

Three variables: the requirements, the one settled status and the verdicts. As
soon as a status is settled it alone determines each verdict. `ScopedClient`
implements it with `status <- cache`; its mutex, requests and program counters
are hidden. The refinement is a property of `status_cache` and a theorem.

### MLDatafeed

`ml_datafeed` and `ml_datafeed_state` are two processes: Terraform runs them
concurrently when nothing orders them. Each has its own state, program counter
and remembered lookup. Elasticsearch finishes what was asked for (`ServerMoves`),
a datafeed with an end stops by itself, and other clients start, stop and delete.
Waiting is one step whose outcomes are those `StateWaiter` establishes: the
desired state was seen, the other terminal state, absence, or the deadline.
`foreign` and `ran` are history variables.

### RolloverSeries

Discovery is a request for the members of the alias followed by one request per
member in any order, so that a pass may see a mixture of moments; it is repeated
while members disappear under it, and fails when the same ones do twice in a row. Create
bootstraps or adopts, delete runs passes until discovery finds nothing. Rollovers,
detached and deleted members and data streams come between any two requests.
Closed and hidden indices, and the rollover of an alias without a write flag, are
left out.

### EntityStore

An operation is the sequence of its requests (`CreateOps`, `UpdateOps`,
`DeleteOps`) in the order of the code, with the shrink guard and the final read as
elements of it. Engines install and uninstall in the background; an install
answers 500 while an engine is being removed, and is retried. A read that runs
into its deadline saves what is listed so far. The status reports four of the eleven
attributes of `log_extraction` and none of the others: the constant `ReadBack` says
which settings are left of each value, and `Reported` applies it in `FlattenStatus`.
That Terraform core taints a new resource whose read-back dropped a configured
attribute, and attributes left unset, are left out.

### FleetIntegration

Fleet holds one installation of a package with a primary space and further spaces
that have only the Kibana assets. Two resources, each in its space (or with none
configured), install, read and destroy it concurrently. A destroy looks at the
spaces, then deletes assets or uninstalls, with the fallback for Fleet's refusal.
Servers with and without space support are both initial states.

### EphemeralKey

Several ephemeral keys are open at once, on the provider's cluster or on their own.
Open creates the key, saves the connection, saves the close state and sets the
result; each of the four may fail. Close reads both slots, rebuilds its client and
invalidates the key. Terraform core closes what opened without an error, unless it
is killed.

### IndexResource

Mappings are functions from fields to types; one dynamic setting, one static
setting and the analysis stand for all of theirs. The framework's rule that a
semantically equal prior value is kept is part of the read, because the code
relies on it. The settings are read only by the refreshes of an imported resource, and
a setting that the index does not have is then skipped, so that the state keeps the
value it had (`Hydrated`). Create with `use_existing` compares static settings and then sends
the same requests as an update. Other clients change or drop the index, or have it
created from a template by writing to it. `swapped`, `dynHidden` and `disturbed`
are history variables.

## 3. Runs

| Run | Question | Distinct states |
|---|---|---|
| `polling` | Does the poller keep its promises to each kind of caller? | 199,273 |
| `envelope` | Do state, server and configuration stay in step? | 901,028 |
| `status_cache` | Is the status fetched once at a time, judged consistently, and the gate implemented? | 106,850 |
| `follower` | Do interrupted call sequences leave a follower that re-running repairs? | 236,059 |
| `follower_settings` | Are settings changed while paused applied on resume, as specified? No. | violation |
| `follower_destroy` | Does a destroy always dispose of the index, as specified? No. | violation |
| `datafeed` | Do two resources on one datafeed keep it running and tell the truth? | 510,808 |
| `rollover` | Does a delete get every generation, and nothing it has not seen? | 843,240 |
| `entity_store` | Do interrupted updates keep engines and converge? | 1,022,023 |
| `fleet` | Does a destroy remove the package from its own space only? | 851,599 |
| `ephemeral_key` | Is every opened key closed or its leak reported? | 13,122 |
| `index` | Do partial updates, adoption and imports leave an honest state? | 244,548 |

**Properties worth arguing about.**

*Polling.* `OverrunWithinOneWait`: how late an attempt may start after
`MaxElapsed`. `NoAttemptAfterCtxDone`: although Go's `select` chooses at random, the
attempt after a wait starts no later than the context's end, be it before or during
the wait (only if timer and context fall together may the timer still win). `NilErrorMeansSeen`: the poller's nil error on an
exhausted bound does not leak through the waiters. `WaitErrorsInv`: once the
resource has settled wrongly, the waiter returns within one interval (`FailsFast`),
and it never takes the desired state for a wrong one (`TerminalErrorIsTruthful`). `AppliedAtMostOnce`,
`SuccessMeansApplied`: a lost answer is not retried and an exhausted policy is no
success. `ConflictMeansLongLock`: a conflict reaches the practitioner only if the
lock was held as long as the doubled delays, or the version is outdated.

*Envelope.* `IdentityInv` (with its parts `StateAddressesTracked` and
`ReadBackReadsWritten`) and `OnlyTrackedChanged`: four identity rules agree on one
object, although an identifier that ends in another one exists next to it.
`NoSilentOrphan`, `StateDroppedOnlyIfGone`: no object is forgotten without an
error, under failures, kills, lost responses and drift. `Converges`: once failures,
edits and other clients stop, repeated runs reach agreement. Resources that insist
on creating a taken name (POST with a chosen identifier) are excluded: they need an
import.

*Status cache.* `ConsistentJudgement`: no operation mixes two server versions.
`VerdictsFollowStatus`: the refinement of `VersionGate`.

*Follower.* `FollowerInv`, `DeleteDisposes`, `SettingsGapsAreKnown`, `Converges`:
the sequences, interrupted anywhere, have only the gaps described below, and none
in status or tuning.

*Datafeed.* `FeedInv`: an update or delete meets a stopped datafeed, except for the
two races it names. `UpdateKeepsRunning`: stop, update, restart leaves a datafeed
that ran running. `StateIsTruthful`: what the state resource saves, including a
start that it never saw, is true. `Converges`: a datafeed left stopped by a failed
update is repaired, if a state resource says so; only an orphan needs an import.

*Rollover.* `SeriesInv`: nothing is deleted that was not seen to be an ordinary
member in the same pass. `ForgottenOnlyIfAbsent`: generations rolled over behind a
delete's back are deleted too. `DestroyCompletes`.

*Entity store.* `StoreInv`: no update loses an engine it was not told to remove.
`StateIsTruthful`: the resource is dropped only when no engine is left, and saves
only installed engines, all of them unless a deadline passed. `Converges`: re-running
reaches agreement as far as the status tells. It says nothing of a configuration that
uses a setting the status does not report, which is planned again in every run, and one
started engine counts as started; section 4 has both.

*Fleet.* `StateIsTruthful`: saved only while in its space, dropped only when gone.
`SeenPeersSurvive`: an unforced destroy that saw other spaces spares them.
`Converges`, if the resources agree on a version.

*Ephemeral key.* `EInv`: what Close needs is saved before the result is; a leaked
key was reported. `InvalidatedByItsClose`: no other key is touched.

*Index.* `IndexInv`: settings that a refresh does not read differ from the state only
for known reasons, and an adopted index has the static settings of the state.
`ProtectedSurvives`: no sequence of edits, replacements and failures deletes a
protected index. `WriteApplies`: a successful write left the configured aliases and
mappings, whatever failed before it, and the configured dynamic setting unless the
state hides it. What hides it (`dynHidden`) is another client's change, a failed update
of that setting, or an adoption; `IndexInv` shows that nothing else does. `Converges`
is about aliases, mappings and protection: a hidden setting is not repaired.

**Bounds and why they are enough.**
`polling`: every combination of flat, capped and over-capped delays with both
bounds on and off and with jitter; deadlines from 0 to 24 units, so that three
doublings, both exhaustion branches and all five attempts of a conflict retry
happen; a four-state life cycle with two acts of other clients (enough to leave a
terminal state and to pass through the desired one unseen).
`envelope`: two names of which one is a suffix of the other after a slash, two
spaces, three generated identifiers (one per create that can fail, plus one), one
edit or import, one drift, two failures: a lost create followed by a failed
read-after-write is the deepest chain of failures that differs.
`status_cache`: three callers, up to two requirements each, one upgrade: one caller
fetching, one waiting, one between its requirements.
`follower`: two values each of tuning and settings, one failure, one foreign act,
two edits (pause with changed settings, then resume).
`datafeed`: two definitions, one search (the counter only has to grow), one each of
failures, interferences and edits.
`rollover`: two generations and a foreign name of which at most one exists at first,
three acts (a member deleted, created again and deleted, for the same member to
disappear twice), one failure, one edit (protection off, a destroy or an import).
`entity_store`: two types, two failures (an install error and a passed deadline), one
foreign act, two edits (shrink refused, then allowed); three log settings of which two
differ only in an attribute that the status does not report (`MCReadBack`), the third of
them in one kind of configuration only (`MCConfigs`).
`fleet`: two resources, two spaces, two versions, one of each disturbance.
`ephemeral_key`: two keys on two clusters; failures are unbounded.
`index`: two aliases, fields, types and values, five configurations that
differ in each attribute, one failure, two foreign acts (drop, and create from a template),
two edits.
All bounds are guards on counters named `Max...` and are part of the type
invariants.

**Deadlock checking** is off where a behaviour may end: a call returns, all
callers finish, a run ends, or nothing is configured any more. It is on in `fleet`.

**Fairness.** *Polling*: weak fairness of the caller's own steps; every operation of
the envelope runs under `context.WithTimeout`, so a context end exists
(`CtxDoneAts` are finite), a request takes at most `MaxCall` and timers fire.
Nothing is assumed of the server or of other writers. *Status cache*: weak fairness
of each goroutine; strong fairness of taking the mutex, which Go's `sync.Mutex`
gives by its starvation mode. *Resources*: weak fairness of the provider's steps,
which says that the practitioner runs Terraform again and that a call that started
ends; and, in `datafeed`, `entity_store` and `fleet`, of what the server finishes by
itself after it accepted a request (starting, stopping, installing, uninstalling),
without which the code's waits could only time out. No fairness of
failures, edits, other clients or rollovers; in the follower model a follower may
never start, and `Converges` says nothing about that case.

## 4. Findings

Two disagreements have runs of their own:

1. **Settings changed while paused** (`followerindex/helpers.go:136`, run
   `follower_settings`). The change is saved in the state with the paused follower;
   on resume plan and prior state agree, so the settings are never sent. The
   specification of the resource says they are "applied on the next active
   transition". Tuning parameters are, since a resume always carries them.
2. **Interrupted destroy** (`followerindex/read.go:45`, run `follower_destroy`).
   After `unfollow` the index is no follower, so if the following delete or open
   fails, or the response of `unfollow` is lost, the next refresh drops the resource
   and leaves a closed regular index.

The modules also state the following documented claims. Each is refuted when it is
put in place of the properties in the cfg of the module's run; what does hold is
among the properties of that run.

| Claim | Where | What the code does |
|---|---|---|
| `BackoffPoller!MaxElapsedBoundsRetrying` | `backoff_poller.go:81`, comment at 39 | the elapsed time is compared before the wait, so the last attempt may start later (`OverrunWithinOneWait` is proved) |
| `MLDatafeed!UpdateWaitsForStopped` | `ml/datafeed/delete.go:85` | a datafeed that somebody restarts during the wait ends it as "not stopped, no error", which is ignored |
| `RolloverSeries!DetachedUntouched` | `rolloverindexseries/delete.go:67` | a member detached between discovery and its delete is deleted |
| `EntityStore!RefusalMakesNoCalls` | `security_entity_store/update.go:72` | the shrink guard, whose message says "No API calls were made", comes after the log extraction update and the install |
| `EntityStore!StoppedAfterWrite` | `security_entity_store/update.go:85` | with `started = false` before and after, types added by the update are started and stay so |
| `EntityStore!StartedAfterWrite` | `security_entity_store/update.go:85` | start is called only when `started` differs from the prior state, in which one started engine stands for all, and never by a create; an engine that is stopped beside a started one stays so |
| `EntityStore!LogSettingsAreSaved` | `security_entity_store/helpers.go:283` | seven of the eleven `log_extraction` attributes come back null, so that a configuration with one of them (`docs_limit`) never agrees with the state |
| `FleetIntegration!OthersSurvive` | `fleet/integration/delete.go:124` | a package installed into another space after the look is uninstalled there too |
| `FleetIntegration!UnsetSpaceIsNull` | `fleet/integration/create.go:115` | an unset `space_id` is saved as the space of the installation |
| `IndexResource!ReadShowsLostFields` | `index/mappings_value.go:167` | semantic equality in both directions hides fields the index has lost |
| `IndexResource!ReadShowsSettings` | `index/index/models.go:111`, `settings_read.go:86` | a read "SHALL populate all individual setting attributes"; only the refresh of an imported resource does, and it skips those the index does not have, so that a setting another client changed or a failed update left is not seen |
| `IndexResource!ImportIsNoDrift` | `index/index/settings_read.go:289` | after an import an unconfigured `number_of_shards` forces a replacement |
| `IndexResource!AnalysisChangeIsError` | `index/index/update.go:157` | a changed analysis is saved without being applied, without an error |

## 5. Proofs

Every theorem holds for every value of the constants that satisfies the named
assumptions, in particular for any number of failures, edits and acts of others, not
only for the bounds of the runs. The inductive invariant of each module has been
model-checked on the instance of the module's run before it was proved.

`InfrastructureProofs` proves, of the poller, for every set of policies with positive `Initial`,
every set of deadlines and every bound on the duration of a call, the type
invariant and `AttemptsWithinBound`, `BackoffWithinBound`, `OverrunWithinOneWait`,
`ReturnsByDeadline` and the action property `NoAttemptAfterCtxDone`. The
inductive invariant `PollInv` adds `WaitArmed`: during a wait the timer is armed
in the future, within one longest wait, and neither bound had been reached when
the wait began. Without it the step from `select` back to a call says nothing
about attempts or time. Lemmas on integer division give that jitter is monotone
in the delay, so that the longest backoff has the longest wait.
Assumptions: `Configs` contains `BackoffConfig` records, deadlines are naturals.

Of the status cache it proves, for any set of callers, statuses and requirement lists,
the type invariant, `OneRequestInFlight`, `ConsistentJudgement` and the
action property `CacheIsStable`. None is inductive alone: `ClientInv` adds to the
types `StatusInv`, which says that
the holder of the mutex is exactly the caller inside `getServerStatusRaw`, that
nothing is cached while a request is in flight, and that whatever is to be judged
or has been judged is the cached status. Assumptions: the markers for "not
cached" and "nobody" are neither a status nor a caller.

The abstract gate: `ImplementsGate` proves `Spec => Gate!Spec`, the initial states and
every step of the client map to those of `VersionGate` or leave its variables alone.
It needs, besides `ClientInv`, `Progress`: the requirements that a caller has left
behind are met by the cached status, so that "passed" is the verdict the status
determines.

Of the waiters it proves, for every set of states, moves, intervals and deadlines,
`NilErrorMeansSeen`, `WaitErrorsInv` and `NoLookupWithEndedCtx`. The invariant adds that the policy is flat and unbounded,
so that no wait is longer than the interval, and that a wrong terminal state cannot
have been reached before the last lookup began unless that lookup ended the wait.

Of the conflict retry it proves `AppliedAtMostOnce` and `SuccessMeansApplied` for every
number of attempts and every behaviour of other writers. The inductive step is that
a request that is still in the loop has had no effect (`LoopHasNoEffect`): only a
conflict is retried, and a conflict applies nothing. `ConflictMeansLongLock` is proved
for up to 14 attempts (`ConflictIsEarned`; the callers pass `ConflictMaxAttempts`, which
is 5). Its invariant `WaitsDouble` says when an attempt can be made at the earliest:
attempt k not before 2^(k-1) - 1 initial delays, because the wait before it was at least
2^(k-2) and began no earlier. Fourteen is sharp: the delay after the 14th attempt
would be 8192 initial delays and is capped at an hour, 7200 of them, and from there on
the property is false. The powers of two are a lemma on the thirteen cases.

`FollowerIndexProofs` proves `FollowerInv`, and from it `PauseAfterStart`,
`SettingsGapsAreKnown` and `DeleteDisposes`, for every set of tunings and settings and
every number of failures, interferences and edits. The properties speak of the
end of a call, so the invariant has to say how far it has got: the operations that
a delete or an update has left determine what it has achieved on the server
(`DeleteInv`, `UpdateInv`), with lemmas on the few short sequences a plan can be.

Of the ephemeral key it proves `EInv`, `OpenIsCloseable`, `KeyPlaces`, `NoSilentLeak` and
`InvalidatedByItsClose` for any number of keys and clusters. `OpenIsCloseable` is not
inductive without `SlotsFilled`, which says what the private state holds at each
step of Open.

`ResourceEnvelopeProofs` proves `IdentityInv`, `NoSilentOrphan`, `OnlyTrackedChanged` and
`StateDroppedOnlyIfGone`, for every set of kinds, spaces, names and generated
identifiers, slashes in them included. That the state addresses the tracked object is
a statement about parsing, which is not inductive: a step could save any identifier
that happens to parse to the right one. `EnvelopeInv` therefore says which identifier
it is (`StateInv`: the formatted composite, or the plain name of an imported
Elasticsearch object), what plan and key of a write in progress have to do with the
tracked object (`PlanInv`, `KeyInv`), what has been written (`HitInv`), and where each
object that was made is (`MadeInv`). The lemmas on identifiers show that both
resolution rules of the code undo the formatting. Assumptions: a space id and a cluster
uuid are one non-empty segment (`IdentifiersAssumption`; Kibana's space ids and
Elasticsearch's uuids contain no slash), names are neither empty nor blank, and the
markers for null, unknown and absent are none of the values they stand beside
(`MarkersAssumption`, `EnvelopeAssumption`, `ModelAssumption`).

`RolloverSeriesProofs` proves `SeriesInv` and `ForgottenOnlyIfAbsent`, for any names and any
rollover function. That victims were sighted depends on when they are chosen:
`SeriesIInv` adds that victims exist only during the removal of a pass, since the next
discovery forgets what was sighted (`PassInv`), that whatever was resolved as an
ordinary index was sighted (`SightedInv`), and that a call has the state it was begun
for (`CallInv`).

`MLDatafeedProofs` proves `FeedInv`, `UpdateKeepsRunning` and `StateIsTruthful` for the two
concurrent resources, with any definitions and number of searches. `FeedIInv` has one
part per resource: which operation can be at which label (`ControlOK`), that a datafeed
nobody else has moved is on its way to what is awaited (`AwaitOK`), that a restart
succeeded (`RestartOK`), and that a growing search count means the datafeed was started
(`StateOK`). Each step of one resource is shown to leave the other's part alone or to
mark it `foreign`.

`EntityStoreProofs` proves `StoreInv` and `StateIsTruthful`, for any set of entity types and
log settings. What a write has achieved when it saves depends on what it had queued:
`StoreIInv` says that the queued operations belong to the call (`OpsInv`: only a delete
or an update that may shrink has an uninstall left, and the read is last), that state
and configuration are there for it (`CallInv`), and that once no install is left every
configured engine is installed (`InstalledInv`), however often the install was answered
with a server error. Lemmas describe the operations of `CreateOps`, `UpdateOps` and
`DeleteOps` by membership, without the order, apart from the read's place. Both
properties are about engines; of the log settings the proofs only use that the status
reports some value. Assumptions besides the markers: there is some value of the log
settings, `ReadBack` maps each to one that is reported as it is, and the configurations
are of their type.

`FleetIntegrationProofs` proves `StateIsTruthful` and `SeenPeersSurvive`, for any number of
resources of one package and any finite set of spaces. Both are about one step, the one
that ends a call or removes the package, and depend on what earlier steps of the call
found. `FleetInv` adds to the types that an installed package has a space (`PackageOK`)
and, for each resource, which model each step works on and what its look saw
(`CallOK`): a destroy without force reaches its uninstall only if the look did not see
the package in another space. Other resources and clients may install or remove the
package after the look; the lemmas (`ForgottenIsLost`, `SavedIsFound`, `LookedAlone`)
tie each saved or dropped state to the answer in the same step. Assumptions: the
spaces are finitely many (the code ranges over the list that Fleet answers), there is
a version, and the markers for no space, no state and no configuration are none of
the values they stand beside.

`IndexResourceProofs` proves `IndexInv`, `ProtectedSurvives` and `WriteApplies`, for any
values, aliases, fields and types. A write is a sequence of requests, any of which may
fail, with other clients between them, so `IndexIInv` says what those that are left
have still to change: the aliases of the index are on their way from those of the
compared model to those of the plan (`AliasOK`), the dynamic setting and the mappings
are those of the plan once their request is no longer queued (`DynOK`, `MappingsOK`),
and the static setting is never changed in place (`StaticOK`). An update that fails may
have made its settings request or not, so the setting is known afterwards only if the
update was not to change it (`DynAtStake`, lemma `DynKept`). `OpsOK` says which
requests a call can hold, in particular that only the destroy of an unprotected
resource holds the delete; `PlanOK`, that the plan was made from the state and the
configuration the call still has; `SwapOK`, that whoever drops the index under a create
is known to have disturbed it. Assumptions: there is a value besides the default of the
static setting, and null, "no index", "no state" and "no configuration" are none of the
values they stand beside (in Go they are a null attribute, a 404, an absent resource).

Some facts about the models came out of the proofs. `PlannedOp` and `AfterAwait` of
`MLDatafeed`, `PlannedOp` of `FleetIntegration` and `Effect` of `IndexResource` were
written as `CASE`s whose guards overlapped; TLC takes the first true guard, TLA+ leaves
the choice open, and the prover rightly would not choose. They now have the order of
the code's early returns. The type of an optional set of aliases is written
`(SUBSET Aliases) \cup {Null}`: without the parentheses the two tools read it
differently. The merges of mappings use an operator of their own, `Overlay`, in place of
the `@@` of the `TLC` module, which has no meaning for the prover. And
`ConflictMeansLongLock` turned out to hold only up to the cap on the delay.

Only model-checked: the liveness properties (`PollReturns`, `EveryCallerEnds`,
`DestroyCompletes`, every `Converges`), which are out of the prover's reach. Every
invariant and every action property of a run that passes is also a theorem.

## 6. Not modelled

* Most of the repository by size: generated API clients, schemas, validators, plan
  modifiers, state upgraders, and conversions between Terraform models and API
  bodies. They are data, not control: a model would repeat them line by line and
  there would be nothing for a model checker to interleave. Acceptance tests cover
  them.
* The remaining resources whose callbacks are one API call: `ResourceEnvelope`, with
  its kinds, stands for them.
* Four resources with short sequences of their own: the auto-follow pattern and ML
  job states, whose sequences have the shape of the follower index's and of the
  datafeed state's; the template ILM attachment, an unconditional
  read-modify-write; and the Elastic Defend policy, whose bootstrap and finalize
  would be worth a module.
* Data source and action envelopes and the space importer (one call or pure parsing,
  no state), the client factory (validation and I/O), provider registration.
* `ClusterID` of the Elasticsearch client: an answer with the uuid "_na_" is cached
  like any other, so it fails for the life of the client. The code does so
  deliberately and no document promises recovery.

## 7. Plan

What is left, in this order:

1. `DefendPolicy` - a create in two requests under the optimistic version, the
   artifact manifest in private state.
2. An abstract specification of a managed resource ("the object exists, is tracked,
   or was reported") that `ResourceEnvelope` and `FollowerIndex` implement.
