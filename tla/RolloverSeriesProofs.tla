------------------------ MODULE RolloverSeriesProofs ------------------------
(***************************************************************************)
(* Proofs, for every set of names, any rollover function and any number of *)
(* rollovers, failures and acts of other clients, of the safety properties *)
(* of the rollover index series: a delete is sent only for what the same   *)
(* pass has seen to be an ordinary member, and the resource leaves the     *)
(* state only while its alias has no members.                              *)
(***************************************************************************)
EXTENDS RolloverSeries, FiniteSetTheorems, TLAPS

(***************************************************************************)
(* The inductive invariant.  Victims are left over from a pass only while  *)
(* it lasts, since another discovery forgets what was sighted; what counts *)
(* as an ordinary index was sighted; and a call has the state and the      *)
(* configuration that it was begun for.                                    *)
(***************************************************************************)

PassInv == pc # "remove" => victims = {}
SightedInv == \A n \in Names : kind[n] = "index" => n \in sighted
CallInv ==
  /\ op \in {"read", "update", "delete"} => tfstate # NoState
  /\ op \in {"create", "update", "readback"} => config # NoConfig
  /\ (pc = "idle") <=> (op = "none")
  /\ pc = "bootstrap" => op = "create"

SeriesIInv == TypeOK /\ PassInv /\ SightedInv /\ CallInv /\ VictimsWereSeen

(***************************************************************************)
(* Operators.                                                              *)
(***************************************************************************)

\* The bounds are respected.
LEMMA SpendType ==
  ASSUME TypeOK,
         \/ UNCHANGED budget
         \/ Spend("faults", MaxFaults) \/ Spend("acts", MaxActs) \/ Spend("edits", MaxEdits)
  PROVE  budget' \in [faults : 0 .. MaxFaults, acts : 0 .. MaxActs, edits : 0 .. MaxEdits]
  BY SeriesAssumption DEF TypeOK, Spend

\* Once no target is missing and none is a data stream, every member that was
\* listed was sighted.
LEMMA SettledMembers ==
  ASSUME SeriesIInv, Settled, ~SawDataStream
  PROVE  SeriesMembers \subseteq sighted /\ SeriesMembers \subseteq Names
  <1>1. Disappeared = {} /\ SeriesMembers = Members(view) /\ Members(view) \subseteq Names
    BY DEF Settled, SeriesMembers, Members
  <1>2. ASSUME NEW n \in Members(view)
        PROVE  n \in sighted
    <2>1. n \in Names /\ kind[n] \in Kinds \cup {"missing", "unresolved"}
      BY <1>1, <1>2 DEF SeriesIInv, TypeOK
    <2>2. kind[n] # "unresolved" /\ kind[n] # "missing" /\ kind[n] # "stream"
      BY <1>1, <1>2 DEF Settled, Resolved, Disappeared, SawDataStream
    <2> QED  BY <2>1, <2>2 DEF Kinds, SeriesIInv, SightedInv
  <1> QED  BY <1>1, <1>2

\* The write index is a member, or there is none.
LEMMA WriterType ==
  ASSUME TypeOK
  PROVE  EffectiveWriter \in Names \cup {NoWriter}
  <1> DEFINE explicit == {n \in SeriesMembers : view[n] = "true"}
  <1>1. explicit \subseteq Names
    BY DEF SeriesMembers, Members
  <1>2. CASE Cardinality(explicit) = 1
    <2>1. explicit # {}
      BY <1>2, FS_EmptySet
    <2>2. (CHOOSE n \in explicit : TRUE) \in explicit
      BY <2>1
    <2>3. EffectiveWriter = CHOOSE n \in explicit : TRUE
      BY <1>2 DEF EffectiveWriter
    <2> QED  BY <1>1, <2>2, <2>3
  <1>3. CASE Cardinality(explicit) # 1 /\ explicit = {} /\ \E n \in Names : SeriesMembers = {n} /\ view[n] = "unset"
    <2>1. (CHOOSE n \in Names : SeriesMembers = {n}) \in Names
      BY <1>3
    <2>2. EffectiveWriter = CHOOSE n \in Names : SeriesMembers = {n}
      BY <1>3 DEF EffectiveWriter
    <2> QED  BY <2>1, <2>2
  <1>4. CASE Cardinality(explicit) # 1 /\ ~(explicit = {} /\ \E n \in Names : SeriesMembers = {n} /\ view[n] = "unset")
    BY <1>4 DEF EffectiveWriter
  <1> QED  BY <1>2, <1>3, <1>4

(***************************************************************************)
(* The steps.                                                              *)
(***************************************************************************)

\* The part of the types that a step changes outside its call.
WorldType ==
  /\ target \in [Names -> Kinds \cup {"none"}] /\ attached \in [Names -> Flags]
  /\ config \in BOOLEAN \cup {NoConfig}
  /\ tfstate \in States \cup {NoState} /\ refreshed \in BOOLEAN
  /\ budget \in [faults : 0 .. MaxFaults, acts : 0 .. MaxActs, edits : 0 .. MaxEdits]

\* The end of a call leaves nothing behind.
LEMMA EndCallStep ==
  ASSUME SeriesIInv, EndCall, WorldType'
  PROVE  SeriesIInv'
  <1>1. NoView \in [Names -> Flags] /\ Unresolved \in [Names -> Kinds \cup {"missing", "unresolved"}]
    BY DEF NoView, Unresolved, Flags
  <1>2. /\ op' = "none" /\ pc' = "idle" /\ view' = NoView /\ kind' = Unresolved
        /\ previous' = {} /\ victims' = {} /\ sighted' = {}
    BY DEF EndCall
  <1>3. TypeOK'
    BY <1>1, <1>2 DEF TypeOK, WorldType
  <1>4. PassInv' /\ CallInv' /\ VictimsWereSeen'
    BY <1>2 DEF PassInv, CallInv, VictimsWereSeen
  <1>5. SightedInv'
    BY <1>2 DEF SightedInv, Unresolved
  <1> QED  BY <1>3, <1>4, <1>5 DEF SeriesIInv

\* A call that fails, with or without an effect of its last request.
LEMMA FailStep ==
  ASSUME SeriesIInv, Fail, UNCHANGED config,
         target' \in [Names -> Kinds \cup {"none"}], attached' \in [Names -> Flags],
         \/ UNCHANGED budget
         \/ Spend("faults", MaxFaults)
  PROVE  SeriesIInv'
  <1>1. EndCall /\ refreshed' = FALSE /\ UNCHANGED tfstate
    BY DEF Fail
  <1>2. WorldType'
    BY <1>1, SpendType DEF WorldType, SeriesIInv, TypeOK
  <1> QED  BY <1>1, <1>2, EndCallStep

\* An attempt at discovery starts from nothing.
LEMMA DiscoveryStep ==
  ASSUME SeriesIInv, StartDiscovery, WorldType', UNCHANGED <<config, tfstate>>,
         op' \in {"read", "import", "create", "update", "readback", "delete"},
         op' \in {"read", "update", "delete"} => tfstate # NoState,
         op' \in {"create", "update", "readback"} => config # NoConfig,
         previous' \subseteq Names, victims' = {}, sighted' \subseteq Names
  PROVE  SeriesIInv'
  <1>1. NoView \in [Names -> Flags] /\ Unresolved \in [Names -> Kinds \cup {"missing", "unresolved"}]
    BY DEF NoView, Unresolved, Flags
  <1>2. pc' = "fetch" /\ view' = NoView /\ kind' = Unresolved
    BY DEF StartDiscovery
  <1>3. TypeOK'
    BY <1>1, <1>2 DEF TypeOK, WorldType
  <1>4. PassInv' /\ CallInv' /\ VictimsWereSeen'
    BY <1>2 DEF PassInv, CallInv, VictimsWereSeen
  <1>5. SightedInv'
    BY <1>2 DEF SightedInv, Unresolved
  <1> QED  BY <1>3, <1>4, <1>5 DEF SeriesIInv

\* A call begins.
LEMMA BeginSteps ==
  ASSUME SeriesIInv, BeginRead \/ BeginCreate \/ BeginUpdate \/ BeginDelete \/ BeginImport
  PROVE  SeriesIInv'
  <1>1. /\ StartDiscovery /\ UNCHANGED <<target, attached, config, tfstate, refreshed, previous, victims, sighted>>
        /\ UNCHANGED budget \/ Spend("edits", MaxEdits)
        /\ op' \in {"read", "import", "create", "update", "delete"}
        /\ op' \in {"read", "update", "delete"} => tfstate # NoState
        /\ op' \in {"create", "update"} => config # NoConfig
        /\ op = "none"
    BY DEF BeginRead, BeginCreate, BeginUpdate, BeginDelete, BeginImport, BeginCall
  <1>2. WorldType' /\ previous \subseteq Names /\ sighted \subseteq Names
    BY <1>1, SpendType DEF WorldType, SeriesIInv, TypeOK
  <1>3. victims = {}
    BY <1>1 DEF SeriesIInv, PassInv, CallInv
  <1> QED  BY <1>1, <1>2, <1>3, DiscoveryStep

\* The members are listed, and nothing is known of them yet.
LEMMA FetchAliasStep ==
  ASSUME SeriesIInv, FetchAlias
  PROVE  SeriesIInv'
  <1>1. /\ UNCHANGED <<target, attached, config, tfstate, refreshed, op, previous, victims, budget>>
        /\ pc = "fetch" /\ pc' = "resolve" /\ view' = attached /\ kind' = Unresolved /\ sighted' = {}
    BY DEF FetchAlias
  <1>2. Unresolved \in [Names -> Kinds \cup {"missing", "unresolved"}]
    BY DEF Unresolved
  <1>3. victims = {}
    BY <1>1 DEF SeriesIInv, PassInv
  <1>4. TypeOK'
    BY <1>1, <1>2 DEF SeriesIInv, TypeOK
  <1>5. PassInv' /\ CallInv' /\ VictimsWereSeen'
    BY <1>1, <1>3 DEF SeriesIInv, PassInv, CallInv, VictimsWereSeen
  <1>6. SightedInv'
    BY <1>1 DEF SightedInv, Unresolved
  <1> QED  BY <1>4, <1>5, <1>6 DEF SeriesIInv

\* A member is resolved: an index is sighted.
LEMMA ResolveTargetStep ==
  ASSUME SeriesIInv, NEW n \in Names, ResolveTarget(n)
  PROVE  SeriesIInv'
  <1>1. /\ UNCHANGED <<target, attached, config, tfstate, refreshed, op, pc, view, previous, victims, budget>>
        /\ kind' = [kind EXCEPT ![n] = IF target[n] = "none" THEN "missing" ELSE target[n]]
        /\ sighted' = IF target[n] = "index" THEN sighted \cup {n} ELSE sighted
    BY DEF ResolveTarget
  <1>2. (IF target[n] = "none" THEN "missing" ELSE target[n]) \in Kinds \cup {"missing", "unresolved"}
    BY DEF SeriesIInv, TypeOK
  <1>3. TypeOK'
    BY <1>1, <1>2 DEF SeriesIInv, TypeOK
  <1>4. PassInv' /\ CallInv' /\ VictimsWereSeen'
    BY <1>1 DEF SeriesIInv, PassInv, CallInv, VictimsWereSeen
  <1>5. SightedInv'
    BY <1>1 DEF SeriesIInv, SightedInv, TypeOK
  <1> QED  BY <1>3, <1>4, <1>5 DEF SeriesIInv

\* Discovery is repeated: within a call, after the bootstrap or the adoption, and
\* after a pass.
LEMMA RediscoverSteps ==
  ASSUME SeriesIInv, Rediscover \/ NextPass
  PROVE  SeriesIInv'
  <1>1. /\ UNCHANGED <<target, attached, config, tfstate, refreshed, op, victims, budget>>
        /\ StartDiscovery /\ sighted' = {} /\ pc \in {"resolve", "remove"}
        /\ victims = {} \/ pc = "resolve"
        /\ previous' \subseteq Names
    BY DEF Rediscover, NextPass, Resolved, Disappeared, Members
  <1>2. /\ victims' = {} /\ op \in {"read", "import", "create", "update", "readback", "delete"}
        /\ op \in {"read", "update", "delete"} => tfstate # NoState
        /\ op \in {"create", "update", "readback"} => config # NoConfig
    BY <1>1 DEF SeriesIInv, PassInv, CallInv, TypeOK
  <1>3. WorldType'
    BY <1>1 DEF WorldType, SeriesIInv, TypeOK
  <1> QED  BY <1>1, <1>2, <1>3, DiscoveryStep

\* The effect of the bootstrap request and of a delete request.
LEMMA EffectTypes ==
  ASSUME SeriesIInv
  PROVE  /\ BootstrapEffect => target' \in [Names -> Kinds \cup {"none"}] /\ attached' \in [Names -> Flags]
         /\ \A n \in Names : Without(n) => target' \in [Names -> Kinds \cup {"none"}] /\ attached' \in [Names -> Flags]
  <1>1. target \in [Names -> Kinds \cup {"none"}] /\ attached \in [Names -> Flags]
    BY DEF SeriesIInv, TypeOK
  <1> QED  BY <1>1 DEF BootstrapEffect, Without, Kinds, Flags

LEMMA BootstrapStep ==
  ASSUME SeriesIInv, BootstrapIndex
  PROVE  SeriesIInv'
  <1>1. /\ UNCHANGED <<config, tfstate, refreshed, victims, sighted, budget>>
        /\ StartDiscovery /\ BootstrapEffect /\ op' = "readback" /\ previous' = {} /\ pc = "bootstrap"
    BY DEF BootstrapIndex
  <1>2. WorldType' /\ sighted \subseteq Names
    BY <1>1, EffectTypes DEF WorldType, SeriesIInv, TypeOK
  <1>3. victims = {}
    BY <1>1 DEF SeriesIInv, PassInv
  <1>4. config # NoConfig
    BY <1>1 DEF SeriesIInv, CallInv
  <1> QED  BY <1>1, <1>2, <1>3, <1>4, DiscoveryStep

\* The alias has no members.
LEMMA AliasAbsentStep ==
  ASSUME SeriesIInv, AliasAbsent
  PROVE  SeriesIInv'
  <1>1. pc = "fetch" /\ UNCHANGED <<target, attached, config, budget>>
    BY DEF AliasAbsent
  <1>2. CASE op \in {"read", "delete"} /\ EndCall /\ tfstate' = NoState /\ refreshed' = (op = "read")
    <2>1. refreshed' \in BOOLEAN
      BY <1>2, Zenon
    <2>2. WorldType'
      BY <1>1, <1>2, <2>1 DEF WorldType, SeriesIInv, TypeOK
    <2> QED  BY <1>2, <2>2, EndCallStep
  <1>3. CASE Fail
    BY <1>1, <1>3, FailStep DEF SeriesIInv, TypeOK
  <1>4. CASE /\ op = "create" /\ pc' = "bootstrap"
             /\ UNCHANGED <<tfstate, refreshed, op, view, kind, previous, victims, sighted>>
    <2>1. TypeOK'
      BY <1>1, <1>4 DEF SeriesIInv, TypeOK
    <2>2. PassInv' /\ CallInv' /\ VictimsWereSeen' /\ SightedInv'
      BY <1>1, <1>4 DEF SeriesIInv, PassInv, CallInv, VictimsWereSeen, SightedInv
    <2> QED  BY <2>1, <2>2 DEF SeriesIInv
  <1> QED  BY <1>2, <1>3, <1>4 DEF AliasAbsent

\* Calls that end with error diagnostics, whatever their last request has done.
LEMMA FailSteps ==
  ASSUME SeriesIInv, Unresolvable \/ BootstrapRefused \/ RejectDataStreamTargets \/ CallFails
  PROVE  SeriesIInv'
  <1>1. Fail /\ UNCHANGED config /\ (UNCHANGED budget \/ Spend("faults", MaxFaults))
    BY DEF Unresolvable, BootstrapRefused, RejectDataStreamTargets, CallFails
  <1>2. UNCHANGED <<target, attached>> \/ BootstrapEffect \/ \E n \in victims : Without(n)
    BY DEF Unresolvable, BootstrapRefused, RejectDataStreamTargets, CallFails
  <1>3. victims \subseteq Names /\ target \in [Names -> Kinds \cup {"none"}] /\ attached \in [Names -> Flags]
    BY DEF SeriesIInv, TypeOK
  <1>4. target' \in [Names -> Kinds \cup {"none"}] /\ attached' \in [Names -> Flags]
    BY <1>2, <1>3, EffectTypes
  <1> QED  BY <1>1, <1>4, FailStep

\* A create adopts the alias or fails.
LEMMA AdoptStep ==
  ASSUME SeriesIInv, Adopt
  PROVE  SeriesIInv'
  <1>1. UNCHANGED <<target, attached, config, budget>> /\ op = "create" /\ pc = "resolve"
    BY DEF Adopt, Settled, Resolved
  <1>2. CASE Fail
    BY <1>1, <1>2, FailStep DEF SeriesIInv, TypeOK
  <1>3. CASE /\ op' = "readback" /\ StartDiscovery /\ previous' = {} /\ sighted' = {}
             /\ UNCHANGED <<tfstate, refreshed, victims>>
    <2>1. WorldType'
      BY <1>1, <1>3 DEF WorldType, SeriesIInv, TypeOK
    <2>2. victims = {} /\ config # NoConfig
      BY <1>1 DEF SeriesIInv, PassInv, CallInv
    <2> QED  BY <1>1, <1>3, <2>1, <2>2, DiscoveryStep
  <1> QED  BY <1>2, <1>3 DEF Adopt

\* What was observed is saved with the protection that the call stands for.
LEMMA SaveObservedStep ==
  ASSUME SeriesIInv, SaveObserved
  PROVE  SeriesIInv' /\ tfstate' \in States
  <1>1. /\ UNCHANGED <<target, attached, config, budget>> /\ EndCall
        /\ op \in {"read", "import", "update", "readback"} /\ Settled /\ ~SawDataStream
    BY DEF SaveObserved
  <1>2. EffectiveWriter \in Names \cup {NoWriter} /\ SeriesMembers \subseteq Names
    BY <1>1, WriterType, SettledMembers DEF SeriesIInv
  <1> DEFINE protection == CASE op = "read"   -> tfstate.protected
                             [] op = "import" -> TRUE
                             [] OTHER         -> config
  <1>3. protection \in BOOLEAN
    <2>1. CASE op = "read"
      <3>1. tfstate \in States
        BY <2>1 DEF SeriesIInv, CallInv, TypeOK
      <3> QED  BY <2>1, <3>1 DEF States
    <2>2. CASE op = "import"
      BY <2>2
    <2>3. CASE op \in {"update", "readback"}
      <3>1. config \in BOOLEAN
        BY <2>3 DEF SeriesIInv, CallInv, TypeOK
      <3> QED  BY <2>3, <3>1
    <2> QED  BY <1>1, <2>1, <2>2, <2>3
  <1>4. /\ tfstate' = [protected |-> protection, writer |-> EffectiveWriter, indices |-> SeriesMembers]
        /\ refreshed' = (op \in {"read", "import"})
    BY DEF SaveObserved
  <1> HIDE DEF protection
  <1>5. tfstate' \in States
    BY <1>2, <1>3, <1>4 DEF States
  <1>6. refreshed' \in BOOLEAN
    <2> DEFINE fresh == op \in {"read", "import"}
    <2>1. refreshed' = fresh
      BY <1>4
    <2>2. fresh \in BOOLEAN
      OBVIOUS
    <2> HIDE DEF fresh
    <2> QED  BY <2>1, <2>2
  <1>7. WorldType'
    BY <1>1, <1>5, <1>6 DEF WorldType, SeriesIInv, TypeOK
  <1> QED  BY <1>1, <1>5, <1>7, EndCallStep

\* A pass of a delete takes the members that were just sighted.
LEMMA BeginPassStep ==
  ASSUME SeriesIInv, BeginPass
  PROVE  SeriesIInv'
  <1>1. /\ UNCHANGED <<target, attached, config, tfstate, refreshed, op, view, kind, previous, sighted, budget>>
        /\ op = "delete" /\ pc' = "remove" /\ victims' = SeriesMembers /\ Settled /\ ~SawDataStream
    BY DEF BeginPass
  <1>2. SeriesMembers \subseteq sighted /\ SeriesMembers \subseteq Names
    BY <1>1, SettledMembers
  <1>3. TypeOK'
    BY <1>1, <1>2 DEF SeriesIInv, TypeOK
  <1>4. PassInv' /\ CallInv' /\ VictimsWereSeen' /\ SightedInv'
    BY <1>1, <1>2 DEF SeriesIInv, PassInv, CallInv, VictimsWereSeen, SightedInv
  <1> QED  BY <1>3, <1>4 DEF SeriesIInv

\* One victim is deleted, was gone already, or is refused.
LEMMA DeleteIndexStep ==
  ASSUME SeriesIInv, NEW n \in Names, DeleteIndex(n)
  PROVE  SeriesIInv'
  <1>1. UNCHANGED <<config, budget>> /\ pc = "remove"
    BY DEF DeleteIndex
  <1>2. CASE Fail /\ UNCHANGED <<target, attached>>
    BY <1>1, <1>2, FailStep DEF SeriesIInv, TypeOK
  <1>3. CASE /\ Without(n) /\ victims' = victims \ {n}
             /\ UNCHANGED <<tfstate, refreshed, op, pc, view, kind, previous, sighted>>
    <2>1. target' \in [Names -> Kinds \cup {"none"}] /\ attached' \in [Names -> Flags]
      BY <1>3, EffectTypes
    <2>2. TypeOK'
      BY <1>1, <1>3, <2>1 DEF SeriesIInv, TypeOK
    <2>3. PassInv' /\ CallInv' /\ VictimsWereSeen' /\ SightedInv'
      BY <1>1, <1>3 DEF SeriesIInv, PassInv, CallInv, VictimsWereSeen, SightedInv
    <2> QED  BY <2>2, <2>3 DEF SeriesIInv
  <1> QED  BY <1>2, <1>3 DEF DeleteIndex

\* Rollovers and other clients, at any point of a call.
LEMMA ActSteps ==
  ASSUME SeriesIInv, Rollover \/ OtherClient
  PROVE  SeriesIInv'
  <1>1. /\ UNCHANGED <<config, tfstate, refreshed, op, pc, view, kind, previous, victims, sighted>>
        /\ Spend("acts", MaxActs)
    BY DEF Rollover, OtherClient, Act, callVars
  <1>2. target' \in [Names -> Kinds \cup {"none"}] /\ attached' \in [Names -> Flags]
    <2>1. target \in [Names -> Kinds \cup {"none"}] /\ attached \in [Names -> Flags]
      BY DEF SeriesIInv, TypeOK
    <2>2. CASE Rollover
      <3>1. PICK n \in Generations :
              /\ target' = [target EXCEPT ![Successor[n]] = "index"]
              /\ attached' = [attached EXCEPT ![n] = "false", ![Successor[n]] = "true"]
        BY <2>2 DEF Rollover
      <3> QED  BY <2>1, <3>1 DEF Kinds, Flags
    <2>3. CASE OtherClient
      <3>1. PICK n \in Names :
              \/ /\ UNCHANGED target
                 /\ attached' = [attached EXCEPT ![n] = IF @ = "no" THEN "false" ELSE "no"]
              \/ Without(n)
              \/ /\ \E k \in Kinds : target' = [target EXCEPT ![n] = k]
                 /\ attached' \in {attached, [attached EXCEPT ![n] = "false"]}
        BY <2>3 DEF OtherClient
      <3>2. CASE UNCHANGED target /\ attached' = [attached EXCEPT ![n] = IF @ = "no" THEN "false" ELSE "no"]
        BY <2>1, <3>2 DEF Flags
      <3>3. CASE Without(n)
        BY <3>3, EffectTypes
      <3>4. CASE /\ \E k \in Kinds : target' = [target EXCEPT ![n] = k]
                 /\ attached' \in {attached, [attached EXCEPT ![n] = "false"]}
        BY <2>1, <3>4 DEF Flags
      <3> QED  BY <3>1, <3>2, <3>3, <3>4
    <2> QED  BY <2>2, <2>3
  <1>3. TypeOK'
    BY <1>1, <1>2, SpendType DEF SeriesIInv, TypeOK
  <1>4. PassInv' /\ CallInv' /\ VictimsWereSeen' /\ SightedInv'
    BY <1>1 DEF SeriesIInv, PassInv, CallInv, VictimsWereSeen, SightedInv
  <1> QED  BY <1>3, <1>4 DEF SeriesIInv

\* The practitioner edits the configuration or runs Terraform again.
LEMMA IdleSteps ==
  ASSUME SeriesIInv, EditConfig \/ NewRun
  PROVE  SeriesIInv'
  <1>1. /\ UNCHANGED <<target, attached, tfstate, op, pc, view, kind, previous, victims, sighted>>
        /\ op = "none" /\ refreshed' = FALSE /\ config' \in BOOLEAN \cup {NoConfig}
        /\ UNCHANGED budget \/ Spend("edits", MaxEdits)
    BY DEF EditConfig, NewRun, callVars, SeriesIInv, TypeOK
  <1>2. TypeOK'
    BY <1>1, SpendType DEF SeriesIInv, TypeOK
  <1>3. PassInv' /\ CallInv' /\ VictimsWereSeen' /\ SightedInv'
    BY <1>1 DEF SeriesIInv, PassInv, CallInv, VictimsWereSeen, SightedInv
  <1> QED  BY <1>2, <1>3 DEF SeriesIInv

(***************************************************************************)
(* The theorems.                                                           *)
(***************************************************************************)

LEMMA SeriesInit ==
  ASSUME Init
  PROVE  SeriesIInv
  <1>1. NoView \in [Names -> Flags] /\ Unresolved \in [Names -> Kinds \cup {"missing", "unresolved"}]
    BY DEF NoView, Unresolved, Flags
  <1>2. target \in [Names -> Kinds \cup {"none"}] /\ attached \in [Names -> Flags]
    BY DEF Init, Kinds, Flags
  <1>3. budget \in [faults : 0 .. MaxFaults, acts : 0 .. MaxActs, edits : 0 .. MaxEdits]
    BY SeriesAssumption DEF Init
  <1>4. TypeOK
    BY <1>1, <1>2, <1>3 DEF Init, TypeOK
  <1>5. PassInv /\ CallInv /\ VictimsWereSeen /\ SightedInv
    BY DEF Init, PassInv, CallInv, VictimsWereSeen, SightedInv, Unresolved
  <1> QED  BY <1>4, <1>5 DEF SeriesIInv

LEMMA SeriesStep ==
  ASSUME SeriesIInv, [Next]_vars
  PROVE  SeriesIInv'
  <1>1. CASE UNCHANGED vars
    BY <1>1 DEF vars, callVars, SeriesIInv, TypeOK, PassInv, CallInv, VictimsWereSeen, SightedInv
  <1>2. CASE Provider
    BY <1>2, BeginSteps, IdleSteps, FetchAliasStep, RediscoverSteps, FailSteps, AliasAbsentStep, BootstrapStep,
       AdoptStep, SaveObservedStep, BeginPassStep, ResolveTargetStep, DeleteIndexStep DEF Provider
  <1> QED  BY <1>1, <1>2, BeginSteps, FailSteps, ActSteps, IdleSteps DEF Next

\* The inductive invariant holds in every state of every behaviour.
THEOREM SeriesIInvariant == Spec => []SeriesIInv
  <1>1. Init => SeriesIInv
    BY SeriesInit
  <1>2. SeriesIInv /\ [Next]_vars => SeriesIInv'
    BY SeriesStep
  <1> QED  BY <1>1, <1>2, PTL DEF Spec

\* deleteSeries asks for the deletion of a name only if discovery, in the same
\* pass, listed it and resolved it to an ordinary index, whatever was attached,
\* rolled over or had disappeared in between.
THEOREM DeletesOnlySighted == Spec => []SeriesInv
  <1>1. SeriesIInv => SeriesInv
    BY DEF SeriesIInv, SeriesInv
  <1> QED  BY <1>1, SeriesIInvariant, PTL

\* Read and delete drop the resource from the state only while the alias has no
\* members.
THEOREM ForgottenWhenAbsent == Spec => ForgottenOnlyIfAbsent
  <1> DEFINE Forget == (tfstate # NoState /\ tfstate' = NoState) => Members(attached) = {}
  <1>1. ASSUME SeriesIInv, Next
        PROVE  Forget
    <2>1. CASE UNCHANGED tfstate
      BY <2>1
    <2>2. CASE AliasAbsent
      BY <2>2 DEF AliasAbsent
    <2>3. CASE SaveObserved
      BY <1>1, <2>3, SaveObservedStep, StatesAssumption
    <2> HIDE DEF Forget
    <2> QED
      BY <1>1, <2>1, <2>2, <2>3
      DEF Next, Provider, BeginRead, BeginCreate, BeginUpdate, BeginDelete, BeginCall, BeginImport, NewRun,
          FetchAlias, Rediscover, Unresolvable, BootstrapIndex, BootstrapRefused, RejectDataStreamTargets, Adopt,
          BeginPass, NextPass, ResolveTarget, DeleteIndex, CallFails, Rollover, OtherClient, Act, EditConfig, Fail
  <1>2. SeriesIInv /\ [Next]_vars => [Forget]_vars
    BY <1>1
  <1> QED  BY <1>2, SeriesIInvariant, PTL DEF Spec, ForgottenOnlyIfAbsent
=============================================================================
