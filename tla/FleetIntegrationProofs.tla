----------------------- MODULE FleetIntegrationProofs -----------------------
(***************************************************************************)
(* Proofs, for every set of resources, spaces and versions and any number  *)
(* of failures, edits and acts of other clients, of the safety properties  *)
(* of the Fleet integration: a resource is dropped only when the package   *)
(* is gone from its space and saved only while it is there, and a destroy  *)
(* that saw the package in other spaces spares them.                       *)
(***************************************************************************)
EXTENDS FleetIntegration, FiniteSetTheorems, TLAPS

(***************************************************************************)
(* The inductive invariant: what Fleet keeps of a package, and what each   *)
(* step of a resource's call knows of its model and of its look.           *)
(***************************************************************************)

\* What is installed, or was, was installed in a space.
PackageOK == pkg.status # "none" => pkg.primary \in Spaces

\* The last conjunct is what makes the uninstall of a destroy without force safe:
\* its look did not see the package in another space.
CallOK(r) ==
  /\ step[r] # "idle" => model[r] # NoState
  /\ step[r] \in {"read", "lookDelete", "deleteAssets", "uninstall"} => model[r] = tfstate[r]
  /\ step[r] \in {"assets", "awaitAssets"} => model[r].space # NoSpace
  /\ step[r] \in {"lookDelete", "deleteAssets"} => model[r].space # NoSpace /\ spaceAware
  /\ step[r] \notin {"deleteAssets", "uninstall"} => looked[r] = {}
  /\ (step[r] = "uninstall" /\ model[r].space \in looked[r] /\ looked[r] # {model[r].space}) => model[r].force

FleetInv == TypeOK /\ PackageOK /\ \A r \in Resources : CallOK(r)

(***************************************************************************)
(* Parts of steps.                                                         *)
(***************************************************************************)

LEMMA NotInstalledType == NotInstalled \in Package /\ NotInstalled.status = "none"
  BY FleetAssumption DEF NotInstalled, Package

LEMMA SpendType ==
  ASSUME TypeOK, Spend("faults", MaxFaults) \/ Spend("acts", MaxActs) \/ Spend("edits", MaxEdits)
  PROVE  budget' \in [faults : 0 .. MaxFaults, acts : 0 .. MaxActs, edits : 0 .. MaxEdits]
  BY FleetAssumption DEF TypeOK, Spend

\* An install leaves a package with a space.
LEMMA InstallType ==
  ASSUME TypeOK, PackageOK, NEW s \in Spaces \cup {NoSpace}, NEW v \in Versions, pkg' \in InstallRequested(s, v)
  PROVE  pkg' \in Package /\ PackageOK'
  <1>1. SpaceOrDefault(s) \in Spaces
    BY FleetAssumption DEF SpaceOrDefault
  <1>2. /\ pkg' \in [status : {"installing", "installed"}, version : {v},
                     primary : {IF pkg.status = "none" THEN SpaceOrDefault(s) ELSE pkg.primary}, others : {pkg.others}]
    BY DEF InstallRequested
  <1>3. (IF pkg.status = "none" THEN SpaceOrDefault(s) ELSE pkg.primary) \in Spaces
    BY <1>1 DEF PackageOK
  <1>4. pkg.others \in SUBSET Spaces
    BY DEF TypeOK, Package
  <1> QED  BY <1>2, <1>3, <1>4 DEF Package, PackageOK

\* What a step of one resource, of Fleet or of another client means for a resource
\* whose call it does not touch.
LEMMA Bystander ==
  ASSUME NEW q \in Resources, CallOK(q),
         UNCHANGED spaceAware,
         step'[q] = step[q] /\ model'[q] = model[q] /\ tfstate'[q] = tfstate[q] /\ looked'[q] = looked[q]
  PROVE  CallOK(q)'
  BY DEF CallOK

\* A call goes on to its next request.
LEMMA GoStep ==
  ASSUME FleetInv, NEW r \in Resources, NEW s \in Steps, NEW m \in Model, NEW l \in SUBSET Spaces,
         Go(r, s), model' = [model EXCEPT ![r] = m], looked' = [looked EXCEPT ![r] = l],
         UNCHANGED <<spaceAware, config, tfstate, budget>>,
         pkg' \in Package, PackageOK', assets' \subseteq Spaces,
         phase' \in [Resources -> {"stale", "planned", "done"}],
         s \in {"read", "lookDelete", "deleteAssets", "uninstall"} => m = tfstate[r],
         s \in {"assets", "awaitAssets", "lookDelete", "deleteAssets"} => m.space # NoSpace,
         s \in {"lookDelete", "deleteAssets"} => spaceAware,
         s \notin {"deleteAssets", "uninstall"} => l = {},
         (s = "uninstall" /\ m.space \in l /\ l # {m.space}) => m.force
  PROVE  FleetInv'
  <1>1. TypeOK /\ m # NoState
    BY FleetAssumption DEF FleetInv
  <1>2. /\ step' \in [Resources -> Steps] /\ model' \in [Resources -> Model \cup {NoState}]
        /\ looked' \in [Resources -> SUBSET Spaces]
        /\ step'[r] = s /\ model'[r] = m /\ looked'[r] = l /\ tfstate'[r] = tfstate[r]
        /\ \A q \in Resources \ {r} : step'[q] = step[q] /\ model'[q] = model[q] /\ looked'[q] = looked[q]
    BY <1>1 DEF TypeOK, Go
  <1>3. CallOK(r)'
    BY <1>1, <1>2 DEF CallOK
  <1>4. ASSUME NEW q \in Resources \ {r}
        PROVE  CallOK(q)'
    BY <1>2, Bystander DEF FleetInv
  <1>5. \A q \in Resources : step'[q] # "idle" => model'[q] # NoState
    BY <1>3, <1>4 DEF CallOK
  <1>6. TypeOK'
    BY <1>1, <1>2, <1>5 DEF TypeOK
  <1> QED  BY <1>3, <1>4, <1>6 DEF FleetInv

\* A call ends.
LEMMA EndStep ==
  ASSUME FleetInv, NEW r \in Resources, NEW p \in {"stale", "planned", "done"}, NEW m \in Model \cup {NoState},
         End(r, p), tfstate' = [tfstate EXCEPT ![r] = m],
         UNCHANGED <<spaceAware, config>>,
         pkg' \in Package, PackageOK', assets' \subseteq Spaces,
         budget' \in [faults : 0 .. MaxFaults, acts : 0 .. MaxActs, edits : 0 .. MaxEdits]
  PROVE  FleetInv'
  <1>1. TypeOK
    BY DEF FleetInv
  <1>2. /\ step' \in [Resources -> Steps] /\ model' \in [Resources -> Model \cup {NoState}]
        /\ looked' \in [Resources -> SUBSET Spaces] /\ phase' \in [Resources -> {"stale", "planned", "done"}]
        /\ tfstate' \in [Resources -> Model \cup {NoState}]
        /\ step'[r] = "idle" /\ looked'[r] = {}
        /\ \A q \in Resources \ {r} :
             step'[q] = step[q] /\ model'[q] = model[q] /\ looked'[q] = looked[q] /\ tfstate'[q] = tfstate[q]
    BY <1>1 DEF TypeOK, End, Go, Steps
  <1>3. CallOK(r)'
    BY <1>2 DEF CallOK
  <1>4. ASSUME NEW q \in Resources \ {r}
        PROVE  CallOK(q)'
    BY <1>2, Bystander DEF FleetInv
  <1>5. \A q \in Resources : step'[q] # "idle" => model'[q] # NoState
    BY <1>3, <1>4 DEF CallOK
  <1>6. TypeOK'
    BY <1>1, <1>2, <1>5 DEF TypeOK
  <1> QED  BY <1>3, <1>4, <1>6 DEF FleetInv

\* A call ends without a result.
LEMMA FailStep ==
  ASSUME FleetInv, NEW r \in Resources, NEW p \in {"stale", "planned", "done"}, End(r, p),
         UNCHANGED <<pkg, assets, spaceAware, config, tfstate>>,
         budget' \in [faults : 0 .. MaxFaults, acts : 0 .. MaxActs, edits : 0 .. MaxEdits]
  PROVE  FleetInv'
  <1>1. tfstate' = [tfstate EXCEPT ![r] = tfstate[r]] /\ tfstate[r] \in Model \cup {NoState}
    BY DEF FleetInv, TypeOK
  <1>2. pkg' \in Package /\ PackageOK' /\ assets' \subseteq Spaces
    BY DEF FleetInv, TypeOK, PackageOK
  <1> QED  BY <1>1, <1>2, EndStep

\* In the middle of a call its model is a model of the resource.
LEMMA ModelType ==
  ASSUME FleetInv, NEW r \in Resources, step[r] # "idle"
  PROVE  /\ model[r] \in Model /\ Scope(r) \in Spaces \cup {NoSpace} /\ model[r].version \in Versions
         /\ model[r].force \in BOOLEAN
         /\ model' = model => model' = [model EXCEPT ![r] = model[r]]
         /\ looked' = looked => looked' = [looked EXCEPT ![r] = looked[r]]
         /\ looked[r] \in SUBSET Spaces
  BY DEF FleetInv, TypeOK, CallOK, Model, Scope

(***************************************************************************)
(* The steps.                                                              *)
(***************************************************************************)

\* A refresh, a write or a destroy begins.
LEMMA BeginSteps ==
  ASSUME FleetInv, NEW r \in Resources, BeginRead(r) \/ BeginWrite(r) \/ BeginDelete(r)
  PROVE  FleetInv'
  <1>1. TypeOK /\ step[r] = "idle" /\ looked[r] = {} /\ CallOK(r)
    BY DEF FleetInv, CallOK, BeginRead, BeginWrite, BeginDelete, HasTurn
  <1>2. /\ UNCHANGED <<pkg, assets, spaceAware, config, tfstate, budget>> /\ looked' = [looked EXCEPT ![r] = {}]
        /\ phase' \in [Resources -> {"stale", "planned", "done"}]
    BY <1>1 DEF BeginRead, BeginWrite, BeginDelete, fleet, TypeOK
  <1>3. pkg' \in Package /\ PackageOK' /\ assets' \subseteq Spaces /\ {} \in SUBSET Spaces
    BY <1>1, <1>2 DEF FleetInv, TypeOK, PackageOK
  <1>4. CASE BeginRead(r)
    <2>1. tfstate[r] \in Model /\ Go(r, "read") /\ model' = [model EXCEPT ![r] = tfstate[r]] /\ "read" \in Steps
      BY <1>1, <1>4 DEF BeginRead, TypeOK, Steps
    <2> QED  BY <1>2, <1>3, <2>1, GoStep
  <1>5. CASE BeginWrite(r)
    <2>1. config[r] # NoConfig
      BY <1>5 DEF BeginWrite, PlannedOp
    <2>2. config[r] \in Model
      BY <1>1, <2>1, FleetAssumption DEF TypeOK
    <2>3. Go(r, "install") /\ model' = [model EXCEPT ![r] = config[r]] /\ "install" \in Steps
      BY <1>5 DEF BeginWrite, Steps
    <2> QED  BY <1>2, <1>3, <2>2, <2>3, GoStep
  <1>6. CASE BeginDelete(r)
    <2> DEFINE s == IF SupportsSpaceAwareIntegration(tfstate[r].space) THEN "lookDelete" ELSE "uninstall"
    <2>1. tfstate[r] # NoState
      BY <1>6 DEF BeginDelete, PlannedOp
    <2>2. tfstate[r] \in Model
      BY <1>1, <2>1 DEF TypeOK
    <2>3. Go(r, s) /\ model' = [model EXCEPT ![r] = tfstate[r]]
      BY <1>6 DEF BeginDelete
    <2>4. s \in {"lookDelete", "uninstall"} /\ (s = "lookDelete" => tfstate[r].space # NoSpace /\ spaceAware)
      BY DEF SupportsSpaceAwareIntegration
    <2>5. s \in Steps
      BY <2>4 DEF Steps
    <2> HIDE DEF s
    <2> QED  BY <1>2, <1>3, <2>2, <2>3, <2>4, <2>5, GoStep
  <1> QED  BY <1>4, <1>5, <1>6

\* The install and the wait for it, the look, the assets and their wait.
LEMMA WriteSteps ==
  ASSUME FleetInv, NEW r \in Resources,
         InstallPackage(r) \/ AwaitInstalled(r) \/ Look(r) \/ InstallKibanaAssets(r) \/ AwaitAssets(r)
  PROVE  FleetInv'
  <1>1. TypeOK /\ PackageOK /\ CallOK(r)
    BY DEF FleetInv
  <1>2. step[r] \in {"install", "awaitInstalled", "look", "assets", "awaitAssets"} /\ looked[r] = {}
    BY <1>1 DEF CallOK, InstallPackage, AwaitInstalled, Look, InstallKibanaAssets, AwaitAssets
  <1>3. /\ model[r] \in Model /\ Scope(r) \in Spaces \cup {NoSpace} /\ model[r].version \in Versions
        /\ model' = model => model' = [model EXCEPT ![r] = model[r]]
        /\ looked' = looked => looked' = [looked EXCEPT ![r] = {}]
        /\ {} \in SUBSET Spaces
    BY <1>2, ModelType
  <1>4. UNCHANGED <<spaceAware, config, tfstate, phase, looked, budget>>
    BY DEF InstallPackage, AwaitInstalled, Look, InstallKibanaAssets, AwaitAssets, fleet
  <1>5. phase' \in [Resources -> {"stale", "planned", "done"}] /\ looked' = [looked EXCEPT ![r] = {}]
    BY <1>1, <1>3, <1>4 DEF TypeOK
  <1>6. CASE InstallPackage(r)
    <2>1. Go(r, "awaitInstalled") /\ "awaitInstalled" \in Steps /\ UNCHANGED <<assets, model>>
      BY <1>6 DEF InstallPackage, Steps
    <2>2. pkg' \in Package /\ PackageOK' /\ assets' \subseteq Spaces
      BY <1>1, <1>3, <1>6, <2>1, InstallType DEF InstallPackage, TypeOK
    <2> QED  BY <1>3, <1>4, <1>5, <2>1, <2>2, GoStep
  <1>7. CASE AwaitInstalled(r)
    <2>1. Go(r, "look") /\ "look" \in Steps /\ UNCHANGED <<pkg, assets, model>>
      BY <1>7 DEF AwaitInstalled, Steps, fleet
    <2>2. pkg' \in Package /\ PackageOK' /\ assets' \subseteq Spaces
      BY <1>1, <2>1 DEF TypeOK, PackageOK
    <2> QED  BY <1>3, <1>4, <1>5, <2>1, <2>2, GoStep
  <1>8. CASE Look(r)
    <2> DEFINE s == AfterLook(r)
               m == [model[r] EXCEPT !.space = IF @ = NoSpace THEN pkg.primary ELSE @]
    <2>1. Go(r, s) /\ UNCHANGED <<pkg, assets>>
      BY <1>8 DEF Look, fleet
    <2>2. model' = [model EXCEPT ![r] = m]
      BY <1>1, <1>8 DEF Look, TypeOK
    <2>3. m \in Model
      BY <1>1, <1>3 DEF TypeOK, Package, Model
    <2>4. s \in {"assets", "readBack"} /\ (s = "assets" => model[r].space # NoSpace)
      BY DEF AfterLook, Scope
    <2>5. s = "assets" => m.space # NoSpace
      BY <1>3, <2>4 DEF Model
    <2>6. s \in Steps
      BY <2>4 DEF Steps
    <2>7. pkg' \in Package /\ PackageOK' /\ assets' \subseteq Spaces
      BY <1>1, <2>1 DEF TypeOK, PackageOK
    <2> HIDE DEF s, m
    <2> QED  BY <1>3, <1>4, <1>5, <2>1, <2>2, <2>3, <2>4, <2>5, <2>6, <2>7, GoStep
  <1>9. CASE InstallKibanaAssets(r)
    <2>1. /\ Go(r, "awaitAssets") /\ "awaitAssets" \in Steps /\ UNCHANGED model
          /\ step[r] = "assets" /\ Scope(r) \in Spaces /\ model[r].space # NoSpace
      BY <1>1, <1>3, <1>9 DEF InstallKibanaAssets, Steps, CallOK, Scope
    <2>2. pkg' \in Package /\ PackageOK' /\ assets' \subseteq Spaces
      <3>1. \/ pkg' = [pkg EXCEPT !.others = @ \cup {Scope(r)}] /\ UNCHANGED assets
            \/ assets' = assets \cup {Scope(r)} /\ UNCHANGED pkg
        BY <1>9 DEF InstallKibanaAssets
      <3> QED  BY <1>1, <2>1, <3>1 DEF TypeOK, Package, PackageOK
    <2> QED  BY <1>3, <1>4, <1>5, <2>1, <2>2, GoStep
  <1>10. CASE AwaitAssets(r)
    <2>1. Go(r, "readBack") /\ "readBack" \in Steps /\ UNCHANGED <<pkg, assets, model>>
      BY <1>10 DEF AwaitAssets, Steps, fleet
    <2>2. pkg' \in Package /\ PackageOK' /\ assets' \subseteq Spaces
      BY <1>1, <2>1 DEF TypeOK, PackageOK
    <2> QED  BY <1>3, <1>4, <1>5, <2>1, <2>2, GoStep
  <1> QED  BY <1>6, <1>7, <1>8, <1>9, <1>10

\* The steps that end a call with an error, or for want of anything to do.
LEMMA FailSteps ==
  ASSUME FleetInv, NEW r \in Resources, AssetsRefused(r) \/ AwaitFails(r) \/ CallFails(r)
  PROVE  FleetInv'
  <1>1. TypeOK
    BY DEF FleetInv
  <1>2. CASE AssetsRefused(r) \/ AwaitFails(r)
    <2>1. End(r, "done") /\ UNCHANGED <<pkg, assets, spaceAware, config, tfstate, budget>>
      BY <1>2 DEF AssetsRefused, AwaitFails, Fail, fleet
    <2> QED  BY <1>1, <2>1, FailStep DEF TypeOK
  <1>3. CASE CallFails(r)
    <2> DEFINE p == IF step[r] = "read" THEN "stale" ELSE "done"
    <2>1. End(r, p) /\ p \in {"stale", "planned", "done"} /\ UNCHANGED <<pkg, assets, spaceAware, config, tfstate>>
      BY <1>3 DEF CallFails, fleet
    <2>2. budget' \in [faults : 0 .. MaxFaults, acts : 0 .. MaxActs, edits : 0 .. MaxEdits]
      BY <1>1, <1>3, SpendType DEF CallFails
    <2> HIDE DEF p
    <2> QED  BY <2>1, <2>2, FailStep
  <1> QED  BY <1>2, <1>3

\* Reads, on their own and after a write.
LEMMA ReadSteps ==
  ASSUME FleetInv, NEW r \in Resources, ReadIntegration(r) \/ ReadNotFound(r) \/ SkipDestroy(r)
  PROVE  FleetInv'
  <1>1. TypeOK /\ PackageOK
    BY DEF FleetInv
  <1>2. /\ UNCHANGED <<pkg, assets, spaceAware, budget>>
        /\ pkg' \in Package /\ PackageOK' /\ assets' \subseteq Spaces
        /\ budget' \in [faults : 0 .. MaxFaults, acts : 0 .. MaxActs, edits : 0 .. MaxEdits]
    BY <1>1 DEF ReadIntegration, ReadNotFound, SkipDestroy, fleet, TypeOK, PackageOK
  <1>3. CASE ReadIntegration(r)
    <2> DEFINE p == IF step[r] = "read" THEN "planned" ELSE "done"
               m == Observed(model[r])
    <2>1. step[r] # "idle" /\ Save(r, m, p) /\ p \in {"stale", "planned", "done"}
      BY <1>3 DEF ReadIntegration
    <2>2. model[r] \in Model
      BY <2>1, ModelType
    <2>3. m \in Model
      BY <1>1, <2>2 DEF Observed, TypeOK, Package, Model
    <2> HIDE DEF m, p
    <2> QED  BY <1>2, <2>1, <2>3, EndStep DEF Save
  <1>4. CASE Save(r, NoState, "planned")
    BY <1>2, <1>4, EndStep DEF Save
  <1>5. CASE Fail(r)
    BY <1>2, <1>5, FailStep DEF Fail
  <1> QED  BY <1>3, <1>4, <1>5 DEF ReadNotFound, SkipDestroy

\* A look that does not find the package in several spaces has seen no other one.
LEMMA LookedAlone ==
  ASSUME TypeOK, NEW s \in Spaces, s \in PackageSpaces, ~IsInstalledInMultipleSpaces(s)
  PROVE  PackageSpaces = {s}
  <1>1. pkg.others \in SUBSET Spaces /\ pkg.primary \in Spaces \cup {NoSpace} /\ NoSpace \notin Spaces
    BY FleetAssumption DEF TypeOK, Package
  <1>2. CASE pkg.primary = s
    BY <1>1, <1>2 DEF IsInstalledInMultipleSpaces, PackageSpaces
  <1>3. CASE pkg.primary # s
    <2>1. s \in pkg.others /\ ~(Cardinality(pkg.others) > 1) /\ pkg.primary = NoSpace
      BY <1>3 DEF IsInstalledInMultipleSpaces, PackageSpaces
    <2>2. IsFiniteSet(pkg.others)
      BY <1>1, FleetAssumption, FS_Subset
    <2>3. Cardinality(pkg.others) \in Nat /\ Cardinality({s}) = 1 /\ IsFiniteSet({s})
      BY <2>2, FS_CardinalityType, FS_Singleton
    <2>4. {s} \subseteq pkg.others /\ Cardinality(pkg.others) <= 1
      BY <2>1, <2>3
    <2>5. Cardinality({s}) <= Cardinality(pkg.others)
      BY <2>2, <2>4, FS_Subset
    <2>6. {s} = pkg.others
      BY <2>2, <2>3, <2>4, <2>5, FS_Subset
    <2> QED  BY <1>1, <2>1, <2>6 DEF PackageSpaces
  <1> QED  BY <1>2, <1>3

\* The look, the requests and the fallback of a destroy.
LEMMA DeleteSteps ==
  ASSUME FleetInv, NEW r \in Resources, LookDelete(r) \/ DeleteKibanaAssets(r) \/ DeleteRejected(r) \/ Uninstall(r)
  PROVE  FleetInv'
  <1>1. TypeOK /\ PackageOK /\ CallOK(r)
    BY DEF FleetInv
  <1>2. step[r] \in {"lookDelete", "deleteAssets", "uninstall"} /\ model[r] = tfstate[r]
    BY <1>1 DEF CallOK, LookDelete, DeleteKibanaAssets, DeleteRejected, Uninstall
  <1>3. /\ model[r] \in Model /\ Scope(r) \in Spaces \cup {NoSpace} /\ looked[r] \in SUBSET Spaces
        /\ model' = model => model' = [model EXCEPT ![r] = model[r]]
        /\ looked' = looked => looked' = [looked EXCEPT ![r] = looked[r]]
    BY <1>2, ModelType
  <1>4. CASE LookDelete(r)
    <2> DEFINE s == IF IsInstalledInMultipleSpaces(Scope(r)) THEN "deleteAssets" ELSE "uninstall"
               l == PackageSpaces
    <2>1. /\ Go(r, s) /\ looked' = [looked EXCEPT ![r] = l] /\ step[r] = "lookDelete"
          /\ UNCHANGED <<pkg, assets, spaceAware, config, tfstate, phase, model, budget>>
      BY <1>4 DEF LookDelete, fleet
    <2>2. model[r].space # NoSpace /\ spaceAware /\ Scope(r) = model[r].space
      BY <1>1, <2>1 DEF CallOK, Scope
    <2>3. s \in {"deleteAssets", "uninstall"} /\ (s = "uninstall" => ~IsInstalledInMultipleSpaces(model[r].space))
      BY <2>2
    <2>4. l \in SUBSET Spaces
      BY <1>1 DEF TypeOK, Package, PackageSpaces
    <2>5. (s = "uninstall" /\ model[r].space \in l) => l = {model[r].space}
      BY <1>1, <2>3, <2>4, LookedAlone
    <2>6. pkg' \in Package /\ PackageOK' /\ assets' \subseteq Spaces /\ phase' \in [Resources -> {"stale", "planned", "done"}]
      BY <1>1, <2>1 DEF TypeOK, PackageOK
    <2>7. s \in Steps
      BY <2>3 DEF Steps
    <2> HIDE DEF s, l
    <2> QED  BY <1>2, <1>3, <2>1, <2>2, <2>3, <2>4, <2>5, <2>6, <2>7, GoStep
  <1>5. CASE DeleteKibanaAssets(r)
    <2>1. Save(r, NoState, "planned") /\ UNCHANGED <<spaceAware, budget>>
      BY <1>5 DEF DeleteKibanaAssets
    <2>2. pkg' = [pkg EXCEPT !.others = @ \ {Scope(r)}] /\ assets' = assets \ {Scope(r)}
      BY <1>5 DEF DeleteKibanaAssets
    <2>3. pkg' \in Package /\ PackageOK' /\ assets' \subseteq Spaces
      BY <1>1, <2>2 DEF TypeOK, Package, PackageOK
    <2> QED  BY <1>1, <2>1, <2>3, EndStep DEF Save, TypeOK
  <1>6. CASE Uninstall(r)
    <2>1. Save(r, NoState, "planned") /\ UNCHANGED <<spaceAware, budget>>
      BY <1>6 DEF Uninstall
    <2>2. pkg' \in Package /\ PackageOK' /\ assets' \subseteq Spaces
      BY <1>6, NotInstalledType DEF Uninstall, PackageOK
    <2> QED  BY <1>1, <2>1, <2>2, EndStep DEF Save, TypeOK
  <1>7. CASE DeleteRejected(r)
    <2>1. UNCHANGED <<pkg, assets, spaceAware, budget>>
      BY <1>7 DEF DeleteRejected, fleet
    <2>2. CASE model[r].force /\ Go(r, "uninstall") /\ UNCHANGED <<config, tfstate, phase, model, looked>>
      <3>1. pkg' \in Package /\ PackageOK' /\ assets' \subseteq Spaces /\ phase' \in [Resources -> {"stale", "planned", "done"}]
        BY <1>1, <2>1, <2>2 DEF TypeOK, PackageOK
      <3>2. "uninstall" \in Steps
        BY DEF Steps
      <3> QED  BY <1>2, <1>3, <2>1, <2>2, <3>1, <3>2, GoStep
    <2>3. CASE Fail(r)
      BY <1>1, <2>1, <2>3, FailStep DEF Fail, TypeOK
    <2> QED  BY <1>7, <2>2, <2>3 DEF DeleteRejected, Fallback
  <1> QED  BY <1>4, <1>5, <1>6, <1>7

\* Fleet, its other clients and the practitioner.
LEMMA EnvironmentSteps ==
  ASSUME FleetInv, NewRun \/ EditConfig \/ FleetMoves \/ InstallFails \/ OtherClient \/ UNCHANGED vars
  PROVE  FleetInv'
  <1>1. TypeOK /\ PackageOK /\ \A r \in Resources : CallOK(r)
    BY DEF FleetInv
  <1>2. UNCHANGED <<spaceAware, tfstate, step, model, looked>>
    BY DEF NewRun, EditConfig, FleetMoves, InstallFails, OtherClient, vars, fleet
  <1>3. \A r \in Resources : CallOK(r)'
    BY <1>1, <1>2, Bystander
  <1>4. config' \in Configs
    BY <1>1 DEF NewRun, EditConfig, FleetMoves, InstallFails, OtherClient, vars, TypeOK
  <1>5. phase' \in [Resources -> {"stale", "planned", "done"}]
    BY <1>1 DEF NewRun, EditConfig, FleetMoves, InstallFails, OtherClient, vars, TypeOK
  <1>6. budget' \in [faults : 0 .. MaxFaults, acts : 0 .. MaxActs, edits : 0 .. MaxEdits]
    <2>1. CASE UNCHANGED budget
      BY <1>1, <2>1 DEF TypeOK
    <2>2. CASE EditConfig \/ InstallFails \/ OtherClient
      BY <1>1, <2>2, SpendType DEF EditConfig, InstallFails, OtherClient
    <2> QED  BY <2>1, <2>2 DEF NewRun, FleetMoves, vars
  <1>7. pkg' \in Package /\ PackageOK' /\ assets' \subseteq Spaces
    <2>1. CASE UNCHANGED <<pkg, assets>>
      BY <1>1, <2>1 DEF TypeOK, PackageOK
    <2>2. CASE FleetMoves
      <3>1. \/ pkg.status = "installing" /\ pkg' = [pkg EXCEPT !.status = "installed"] /\ UNCHANGED assets
            \/ \E s \in assets : pkg' = [pkg EXCEPT !.others = @ \cup {s}] /\ assets' = assets \ {s}
        BY <2>2 DEF FleetMoves
      <3>2. assets' \subseteq Spaces
        BY <1>1, <3>1 DEF TypeOK
      <3>3. pkg' \in Package
        BY <1>1, <3>1 DEF TypeOK, Package
      <3>4. pkg'.primary = pkg.primary /\ (pkg'.status # "none" => pkg.status # "none")
        BY <1>1, <3>1 DEF TypeOK, Package
      <3> QED  BY <1>1, <3>2, <3>3, <3>4 DEF PackageOK
    <2>3. CASE InstallFails
      <3>1. pkg.status = "installing" /\ pkg' = [pkg EXCEPT !.status = "failed"] /\ UNCHANGED assets
        BY <2>3 DEF InstallFails
      <3> QED  BY <1>1, <3>1 DEF TypeOK, Package, PackageOK
    <2>4. CASE OtherClient
      <3>1. CASE pkg' = NotInstalled /\ assets' = {}
        BY <3>1, NotInstalledType DEF PackageOK
      <3>2. CASE \E s \in pkg.others : pkg' = [pkg EXCEPT !.others = @ \ {s}] /\ UNCHANGED assets
        BY <1>1, <3>2 DEF TypeOK, Package, PackageOK
      <3>3. CASE \E s \in Spaces, v \in Versions : pkg' \in InstallRequested(s, v) /\ UNCHANGED assets
        BY <1>1, <3>3, InstallType DEF TypeOK
      <3> QED  BY <2>4, <3>1, <3>2, <3>3 DEF OtherClient
    <2> QED  BY <2>1, <2>2, <2>3, <2>4 DEF NewRun, EditConfig, vars, fleet
  <1>8. TypeOK'
    BY <1>1, <1>2, <1>4, <1>5, <1>6, <1>7 DEF TypeOK
  <1> QED  BY <1>3, <1>7, <1>8 DEF FleetInv

(***************************************************************************)
(* The theorems.                                                           *)
(***************************************************************************)

\* The inductive invariant holds in every state of every behaviour: what a destroy
\* knows from its look, and which model each step works on.
THEOREM FleetInvariant == Spec => []FleetInv
  <1>1. Init => FleetInv
    <2> SUFFICES ASSUME Init
                 PROVE  FleetInv
      OBVIOUS
    <2>1. budget \in [faults : 0 .. MaxFaults, acts : 0 .. MaxActs, edits : 0 .. MaxEdits]
      BY FleetAssumption DEF Init
    <2>2. pkg \in Package /\ PackageOK
      BY NotInstalledType DEF Init, PackageOK
    <2>3. TypeOK
      BY <2>1, <2>2 DEF Init, TypeOK, Steps
    <2>4. \A r \in Resources : CallOK(r)
      BY DEF Init, CallOK
    <2> QED  BY <2>2, <2>3, <2>4 DEF FleetInv
  <1>2. FleetInv /\ [Next]_vars => FleetInv'
    BY BeginSteps, WriteSteps, FailSteps, ReadSteps, DeleteSteps, EnvironmentSteps DEF Next, ProviderSteps
  <1> QED  BY <1>1, <1>2, PTL DEF Spec

\* The steps that change what the state file says of a resource: all of them are
\* steps of its own call.
LEMMA StateChanges ==
  ASSUME FleetInv, Next, NEW r \in Resources, tfstate'[r] # tfstate[r]
  PROVE  \/ SkipDestroy(r) \/ DeleteKibanaAssets(r) \/ Uninstall(r)
         \/ ReadIntegration(r) \/ (step[r] = "read" /\ ReadNotFound(r))
  <1>1. tfstate \in [Resources -> Model \cup {NoState}]
    BY DEF FleetInv, TypeOK
  <1>2. ASSUME NEW q \in Resources, NEW m, NEW p, Save(q, m, p)
        PROVE  q = r
    BY <1>1, <1>2 DEF Save
  <1>3. CASE UNCHANGED tfstate
    BY <1>3
  <1>4. ASSUME NEW q \in Resources,
               SkipDestroy(q) \/ DeleteKibanaAssets(q) \/ Uninstall(q) \/ ReadIntegration(q) \/ ReadNotFound(q)
        PROVE  q = r /\ (ReadNotFound(q) => step[q] = "read")
    <2>1. (\E m, p : Save(q, m, p)) /\ (ReadNotFound(q) => step[q] = "read")
      BY <1>3, <1>4 DEF SkipDestroy, DeleteKibanaAssets, Uninstall, ReadIntegration, ReadNotFound, Fail
    <2> QED  BY <1>2, <2>1
  <1>5. ASSUME NEW q \in Resources, ProviderSteps(q)
        PROVE  \/ SkipDestroy(q) \/ DeleteKibanaAssets(q) \/ Uninstall(q) \/ ReadIntegration(q) \/ ReadNotFound(q)
               \/ UNCHANGED tfstate
    BY <1>5 DEF ProviderSteps, BeginRead, BeginWrite, BeginDelete, InstallPackage, AwaitInstalled, Look,
       InstallKibanaAssets, AssetsRefused, AwaitAssets, AwaitFails, LookDelete, DeleteRejected, Fallback, Fail
  <1> QED  BY <1>3, <1>4, <1>5 DEF Next, CallFails, NewRun, EditConfig, FleetMoves, InstallFails, OtherClient

\* A resource that leaves the state without skip_destroy is not found afterwards.
LEMMA ForgottenIsLost ==
  ASSUME FleetInv, Next, NEW r \in Resources, Forgets(r), NEW m, m = tfstate[r], ~m.skip
  PROVE  Lost(m)
  <1>1. TypeOK /\ CallOK(r) /\ tfstate'[r] # tfstate[r] /\ tfstate'[r] = NoState /\ m \in Model
    BY DEF FleetInv, Forgets, TypeOK
  <1>2. ~SkipDestroy(r)
    BY DEF SkipDestroy
  <1>3. CASE DeleteKibanaAssets(r)
    <2>1. model[r] = m /\ m.space # NoSpace /\ spaceAware /\ spaceAware' = spaceAware /\ Scope(r) = m.space
      BY <1>1, <1>3 DEF DeleteKibanaAssets, CallOK, Scope
    <2>2. pkg' = [pkg EXCEPT !.others = @ \ {m.space}] /\ (pkg.status = "none" \/ pkg.primary # m.space)
      BY <1>3, <2>1 DEF DeleteKibanaAssets, InstallSpaceRejected
    <2>3. pkg'.status = pkg.status /\ pkg'.primary = pkg.primary /\ m.space \notin pkg'.others
      BY <1>1, <2>2 DEF TypeOK, Package
    <2>4. ~FleetPackageInstalledInSpace(m.space)'
      BY <2>2, <2>3 DEF FleetPackageInstalledInSpace, IsPackageInstalled, PackageSpaces
    <2> QED  BY <2>1, <2>4 DEF Lost, Found, SupportsSpaceAwareIntegration
  <1>4. CASE Uninstall(r)
    <2>1. pkg'.status = "none"
      BY <1>4, NotInstalledType DEF Uninstall
    <2> QED  BY <2>1 DEF Lost, Found, FleetPackageInstalledInSpace, IsPackageInstalled
  <1>5. CASE ReadIntegration(r)
    <2>1. step[r] # "idle" /\ tfstate'[r] = Observed(model[r])
      BY <1>1, <1>5 DEF ReadIntegration, Save, TypeOK
    <2>2. model[r] \in Model
      BY <2>1, ModelType
    <2>3. Observed(model[r]) \in Model
      BY <1>1, <2>2 DEF Observed, TypeOK, Package, Model
    <2> QED  BY <1>1, <2>1, <2>3, FleetAssumption
  <1>6. CASE step[r] = "read" /\ ReadNotFound(r)
    <2>1. model[r] = m /\ ~Found(m) /\ UNCHANGED <<pkg, spaceAware>>
      BY <1>1, <1>6 DEF ReadNotFound, CallOK, fleet
    <2> QED
      BY <2>1 DEF Lost, Found, SupportsSpaceAwareIntegration, FleetPackageInstalledInSpace, IsPackageInstalled,
         PackageSpaces
  <1> QED  BY <1>1, <1>2, <1>3, <1>4, <1>5, <1>6, StateChanges

\* A resource is saved by a read that found it, with the space it was found in.
LEMMA SavedIsFound ==
  ASSUME FleetInv, Next, NEW r \in Resources, tfstate'[r] \notin {tfstate[r], NoState}
  PROVE  IsPackageInstalled /\ (spaceAware => tfstate'[r].space \in PackageSpaces)
  <1>1. TypeOK /\ PackageOK
    BY DEF FleetInv
  <1>2. ReadIntegration(r)
    <2>1. ASSUME Save(r, NoState, "planned")
          PROVE  FALSE
      BY <1>1, <2>1 DEF Save, TypeOK
    <2>2. (step[r] = "read" /\ ReadNotFound(r)) => Save(r, NoState, "planned")
      BY DEF ReadNotFound
    <2>3. SkipDestroy(r) \/ DeleteKibanaAssets(r) \/ Uninstall(r) => Save(r, NoState, "planned")
      BY DEF SkipDestroy, DeleteKibanaAssets, Uninstall
    <2> QED  BY <2>1, <2>2, <2>3, StateChanges
  <1>3. model[r] \in Model /\ Found(model[r]) /\ tfstate'[r] = Observed(model[r])
    BY <1>1, <1>2, ModelType DEF ReadIntegration, Save, TypeOK
  <1>4. IsPackageInstalled
    BY <1>3 DEF Found, FleetPackageInstalledInSpace
  <1>5. Observed(model[r]).space = IF model[r].space = NoSpace THEN pkg.primary ELSE model[r].space
    BY <1>3 DEF Observed, Model
  <1>6. ASSUME spaceAware
        PROVE  tfstate'[r].space \in PackageSpaces
    <2>1. CASE model[r].space = NoSpace
      BY <1>1, <1>3, <1>4, <1>5, <2>1, FleetAssumption DEF PackageOK, IsPackageInstalled, PackageSpaces
    <2>2. CASE model[r].space # NoSpace
      BY <1>3, <1>5, <1>6, <2>2 DEF Found, SupportsSpaceAwareIntegration, FleetPackageInstalledInSpace
    <2> QED  BY <2>1, <2>2
  <1> QED  BY <1>4, <1>6

\* A resource leaves the state only when the package is gone from its space, unless
\* it was told to leave the package alone, and is saved only while the package is
\* installed in the space that the state names.
THEOREM StateTellsTruth == Spec => StateIsTruthful
  <1> DEFINE Gone == \A r \in Resources : Forgets(r) => \E m \in {tfstate[r]} : Lost(m) \/ m.skip
             There == \A r \in Resources :
                        tfstate'[r] \notin {tfstate[r], NoState} =>
                          IsPackageInstalled /\ (spaceAware => tfstate'[r].space \in PackageSpaces)
  <1>1. ASSUME FleetInv, Next
        PROVE  Gone
    <2> SUFFICES ASSUME NEW r \in Resources, Forgets(r)
                 PROVE  \E m \in {tfstate[r]} : Lost(m) \/ m.skip
      OBVIOUS
    <2>1. PICK m : m = tfstate[r]
      OBVIOUS
    <2>2. Lost(m) \/ m.skip
      BY <1>1, <2>1, ForgottenIsLost
    <2> QED  BY <2>1, <2>2
  <1>2. ASSUME FleetInv, Next
        PROVE  There
    BY <1>2, SavedIsFound
  <1>3. FleetInv /\ [Next]_vars => [Gone]_vars /\ [There]_vars
    BY <1>1, <1>2
  <1>4. Spec => []TypeOK
    <2>1. FleetInv => TypeOK
      BY DEF FleetInv
    <2> QED  BY <2>1, FleetInvariant, PTL
  <1>5. Spec => ForgottenOnlyIfGone
    BY <1>3, FleetInvariant, PTL DEF Spec, ForgottenOnlyIfGone
  <1>6. Spec => SavedIsInSpace
    BY <1>3, FleetInvariant, PTL DEF Spec, SavedIsInSpace
  <1> QED  BY <1>4, <1>5, <1>6 DEF StateIsTruthful

\* A destroy without force, whose look found the package in the space of the
\* resource and in others, leaves the package in every other space.
THEOREM PeersSurvive == Spec => SeenPeersSurvive
  <1> DEFINE Spares == \A r \in Resources :
                         /\ Forgets(r) /\ ~tfstate[r].force
                         /\ tfstate[r].space \in looked[r] /\ looked[r] # {tfstate[r].space}
                         => PackageSpaces \ {tfstate[r].space} \subseteq PackageSpaces'
  <1>1. ASSUME FleetInv, Next, NEW r \in Resources, Forgets(r), ~tfstate[r].force,
               tfstate[r].space \in looked[r], looked[r] # {tfstate[r].space}
        PROVE  PackageSpaces \ {tfstate[r].space} \subseteq PackageSpaces'
    <2>1. TypeOK /\ CallOK(r) /\ tfstate'[r] # tfstate[r]
      BY <1>1 DEF FleetInv, Forgets
    <2>2. step[r] \in {"deleteAssets", "uninstall"} /\ model[r] = tfstate[r]
      BY <1>1, <2>1 DEF CallOK
    <2>3. ~Uninstall(r)
      BY <1>1, <2>1, <2>2 DEF CallOK, Uninstall
    <2>4. DeleteKibanaAssets(r)
      BY <1>1, <2>1, <2>2, <2>3, StateChanges DEF SkipDestroy, HasTurn, ReadIntegration
    <2>5. pkg' = [pkg EXCEPT !.others = @ \ {tfstate[r].space}]
      BY <2>2, <2>4 DEF DeleteKibanaAssets, Scope
    <2>6. pkg'.primary = pkg.primary /\ pkg'.others = pkg.others \ {tfstate[r].space}
      BY <2>1, <2>5 DEF TypeOK, Package
    <2> QED  BY <2>6 DEF PackageSpaces
  <1>2. FleetInv /\ [Next]_vars => [Spares]_vars
    BY <1>1
  <1> QED  BY <1>2, FleetInvariant, PTL DEF Spec, SeenPeersSurvive
=============================================================================
