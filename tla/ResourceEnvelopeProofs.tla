----------------------- MODULE ResourceEnvelopeProofs -----------------------
(***************************************************************************)
(* Proofs, for every set of kinds, spaces, identifiers and contents and    *)
(* any number of failures, edits and changes by other clients, of the      *)
(* safety properties of the resource envelope: the state always addresses  *)
(* the object that was created or imported, read-after-write reads what    *)
(* was written, no object is changed but the tracked one, and none that a  *)
(* create has made is forgotten without an error.                          *)
(***************************************************************************)
EXTENDS ResourceEnvelope, SequenceTheorems, TLAPS

(***************************************************************************)
(* The inductive invariant: by which identifiers a model says its object,  *)
(* how far each call has got, and where the objects that were made are.    *)
(***************************************************************************)

\* The composite id under which an object is saved.
CompositeOf(o) == CompositeString([ClusterID |-> Prefix(o.space), ResourceID |-> o.resource])

\* The model m is about the object o; an Elasticsearch object may have been
\* imported by its plain identifier.
Addresses(m, o) ==
  /\ m.id = CompositeOf(o)
       \/ (kind.backend = "elasticsearch" /\ m.id = o.resource /\ Len(o.resource) = 1)
  /\ m.resourceID = o.resource
  /\ m.spaceID = IF kind.backend = "kibana" THEN o.space ELSE Null

StateInv ==
  IF tfstate = NoState THEN tracked = NoObject
  ELSE tracked \in ObjectsOf(kind) /\ Addresses(tfstate, tracked)

PlanInv ==
  /\ plan \in Model
  /\ op = "create" =>
       /\ tfstate = NoState
       /\ plan.spaceID \in SpacesOf(kind) /\ plan.id = Unknown
       /\ plan.resourceID \in IF kind.generated THEN {Unknown} ELSE Names
  /\ op = "update" =>
       /\ tfstate # NoState
       /\ plan.spaceID = tfstate.spaceID
       /\ plan.id \in {tfstate.id} \cup (IF kind.backend = "kibana" THEN {Unknown} ELSE {})
       /\ plan.resourceID \in {tfstate.resourceID}
            \cup (IF kind.backend = "kibana" /\ plan.id = Unknown THEN {Unknown} ELSE {})

\* What the write is addressed to.
KeyInv ==
  /\ op = "create" =>
       /\ key.space \in SpacesOf(kind) /\ (kind.backend = "kibana" => key.space = plan.spaceID)
       /\ key.resource \in Resources \cup {EmptyStr}
  /\ op = "update" => key = tracked

\* What has been written.
HitInv ==
  /\ hit \in ObjectsOf(kind) /\ written \in Model /\ Addresses(written, hit)
  /\ hit.space = key.space /\ (key.resource # EmptyStr => hit = key)

CallInv ==
  /\ (op = "idle") <=> (step = "none")
  /\ op # "idle" => PlanInv
  /\ step \in {"write", "readback", "postread"} => KeyInv
  /\ IF step \in {"readback", "postread"} THEN HitInv ELSE hit = NoObject

\* Whatever was made exists, and is in the state, in the hands of the create
\* that made it, or part of one that ended with an error.
MadeInv ==
  \A o \in made : /\ remote[o] # Absent
                  /\ o = tracked \/ o \in reported \/ (op = "create" /\ o = hit)

EnvelopeInv == TypeOK /\ StateInv /\ CallInv /\ MadeInv

(***************************************************************************)
(* Identifiers.                                                            *)
(***************************************************************************)

\* A sequence of one segment.
LEMMA OneSegment ==
  ASSUME NEW c \in Seq(STRING), Len(c) = 1
  PROVE  c = <<c[1]>> /\ c[1] \in STRING
  <1>1. c[1] \in STRING
    OBVIOUS
  <1>2. <<c[1]>> \in Seq(STRING) /\ Len(<<c[1]>>) = 1 /\ <<c[1]>>[1] = c[1]
    BY <1>1
  <1> QED  BY <1>1, <1>2, SeqEqual

\* CompositeIDFromStr undoes CompositeID.String, slashes in the resource or not.
LEMMA CompositeRoundTrip ==
  ASSUME NEW c \in Seq(STRING), Len(c) = 1,
         NEW n \in Seq(STRING), n # <<>>, n # EmptyStr
  PROVE  /\ c \o n \in Seq(STRING)
         /\ CompositeIDFromStr(c \o n) = [ClusterID |-> c, ResourceID |-> n]
         /\ CompositeIDFromStr(c \o n) # Nil
  <1>1. c \o n \in Seq(STRING) /\ Len(c \o n) = 1 + Len(n) /\ Len(n) \in Nat /\ Len(n) >= 1
    <2>1. Len(n) \in Nat \ {0}
      BY EmptySeq, Zenon
    <2>2. c \o n \in Seq(STRING) /\ Len(c \o n) = Len(c) + Len(n)
      BY ConcatProperties, Zenon
    <2> QED  BY <2>1, <2>2
  <1>2. Head(c \o n) = c[1]
    BY <1>1
  <1>3. Tail(c \o n) = n
    <2>1. Tail(c \o n) \in Seq(STRING) /\ Len(Tail(c \o n)) = Len(n)
      BY <1>1
    <2>2. \A i \in 1 .. Len(n) : Tail(c \o n)[i] = n[i]
      <3> TAKE i \in 1 .. Len(n)
      <3>1. i \in 1 .. (Len(c \o n) - 1) /\ i + 1 \in 1 .. Len(c \o n) /\ i + 1 > Len(c) /\ i + 1 - Len(c) = i
        BY <1>1
      <3>2. Tail(c \o n)[i] = (c \o n)[i + 1]
        BY <1>1, <3>1
      <3>3. (c \o n)[i + 1] = n[i]
        BY <1>1, <3>1
      <3> QED  BY <3>2, <3>3
    <2> QED  BY <2>1, <2>2, SeqEqual
  <1>4. <<Head(c \o n)>> = c
    BY <1>2, OneSegment
  <1>5. CompositeIDFromStr(c \o n) = [ClusterID |-> c, ResourceID |-> n]
    <2> DEFINE id == c \o n
    <2>1. ~(Len(id) < 2) /\ Tail(id) = n /\ <<Head(id)>> = c
      BY <1>1, <1>3, <1>4
    <2> HIDE DEF id
    <2>2. CompositeIDFromStr(id) = [ClusterID |-> c, ResourceID |-> n]
      BY <2>1, Zenon DEF CompositeIDFromStr
    <2> QED  BY <2>2 DEF id
  <1> QED  BY <1>1, <1>5, MarkersAssumption

\* A string of one segment is no composite id.
LEMMA PlainIsNil ==
  ASSUME NEW n, Len(n) = 1
  PROVE  CompositeIDFromStr(n) = Nil
  BY DEF CompositeIDFromStr

\* The value of a string attribute.
LEMMA KnownValues ==
  /\ \A v \in Seq(STRING) : IsKnown(v) /\ ValueString(v) = v
  /\ ValueString(Null) = EmptyStr /\ ValueString(Unknown) = EmptyStr
  BY MarkersAssumption DEF IsKnown, ValueString

\* The parts of an object are strings of the right form.
LEMMA ObjectParts ==
  ASSUME kind \in Kinds, NEW o \in ObjectsOf(kind)
  PROVE  /\ kind.backend \in {"elasticsearch", "kibana"}
         /\ o = [space |-> o.space, resource |-> o.resource] /\ o \in Objects
         /\ IF kind.backend = "kibana" THEN o.space \in Spaces ELSE o.space = EmptyStr
         /\ o.resource \in Resources /\ o.resource \in Seq(STRING)
         /\ o.resource \notin {<<>>, <<" ">>, EmptyStr}
         /\ Prefix(o.space) \in Spaces \cup {Cluster}
         /\ Prefix(o.space) \in Seq(STRING) /\ Len(Prefix(o.space)) = 1
         /\ kind.backend = "kibana" => o.space \in Seq(STRING) /\ o.space # EmptyStr
  <1>1. kind.backend \in {"elasticsearch", "kibana"}
    BY KindsAssumption DEF Kind
  <1>2. o = [space |-> o.space, resource |-> o.resource] /\ o.space \in SpacesOf(kind) /\ o.resource \in Resources
    BY DEF ObjectsOf
  <1>3. IF kind.backend = "kibana" THEN o.space \in Spaces ELSE o.space = EmptyStr
    BY <1>2 DEF SpacesOf
  <1>4. o \in Objects
    BY <1>2, <1>3 DEF Objects
  <1>5. Prefix(o.space) \in Spaces \cup {Cluster}
    BY <1>3 DEF Prefix
  <1>6. kind.backend = "kibana" => o.space \in Seq(STRING) /\ o.space # EmptyStr
    BY <1>3, IdentifiersAssumption
  <1> QED  BY <1>1, <1>2, <1>3, <1>4, <1>5, <1>6, IdentifiersAssumption

\* The composite id of an object is parsed into its parts.
LEMMA CompositeParts ==
  ASSUME kind \in Kinds, NEW o \in ObjectsOf(kind)
  PROVE  /\ CompositeOf(o) \in Seq(STRING) /\ CompositeOf(o) \in Strings
         /\ CompositeIDFromStr(CompositeOf(o)) # Nil
         /\ CompositeIDFromStr(CompositeOf(o)) = [ClusterID |-> Prefix(o.space), ResourceID |-> o.resource]
  <1>1. CompositeOf(o) = Prefix(o.space) \o o.resource
    BY DEF CompositeOf, CompositeString
  <1>2. CompositeOf(o) \in Strings
    <2>1. Prefix(o.space) \in Spaces \cup {Cluster} /\ o.resource \in Resources
      BY ObjectParts
    <2> DEFINE Joined == {c \o n : c \in Spaces \cup {Cluster}, n \in Resources}
    <2>2. \A c \in Spaces \cup {Cluster}, n \in Resources : c \o n \in Joined
      OBVIOUS
    <2>3. Joined \subseteq Strings
      BY DEF Strings
    <2> HIDE DEF Joined
    <2> QED  BY <1>1, <2>1, <2>2, <2>3, Zenon
  <1>3. /\ Prefix(o.space) \in Seq(STRING) /\ Len(Prefix(o.space)) = 1
        /\ o.resource \in Seq(STRING) /\ o.resource # <<>> /\ o.resource # EmptyStr
    BY ObjectParts
  <1> HIDE DEF Prefix
  <1> QED  BY <1>1, <1>2, <1>3, CompositeRoundTrip, Zenon

\* TargetOf resolves a model to the object it is about, whether the composite id,
\* the plain id or the attributes say so.
LEMMA TargetOfModel ==
  ASSUME kind \in Kinds, NEW o \in ObjectsOf(kind), NEW m, Addresses(m, o)
  PROVE  TargetOf(m) = o
  <1>1. CASE m.id = CompositeOf(o)
    <2>1. ValueString(m.id) = CompositeOf(o)
      BY <1>1, CompositeParts, KnownValues
    <2>2. CASE kind.backend = "kibana"
      <3>1. TargetOf(m) = [space |-> Prefix(o.space), resource |-> o.resource]
        BY <2>1, <2>2, CompositeParts DEF TargetOf, ResolveKibanaResourceIdentity
      <3> QED  BY <3>1, <2>2, ObjectParts DEF Prefix
    <2>3. CASE kind.backend # "kibana"
      <3>1. ResolveElasticsearchReadResourceID(m, EmptyStr) = o.resource
        BY <2>1, CompositeParts DEF ResolveElasticsearchReadResourceID
      <3> QED  BY <3>1, <2>3, ObjectParts DEF TargetOf
    <2> QED  BY <2>2, <2>3
  <1>2. CASE kind.backend = "elasticsearch" /\ m.id = o.resource /\ Len(o.resource) = 1
    <2>1. CompositeIDFromStr(ValueString(m.id)) = Nil
      BY <1>2, ObjectParts, KnownValues, PlainIsNil
    <2>2. TrimSpace(ValueString(m.resourceID)) = o.resource /\ o.resource # EmptyStr
      BY ObjectParts, KnownValues DEF TrimSpace, Addresses
    <2>3. ResolveElasticsearchReadResourceID(m, EmptyStr) = o.resource
      BY <2>1, <2>2 DEF ResolveElasticsearchReadResourceID
    <2> QED  BY <1>2, <2>3, ObjectParts DEF TargetOf
  <1> QED  BY <1>1, <1>2 DEF Addresses

\* An import resolves either form of the identifier to the object, whichever
\* importer set it.
LEMMA TargetOfImport ==
  ASSUME kind \in Kinds, NEW o \in ObjectsOf(kind), NEW m \in Importer(o)
  PROVE  /\ TargetOf(m) = o
         /\ m.id \in Strings
         /\ m.id = CompositeOf(o) \/ (kind.backend = "elasticsearch" /\ m.id = o.resource /\ Len(o.resource) = 1)
  <1> DEFINE i == m.id
  <1>1. \/ i = CompositeOf(o)
        \/ kind.backend = "elasticsearch" /\ i = o.resource /\ Len(o.resource) = 1 /\ m.resourceID = Null
    BY DEF Importer, ImportIDs, CompositeOf
  <1>2. i \in Strings /\ i \in Seq(STRING)
    <2>1. CompositeOf(o) \in Strings /\ CompositeOf(o) \in Seq(STRING)
      BY CompositeParts
    <2>2. o.resource \in Strings /\ o.resource \in Seq(STRING)
      <3>1. o.resource \in Resources /\ o.resource \in Seq(STRING)
        BY ObjectParts
      <3> QED  BY <3>1 DEF Strings
    <2> QED  BY <1>1, <2>1, <2>2
  <1>4. ValueString(m.id) = i
    BY <1>2, KnownValues
  <1>5. TargetOf(m) = o
    <2>1. CASE i = CompositeOf(o) /\ kind.backend = "kibana"
      <3>1. TargetOf(m) = [space |-> Prefix(o.space), resource |-> o.resource]
        BY <1>4, <2>1, CompositeParts DEF TargetOf, ResolveKibanaResourceIdentity
      <3> QED  BY <3>1, <2>1, ObjectParts DEF Prefix
    <2>2. CASE i = CompositeOf(o) /\ kind.backend # "kibana"
      <3>1. ResolveElasticsearchReadResourceID(m, EmptyStr) = o.resource
        BY <1>4, <2>2, CompositeParts DEF ResolveElasticsearchReadResourceID
      <3> QED  BY <3>1, <2>2, ObjectParts DEF TargetOf
    <2>3. CASE kind.backend = "elasticsearch" /\ i = o.resource /\ Len(o.resource) = 1 /\ m.resourceID = Null
      <3>1. CompositeIDFromStr(i) = Nil
        BY <2>3, PlainIsNil
      <3>2. TrimSpace(i) = i
        BY <2>3, ObjectParts DEF TrimSpace
      <3>4. TrimSpace(ValueString(m.resourceID)) = EmptyStr
        BY <2>3, KnownValues DEF TrimSpace, EmptyStr
      <3>3. ResolveElasticsearchReadResourceID(m, EmptyStr) = o.resource
        BY <1>4, <2>3, <3>1, <3>2, <3>4 DEF ResolveElasticsearchReadResourceID
      <3> QED  BY <2>3, <3>3, ObjectParts DEF TargetOf
    <2> QED  BY <1>1, <2>1, <2>2, <2>3
  <1> QED  BY <1>1, <1>2, <1>5

(***************************************************************************)
(* What the invariant says of the requests of a call.                      *)
(***************************************************************************)

\* A model that addresses an object is wholly known.
LEMMA AddressesKnown ==
  ASSUME kind \in Kinds, NEW o \in ObjectsOf(kind), NEW m, Addresses(m, o)
  PROVE  /\ m.id \in Strings /\ m.id # Unknown /\ m.resourceID \in Resources /\ m.resourceID # Unknown
         /\ m.spaceID \in Strings \cup {Null}
  <1>1. /\ CompositeOf(o) \in Strings /\ CompositeOf(o) # Unknown
        /\ o.resource \in Resources /\ o.resource # Unknown
    BY CompositeParts, ObjectParts, MarkersAssumption
  <1>2. o.resource \in Strings
    BY <1>1 DEF Strings
  <1>3. kind.backend = "kibana" => o.space \in Strings
    <2>1. kind.backend = "kibana" => o.space \in Spaces
      BY ObjectParts
    <2> QED  BY <2>1 DEF Strings
  <1> QED  BY <1>1, <1>2, <1>3 DEF Addresses

\* Read and delete address the tracked object.
LEMMA TargetIsTracked ==
  ASSUME EnvelopeInv, tfstate # NoState
  PROVE  TargetOf(tfstate) = tracked /\ tracked \in Objects /\ tracked \in ObjectsOf(kind)
  <1>1. kind \in Kinds /\ tracked \in ObjectsOf(kind) /\ Addresses(tfstate, tracked)
    BY DEF EnvelopeInv, TypeOK, StateInv
  <1> QED  BY <1>1, TargetOfModel, ObjectParts

\* The write of an update is addressed to the tracked object, also when the plan
\* knows neither the id nor the identifier.
LEMMA UpdateKey ==
  ASSUME EnvelopeInv, op = "update"
  PROVE  WriteIdentity(plan) = tracked
  <1>1. /\ kind \in Kinds /\ tracked \in ObjectsOf(kind) /\ Addresses(tfstate, tracked) /\ PlanInv /\ tfstate # NoState
    BY DEF EnvelopeInv, TypeOK, StateInv, CallInv, PlanInv
  <1>2. /\ plan.spaceID = tfstate.spaceID
        /\ plan.id \in {tfstate.id} \cup (IF kind.backend = "kibana" THEN {Unknown} ELSE {})
        /\ plan.resourceID \in {tfstate.resourceID}
            \cup (IF kind.backend = "kibana" /\ plan.id = Unknown THEN {Unknown} ELSE {})
    BY <1>1 DEF PlanInv
  <1>3. tfstate.resourceID = tracked.resource
    BY <1>1 DEF Addresses
  <1>4. ValueString(tracked.resource) = tracked.resource /\ tracked.resource # EmptyStr
    BY <1>1, ObjectParts, KnownValues
  <1>5. CASE kind.backend = "elasticsearch"
    BY <1>1, <1>2, <1>3, <1>4, <1>5, ObjectParts DEF WriteIdentity
  <1>6. CASE kind.backend = "kibana"
    <2>1. TargetOf(tfstate) = tracked
      BY TargetIsTracked, <1>1
    <2>2. ResolveKibanaResourceIdentity(tfstate) = tracked
      BY <2>1, <1>6 DEF TargetOf
    <2>3. CASE plan.id = tfstate.id
      <3>1. plan.resourceID = tfstate.resourceID
        BY <2>3, <1>1, <1>2, AddressesKnown
      <3>2. ResolveKibanaResourceIdentity(plan) = ResolveKibanaResourceIdentity(tfstate)
        BY <2>3, <3>1, <1>2 DEF ResolveKibanaResourceIdentity
      <3> QED  BY <1>6, <2>2, <3>2 DEF WriteIdentity, KibanaUpdateIdentity
    <2>4. CASE plan.id = Unknown
      <3>1. CompositeIDFromStr(ValueString(plan.id)) = Nil
        <4>1. ValueString(plan.id) = EmptyStr /\ Len(EmptyStr) = 1
          BY <2>4, KnownValues DEF EmptyStr
        <4> QED  BY <4>1, PlainIsNil
      <3>2. ResolveKibanaResourceIdentity(plan) =
              [space |-> ValueString(plan.spaceID), resource |-> ValueString(plan.resourceID)]
        BY <3>1 DEF ResolveKibanaResourceIdentity
      <3>3. ValueString(plan.spaceID) = tracked.space
        BY <1>1, <1>2, <1>6, ObjectParts, KnownValues DEF Addresses
      <3>4. ValueString(plan.resourceID) \in {tracked.resource, EmptyStr}
        BY <1>2, <1>3, <1>4, KnownValues
      <3>5. CASE ValueString(plan.resourceID) = EmptyStr
        BY <1>6, <2>2, <3>2, <3>5 DEF WriteIdentity, KibanaUpdateIdentity
      <3>6. CASE ValueString(plan.resourceID) = tracked.resource
        <4>1. ResolveKibanaResourceIdentity(plan) = tracked
          BY <1>1, <3>2, <3>3, <3>6, ObjectParts
        <4> QED  BY <1>6, <2>2, <4>1 DEF WriteIdentity, KibanaUpdateIdentity
      <3> QED  BY <3>4, <3>5, <3>6
    <2> QED  BY <1>2, <2>3, <2>4
  <1> QED  BY <1>1, <1>5, <1>6, ObjectParts

\* The write of a create is addressed to the configured space and name, if any.
LEMMA CreateKey ==
  ASSUME EnvelopeInv, op = "create"
  PROVE  LET k == WriteIdentity(plan) IN
         /\ k \in [space : Spaces \cup {EmptyStr}, resource : Resources \cup {EmptyStr}]
         /\ k.space \in SpacesOf(kind) /\ (kind.backend = "kibana" => k.space = plan.spaceID)
         /\ k.resource \in Resources \cup {EmptyStr}
  <1>1. /\ kind \in Kinds /\ plan.spaceID \in SpacesOf(kind)
        /\ plan.resourceID \in IF kind.generated THEN {Unknown} ELSE Names
    BY DEF EnvelopeInv, TypeOK, CallInv, PlanInv
  <1>2. ValueString(plan.resourceID) \in Resources \cup {EmptyStr}
    BY <1>1, KnownValues, IdentifiersAssumption DEF Resources
  <1>3. kind.backend = "kibana" => ValueString(plan.spaceID) = plan.spaceID
    BY <1>1, KnownValues, IdentifiersAssumption DEF SpacesOf
  <1>4. kind.backend \in {"elasticsearch", "kibana"}
    BY <1>1, KindsAssumption DEF Kind
  <1> QED  BY <1>1, <1>2, <1>3, <1>4 DEF WriteIdentity, SpacesOf

\* What a write may hit, and the model it returns.
LEMMA WriteHits ==
  ASSUME EnvelopeInv, step = "write", NEW o \in WriteTargets
  PROVE  /\ o \in ObjectsOf(kind) /\ o \in Objects
         /\ o.space = key.space /\ (key.resource # EmptyStr => o = key)
         /\ op \in {"create", "update"} /\ (op = "update" => o = tracked /\ tfstate # NoState)
         /\ plan \in Model /\ plan.content \in Contents
         /\ WrittenModel(o) \in Model /\ Addresses(WrittenModel(o), o)
  <1>1. /\ kind \in Kinds /\ op \in {"create", "update"} /\ PlanInv /\ KeyInv
    BY DEF EnvelopeInv, TypeOK, CallInv
  <1>2. plan \in Model /\ plan.content \in Contents
    BY <1>1 DEF PlanInv, Model
  <1>3. /\ o \in Objects /\ o.space = key.space /\ (key.resource # EmptyStr => o = key)
    BY DEF WriteTargets
  <1>4. op = "update" => tfstate # NoState /\ tracked \in ObjectsOf(kind) /\ key = tracked
    BY <1>1 DEF EnvelopeInv, StateInv, PlanInv, KeyInv
  <1>5. op = "update" => o = tracked
    BY <1>1, <1>3, <1>4, ObjectParts
  <1>6. o \in ObjectsOf(kind)
    <2>1. CASE op = "update"
      BY <2>1, <1>4, <1>5
    <2>2. CASE op = "create"
      <3>1. o.space \in SpacesOf(kind)
        BY <2>2, <1>1, <1>3 DEF KeyInv
      <3>2. o.resource \in Resources /\ o = [space |-> o.space, resource |-> o.resource]
        BY <1>3 DEF Objects
      <3> QED  BY <3>1, <3>2 DEF ObjectsOf
    <2> QED  BY <1>1, <2>1, <2>2
  <1>7. kind.backend = "kibana" => plan.spaceID = o.space
    <2>1. CASE op = "update"
      BY <2>1, <1>1, <1>4, <1>5 DEF EnvelopeInv, StateInv, PlanInv, Addresses
    <2>2. CASE op = "create"
      BY <2>2, <1>1, <1>3 DEF KeyInv
    <2> QED  BY <1>1, <2>1, <2>2
  <1>8. Addresses(WrittenModel(o), o) /\ WrittenModel(o).content = plan.content
    BY <1>7 DEF WrittenModel, Addresses, CompositeOf
  <1>9. WrittenModel(o) \in Model
    <2>1. /\ WrittenModel(o).id \in Strings /\ WrittenModel(o).resourceID \in Resources
          /\ WrittenModel(o).spaceID \in Strings \cup {Null}
      BY <1>1, <1>6, <1>8, AddressesKnown
    <2> QED  BY <1>2, <1>8, <2>1 DEF WrittenModel, Model
  <1> QED  BY <1>1, <1>2, <1>3, <1>4, <1>5, <1>6, <1>8, <1>9

\* Read-after-write reads what was written.
LEMMA ReadBackIsHit ==
  ASSUME EnvelopeInv, step = "readback"
  PROVE  ReadBackTarget = hit /\ hit \in Objects
  <1>1. kind \in Kinds /\ HitInv
    BY DEF EnvelopeInv, TypeOK, CallInv
  <1>2. hit \in ObjectsOf(kind) /\ Addresses(written, hit) /\ (key.resource # EmptyStr => hit = key)
    BY <1>1 DEF HitInv
  <1>3. CASE kind.backend = "kibana"
    <2>1. written.spaceID = hit.space /\ written.resourceID = hit.resource
      BY <1>2, <1>3 DEF Addresses
    <2>2. ValueString(hit.space) = hit.space /\ ValueString(hit.resource) = hit.resource
      BY <1>1, <1>2, <1>3, ObjectParts, KnownValues
    <2> QED  BY <1>1, <1>2, <1>3, <2>1, <2>2, ObjectParts DEF ReadBackTarget
  <1>4. CASE kind.backend # "kibana"
    <2>1. CASE key.resource # EmptyStr
      <3>1. ResolveElasticsearchReadResourceID(written, key.resource) = hit.resource
        BY <1>2, <2>1 DEF ResolveElasticsearchReadResourceID
      <3> QED  BY <1>1, <1>2, <1>4, <3>1, ObjectParts DEF ReadBackTarget
    <2>2. CASE key.resource = EmptyStr
      <3>1. TargetOf(written) = hit
        BY <1>1, <1>2, TargetOfModel
      <3> QED  BY <1>1, <1>2, <1>4, <2>2, <3>1, ObjectParts DEF ReadBackTarget, TargetOf
    <2> QED  BY <2>1, <2>2
  <1> QED  BY <1>1, <1>2, <1>3, <1>4, ObjectParts

(***************************************************************************)
(* The steps.                                                              *)
(***************************************************************************)

\* The bounds are respected.
LEMMA BudgetStep ==
  ASSUME EnvelopeInv, [Next]_vars
  PROVE  faults' \in 0 .. MaxFaults /\ drifts' \in 0 .. MaxDrifts /\ edits' \in 0 .. MaxEdits
  <1>1. /\ faults \in 0 .. MaxFaults /\ drifts \in 0 .. MaxDrifts /\ edits \in 0 .. MaxEdits
        /\ MaxFaults \in Nat /\ MaxDrifts \in Nat /\ MaxEdits \in Nat
    BY EnvelopeAssumption DEF EnvelopeInv, TypeOK
  <1>2. /\ UNCHANGED faults \/ (faults < MaxFaults /\ faults' = faults + 1)
        /\ UNCHANGED drifts \/ (drifts < MaxDrifts /\ drifts' = drifts + 1)
        /\ UNCHANGED edits \/ (edits < MaxEdits /\ edits' = edits + 1)
    BY DEF Next, Provider, Failures, BeginCreate, BeginUpdate, Prepare, PrepareRejects, InvokeWrite,
           InvokeWriteRefused, ReadBack, ReadBackNotFound, Persist, Read, Delete, NewRun, PrepareFails,
           InvokeWriteFails, ReadBackFails, ReadFails, DeleteFails, Killed, Import, EditConfig, Drift,
           Fault, budget, vars
  <1> QED  BY <1>1, <1>2

\* A call that ends with an error keeps the invariant if nothing that was made is
\* left without a report.
LEMMA ErrorStep ==
  ASSUME EnvelopeInv, [Next]_vars, EndWithError, UNCHANGED <<kind, supported, tracked>>,
         remote' \in [Objects -> {Absent} \cup Contents],
         made' \subseteq Objects, reported' \subseteq Objects,
         \A o \in made' : remote'[o] # Absent /\ (o = tracked \/ o \in reported')
  PROVE  EnvelopeInv'
  <1>1. UNCHANGED <<config, tfstate>> /\ refreshed' = FALSE /\ EndCall
    BY DEF EndWithError
  <1>2. TypeOK'
    BY <1>1, BudgetStep DEF EnvelopeInv, TypeOK, EndCall
  <1>3. StateInv'
    BY <1>1 DEF EnvelopeInv, StateInv, Addresses, CompositeOf, Prefix
  <1>4. CallInv'
    BY <1>1 DEF CallInv, EndCall
  <1>5. MadeInv'
    BY DEF MadeInv
  <1> QED  BY <1>2, <1>3, <1>4, <1>5 DEF EnvelopeInv

\* A failing call before the write leaves everything as it is.
LEMMA NothingMadeStep ==
  ASSUME EnvelopeInv, [Next]_vars, EndWithError, UNCHANGED <<kind, supported, remote, history>>,
         hit = NoObject
  PROVE  EnvelopeInv'
  <1>1. /\ remote \in [Objects -> {Absent} \cup Contents] /\ made \subseteq Objects /\ reported \subseteq Objects
    BY DEF EnvelopeInv, TypeOK
  <1>2. \A o \in made : remote[o] # Absent /\ (o = tracked \/ o \in reported)
    BY <1>1, EnvelopeAssumption DEF EnvelopeInv, MadeInv
  <1>3. UNCHANGED <<tracked, made, reported>>
    BY DEF history
  <1> QED  BY <1>1, <1>2, <1>3, ErrorStep

\* A failing call after the write reports what the create has made.
LEMMA ReportedStep ==
  ASSUME EnvelopeInv, [Next]_vars, EndWithError, UNCHANGED <<kind, supported, remote, tracked, made>>,
         NEW os \in SUBSET Objects, ReportObjects(os), hit \in Objects => hit \in os
  PROVE  EnvelopeInv'
  <1>1. /\ remote \in [Objects -> {Absent} \cup Contents] /\ made \subseteq Objects /\ reported \subseteq Objects
    BY DEF EnvelopeInv, TypeOK
  <1>2. reported' \subseteq Objects /\ reported \subseteq reported' /\ (op = "create" => os \subseteq reported')
    BY <1>1 DEF ReportObjects
  <1>3. \A o \in made : remote[o] # Absent /\ (o = tracked \/ o \in reported')
    BY <1>1, <1>2 DEF EnvelopeInv, MadeInv
  <1> QED  BY <1>1, <1>2, <1>3, ErrorStep

\* A create is planned from the configuration.
LEMMA BeginCreateStep ==
  ASSUME EnvelopeInv, [Next]_vars, BeginCreate
  PROVE  EnvelopeInv'
  <1>1. /\ UNCHANGED <<kind, supported, remote, config, tfstate, refreshed, key, written, hit, tracked, made, reported>>
        /\ tfstate = NoState /\ op' = "create" /\ step' = "prepare" /\ plan' = PlanForCreate /\ op = "idle"
    BY DEF BeginCreate, tfVars, history
  <1>2. /\ config \in ConfigsOf(kind) /\ kind \in Kinds
    BY DEF EnvelopeInv, TypeOK, BeginCreate
  <1>3. /\ config.space \in SpacesOf(kind) /\ config.content \in Contents
        /\ (IF kind.generated THEN Unknown ELSE config.name) \in (IF kind.generated THEN {Unknown} ELSE Names)
    BY <1>2 DEF ConfigsOf
  <1>4. /\ PlanForCreate.spaceID = config.space /\ PlanForCreate.id = Unknown
        /\ PlanForCreate.resourceID = IF kind.generated THEN Unknown ELSE config.name
    BY DEF PlanForCreate
  <1>5. PlanForCreate \in Model
    <2>1. SpacesOf(kind) \subseteq Strings
      BY DEF SpacesOf, Strings
    <2> QED  BY <1>3, <2>1 DEF PlanForCreate, Model, Resources
  <1>6. TypeOK'
    BY <1>1, <1>5, BudgetStep DEF EnvelopeInv, TypeOK
  <1>7. StateInv' /\ MadeInv'
    BY <1>1 DEF EnvelopeInv, StateInv, MadeInv, Addresses, CompositeOf, Prefix
  <1>8. PlanInv'
    BY <1>1, <1>3, <1>4, <1>5 DEF PlanInv
  <1>9. CallInv'
    BY <1>1, <1>8 DEF EnvelopeInv, CallInv
  <1> QED  BY <1>6, <1>7, <1>9 DEF EnvelopeInv

\* An update is planned from the configuration and the state.
LEMMA BeginUpdateStep ==
  ASSUME EnvelopeInv, [Next]_vars, BeginUpdate
  PROVE  EnvelopeInv'
  <1>1. /\ UNCHANGED <<kind, supported, remote, config, tfstate, refreshed, key, written, hit, tracked, made, reported>>
        /\ tfstate # NoState /\ op' = "update" /\ step' = "prepare" /\ plan' = PlanForUpdate /\ op = "idle"
    BY DEF BeginUpdate, tfVars, history
  <1>2. /\ config \in ConfigsOf(kind) /\ kind \in Kinds /\ tfstate \in Model
    BY <1>1 DEF EnvelopeInv, TypeOK, BeginUpdate
  <1>3. config.content \in Contents
    BY <1>2 DEF ConfigsOf
  <1>4. kind.unknownOnUpdate => kind.backend = "kibana"
    BY <1>2, KindsAssumption
  <1>5. /\ PlanForUpdate.spaceID = tfstate.spaceID
        /\ PlanForUpdate.id = IF kind.unknownOnUpdate THEN Unknown ELSE tfstate.id
        /\ PlanForUpdate.resourceID = IF kind.unknownOnUpdate /\ kind.generated THEN Unknown ELSE tfstate.resourceID
    BY DEF PlanForUpdate
  <1>6. PlanForUpdate \in Model
    BY <1>2, <1>3 DEF PlanForUpdate, Model
  <1>7. TypeOK'
    BY <1>1, <1>6, BudgetStep DEF EnvelopeInv, TypeOK
  <1>8. StateInv' /\ MadeInv'
    BY <1>1 DEF EnvelopeInv, StateInv, MadeInv, Addresses, CompositeOf, Prefix
  <1>9. PlanInv'
    BY <1>1, <1>4, <1>5, <1>6 DEF PlanInv
  <1>10. CallInv'
    BY <1>1, <1>9 DEF EnvelopeInv, CallInv
  <1> QED  BY <1>7, <1>8, <1>10 DEF EnvelopeInv

\* The identity of the write is settled before the write.
LEMMA PrepareStep ==
  ASSUME EnvelopeInv, [Next]_vars, Prepare
  PROVE  EnvelopeInv'
  <1>1. /\ UNCHANGED <<kind, supported, remote, config, tfstate, refreshed, op, plan, written, hit, tracked, made, reported>>
        /\ op \in {"create", "update"} /\ step = "prepare" /\ step' = "write" /\ key' = WriteIdentity(plan)
    BY DEF Prepare, tfVars, history
  <1>2. op = "update" => key' = tracked /\ tracked \in Objects
    <2>1. op = "update" => tfstate # NoState
      BY <1>1 DEF EnvelopeInv, CallInv, PlanInv
    <2> QED  BY <1>1, <2>1, UpdateKey, TargetIsTracked
  <1>3. op = "create" =>
          /\ key' \in [space : Spaces \cup {EmptyStr}, resource : Resources \cup {EmptyStr}]
          /\ key'.space \in SpacesOf(kind) /\ (kind.backend = "kibana" => key'.space = plan.spaceID)
          /\ key'.resource \in Resources \cup {EmptyStr}
    BY <1>1, CreateKey
  <1>4. Objects \subseteq [space : Spaces \cup {EmptyStr}, resource : Resources \cup {EmptyStr}]
    BY DEF Objects
  <1>5. key' \in [space : Spaces \cup {EmptyStr}, resource : Resources \cup {EmptyStr}]
    BY <1>1, <1>2, <1>3, <1>4
  <1>6. TypeOK'
    BY <1>1, <1>5, BudgetStep DEF EnvelopeInv, TypeOK
  <1>7. StateInv' /\ MadeInv'
    BY <1>1 DEF EnvelopeInv, StateInv, MadeInv, Addresses, CompositeOf, Prefix
  <1>8. KeyInv'
    BY <1>1, <1>2, <1>3 DEF KeyInv
  <1>9. PlanInv'
    BY <1>1 DEF EnvelopeInv, CallInv, PlanInv
  <1>10. CallInv'
    BY <1>1, <1>8, <1>9 DEF EnvelopeInv, CallInv
  <1> QED  BY <1>6, <1>7, <1>10 DEF EnvelopeInv

\* The effect of a write on the objects, whether its answer arrives or not.
LEMMA WriteEffectMade ==
  ASSUME EnvelopeInv, step = "write", NEW o \in WriteTargets, WriteEffect(o)
  PROVE  /\ remote' \in [Objects -> {Absent} \cup Contents] /\ made' \subseteq Objects
         /\ \A q \in made' : remote'[q] # Absent /\ (q = tracked \/ q \in reported \/ (op = "create" /\ q = o))
         /\ \A q \in Objects : remote'[q] # remote[q] => op = "create" \/ q = tracked
  <1>1. /\ remote \in [Objects -> {Absent} \cup Contents] /\ made \subseteq Objects
        /\ hit = NoObject /\ NoObject \notin Objects /\ Absent \notin Contents
    BY EnvelopeAssumption DEF EnvelopeInv, TypeOK, CallInv
  <1>2. /\ o \in Objects /\ plan.content \in Contents
        /\ op \in {"create", "update"} /\ (op = "update" => o = tracked)
    BY WriteHits
  <1>3. remote' = [remote EXCEPT ![o] = plan.content] /\ made' \subseteq made \cup {o}
    BY DEF WriteEffect
  <1>4. \A q \in Objects : remote'[q] = IF q = o THEN plan.content ELSE remote[q]
    BY <1>1, <1>2, <1>3
  <1>5. \A q \in made : remote[q] # Absent /\ (q = tracked \/ q \in reported)
    BY <1>1 DEF EnvelopeInv, MadeInv
  <1> QED  BY <1>1, <1>2, <1>3, <1>4, <1>5

\* The write takes effect and its model is returned.
LEMMA InvokeWriteStep ==
  ASSUME EnvelopeInv, [Next]_vars, InvokeWrite
  PROVE  EnvelopeInv'
  <1>1. PICK o \in WriteTargets : WriteEffect(o) /\ hit' = o /\ written' = WrittenModel(o)
    BY DEF InvokeWrite
  <1>2. /\ UNCHANGED <<kind, supported, config, tfstate, refreshed, op, plan, key, reported, tracked>>
        /\ step = "write" /\ step' \in {"readback", "postread"}
    BY <1>1 DEF InvokeWrite, WriteEffect, tfVars
  <1>3. /\ o \in ObjectsOf(kind) /\ o \in Objects
        /\ o.space = key.space /\ (key.resource # EmptyStr => o = key)
        /\ op \in {"create", "update"}
        /\ WrittenModel(o) \in Model /\ Addresses(WrittenModel(o), o)
    BY <1>2, WriteHits
  <1>4. /\ remote' \in [Objects -> {Absent} \cup Contents] /\ made' \subseteq Objects
        /\ \A q \in made' : remote'[q] # Absent /\ (q = tracked \/ q \in reported \/ (op = "create" /\ q = o))
    BY <1>1, <1>2, WriteEffectMade
  <1>5. TypeOK'
    BY <1>1, <1>2, <1>3, <1>4, BudgetStep DEF EnvelopeInv, TypeOK
  <1>6. StateInv'
    BY <1>2 DEF EnvelopeInv, StateInv, Addresses, CompositeOf, Prefix
  <1>7. MadeInv'
    BY <1>1, <1>2, <1>4 DEF MadeInv
  <1>8. Addresses(written, hit)'
    BY <1>1, <1>2, <1>3 DEF Addresses, CompositeOf, Prefix
  <1>9. HitInv'
    BY <1>1, <1>2, <1>3, <1>8 DEF HitInv
  <1>10. PlanInv' /\ KeyInv'
    BY <1>2 DEF EnvelopeInv, CallInv, PlanInv, KeyInv
  <1>11. CallInv'
    BY <1>2, <1>3, <1>9, <1>10 DEF CallInv
  <1> QED  BY <1>5, <1>6, <1>7, <1>11 DEF EnvelopeInv

\* The write fails, with or without effect.
LEMMA InvokeWriteFailsStep ==
  ASSUME EnvelopeInv, [Next]_vars, InvokeWriteFails
  PROVE  EnvelopeInv'
  <1>1. step = "write" /\ EndWithError /\ UNCHANGED <<kind, supported>> /\ hit = NoObject
    BY DEF InvokeWriteFails, EnvelopeInv, CallInv
  <1>2. CASE UNCHANGED <<remote, history>>
    BY <1>1, <1>2, NothingMadeStep
  <1>3. ASSUME NEW o \in WriteTargets, WriteEffect(o), ReportObjects({o})
        PROVE  EnvelopeInv'
    <2>1. /\ remote' \in [Objects -> {Absent} \cup Contents] /\ made' \subseteq Objects
          /\ \A q \in made' : remote'[q] # Absent /\ (q = tracked \/ q \in reported \/ (op = "create" /\ q = o))
      BY <1>1, <1>3, WriteEffectMade
    <2>2. o \in Objects /\ reported \subseteq Objects
      BY <1>1, WriteHits DEF EnvelopeInv, TypeOK
    <2>3. reported' \subseteq Objects /\ reported \subseteq reported' /\ (op = "create" => o \in reported')
      BY <1>3, <2>2 DEF ReportObjects
    <2>4. UNCHANGED tracked
      BY <1>3 DEF WriteEffect
    <2> QED  BY <1>1, <2>1, <2>3, <2>4, ErrorStep
  <1> QED  BY <1>2, <1>3 DEF InvokeWriteFails

\* Calls that end with an error before anything is written.
LEMMA RefusedSteps ==
  ASSUME EnvelopeInv, [Next]_vars, PrepareRejects \/ PrepareFails \/ InvokeWriteRefused
  PROVE  EnvelopeInv'
  <1>1. EndWithError /\ UNCHANGED <<kind, supported, remote, history>> /\ step \in {"prepare", "write"}
    BY DEF PrepareRejects, PrepareFails, InvokeWriteRefused
  <1>2. hit = NoObject
    BY <1>1 DEF EnvelopeInv, CallInv
  <1> QED  BY <1>1, <1>2, NothingMadeStep

\* Calls that end with an error after the write, or are killed at any point.
LEMMA ReportedSteps ==
  ASSUME EnvelopeInv, [Next]_vars, ReadBackNotFound \/ ReadBackFails \/ Killed
  PROVE  EnvelopeInv'
  <1>1. EndWithError /\ UNCHANGED <<kind, supported, remote, tracked, made>>
    BY DEF ReadBackNotFound, ReadBackFails, Killed
  <1>2. hit \in Objects \cup {NoObject} /\ NoObject \notin Objects
    BY EnvelopeAssumption DEF EnvelopeInv, TypeOK
  <1>3. CASE ReadBackNotFound \/ ReadBackFails
    <2>1. ReportObjects({hit}) /\ step \in {"readback", "postread"}
      BY <1>3 DEF ReadBackNotFound, ReadBackFails
    <2>2. hit \in Objects
      <3>1. kind \in Kinds /\ hit \in ObjectsOf(kind)
        BY <2>1 DEF EnvelopeInv, TypeOK, CallInv, HitInv
      <3> QED  BY <3>1, ObjectParts
    <2>3. {hit} \in SUBSET Objects
      BY <2>2
    <2> QED  BY <1>1, <2>1, <2>3, ReportedStep
  <1>4. CASE Killed
    <2>1. ReportObjects({hit} \ {NoObject}) /\ {hit} \ {NoObject} \in SUBSET Objects
      BY <1>2, <1>4 DEF Killed
    <2>2. hit \in Objects => hit \in {hit} \ {NoObject}
      BY <1>2
    <2> QED  BY <1>1, <2>1, <2>2, ReportedStep
  <1> QED  BY <1>3, <1>4

\* The object that was written is read back.
LEMMA ReadBackStep ==
  ASSUME EnvelopeInv, [Next]_vars, ReadBack
  PROVE  EnvelopeInv'
  <1>1. /\ UNCHANGED <<kind, supported, remote, config, tfstate, refreshed, op, plan, key, hit, tracked, made, reported>>
        /\ step = "readback" /\ step' = "postread"
        /\ remote[ReadBackTarget] # Absent
        /\ written' = [written EXCEPT !.content = remote[ReadBackTarget]]
    BY DEF ReadBack, tfVars, history
  <1>2. ReadBackTarget = hit /\ hit \in Objects
    BY <1>1, ReadBackIsHit
  <1>3. remote[hit] \in Contents
    BY <1>1, <1>2 DEF EnvelopeInv, TypeOK
  <1>4. HitInv /\ PlanInv /\ KeyInv /\ op # "idle"
    BY <1>1 DEF EnvelopeInv, CallInv
  <1>5. written' \in Model
    BY <1>1, <1>2, <1>3, <1>4 DEF HitInv, Model
  <1>6. written'.id = written.id /\ written'.resourceID = written.resourceID /\ written'.spaceID = written.spaceID
    BY <1>1, <1>4 DEF HitInv, Model
  <1>7. Addresses(written, hit)'
    BY <1>1, <1>4, <1>6 DEF HitInv, Addresses, CompositeOf, Prefix
  <1>8. HitInv'
    BY <1>1, <1>4, <1>5, <1>7 DEF HitInv
  <1>9. PlanInv' /\ KeyInv'
    BY <1>1, <1>4 DEF PlanInv, KeyInv
  <1>10. CallInv'
    BY <1>1, <1>4, <1>8, <1>9 DEF CallInv
  <1>11. TypeOK'
    BY <1>1, <1>5, BudgetStep DEF EnvelopeInv, TypeOK
  <1>12. StateInv' /\ MadeInv'
    BY <1>1 DEF EnvelopeInv, StateInv, MadeInv, Addresses, CompositeOf, Prefix
  <1> QED  BY <1>10, <1>11, <1>12 DEF EnvelopeInv

\* What was written is saved: a create hands its object over to the state, and an
\* update has written the object the state holds.
LEMMA PersistStep ==
  ASSUME EnvelopeInv, [Next]_vars, Persist
  PROVE  EnvelopeInv'
  <1>1. /\ UNCHANGED <<kind, supported, remote, config, made, reported>>
        /\ step = "postread" /\ tfstate' = written /\ refreshed' = TRUE
        /\ tracked' = (IF op = "create" THEN hit ELSE tracked) /\ EndCall
    BY DEF Persist
  <1>2. HitInv /\ PlanInv /\ KeyInv /\ op \in {"create", "update"} /\ kind \in Kinds
    BY <1>1 DEF EnvelopeInv, CallInv, TypeOK
  <1>3. /\ hit \in ObjectsOf(kind) /\ hit \in Objects /\ written \in Model /\ Addresses(written, hit)
        /\ written.id # Unknown /\ written.resourceID # Unknown
    BY <1>2, ObjectParts, AddressesKnown DEF HitInv
  <1>4. tracked' = hit
    <2>1. CASE op = "update"
      <3>1. tfstate # NoState /\ key = tracked
        BY <1>2, <2>1 DEF PlanInv, KeyInv
      <3>2. tracked.resource # EmptyStr
        BY <1>2, <3>1, TargetIsTracked, ObjectParts
      <3> QED  BY <1>1, <1>2, <2>1, <3>1, <3>2 DEF HitInv
    <2> QED  BY <1>1, <1>2, <2>1
  <1>5. TypeOK'
    BY <1>1, <1>3, <1>4, BudgetStep DEF EnvelopeInv, TypeOK, EndCall
  <1>6. StateInv'
    <2>1. Addresses(tfstate, tracked)'
      BY <1>1, <1>3, <1>4 DEF Addresses, CompositeOf, Prefix
    <2>2. tfstate' # NoState
      BY <1>1, <1>3, ModelAssumption
    <2> QED  BY <1>1, <1>3, <1>4, <2>1, <2>2 DEF StateInv
  <1>7. CallInv'
    BY <1>1 DEF CallInv, EndCall
  <1>8. MadeInv'
    <2>1. op = "create" => tracked = NoObject
      BY <1>2 DEF PlanInv, EnvelopeInv, StateInv
    <2>2. NoObject \notin made
      BY EnvelopeAssumption DEF EnvelopeInv, TypeOK
    <2> QED  BY <1>1, <1>2, <1>4, <2>1, <2>2 DEF EnvelopeInv, MadeInv
  <1> QED  BY <1>5, <1>6, <1>7, <1>8 DEF EnvelopeInv

\* A step between calls leaves no call behind it.
LEMMA IdleStep ==
  ASSUME EnvelopeInv, op = "idle", UNCHANGED callVars
  PROVE  CallInv' /\ op' = "idle"
  <1>1. UNCHANGED <<op, step, plan, key, written, hit>> /\ step = "none" /\ hit = NoObject
    BY DEF EnvelopeInv, CallInv, callVars
  <1> QED  BY <1>1 DEF CallInv

\* Between calls every object that was made is tracked or reported.
LEMMA MadeWhenIdle ==
  ASSUME EnvelopeInv, op = "idle"
  PROVE  \A o \in made : o \in Objects /\ remote[o] # Absent /\ (o = tracked \/ o \in reported)
  BY DEF EnvelopeInv, MadeInv, TypeOK

\* The refresh: the model is completed, or dropped with its object gone.
LEMMA ReadStep ==
  ASSUME EnvelopeInv, [Next]_vars, Read
  PROVE  EnvelopeInv' /\ (tfstate' = NoState => remote'[tracked] = Absent)
  <1>1. /\ UNCHANGED <<kind, supported, remote, config, made, reported>> /\ UNCHANGED callVars
        /\ op = "idle" /\ tfstate # NoState /\ refreshed' = TRUE
    BY DEF Read
  <1>2. TargetOf(tfstate) = tracked /\ tracked \in Objects /\ tracked \in ObjectsOf(kind)
    BY <1>1, TargetIsTracked
  <1>3. UNCHANGED <<op, step, plan, key, written, hit>>
    BY <1>1 DEF callVars
  <1>4. CallInv' /\ op' = "idle"
    BY <1>1, IdleStep
  <1>5. \A o \in made : o \in Objects /\ remote[o] # Absent /\ (o = tracked \/ o \in reported)
    BY <1>1, MadeWhenIdle
  <1>6. CASE remote[tracked] = Absent
    <2>1. tfstate' = NoState /\ tracked' = NoObject
      BY <1>2, <1>6 DEF Read
    <2>2. TypeOK'
      BY <1>1, <1>3, <2>1, BudgetStep DEF EnvelopeInv, TypeOK
    <2>3. StateInv' /\ MadeInv'
      BY <1>1, <1>5, <1>6, <2>1 DEF StateInv, MadeInv
    <2> QED  BY <1>1, <1>4, <1>6, <2>2, <2>3 DEF EnvelopeInv
  <1>7. CASE remote[tracked] # Absent
    <2>1. tfstate' = ReadModel(tracked) /\ tracked' = tracked
      BY <1>2, <1>7 DEF Read
    <2>2. /\ kind \in Kinds /\ tfstate \in Model /\ Addresses(tfstate, tracked)
          /\ remote[tracked] \in Contents
      BY <1>1, <1>2, <1>7 DEF EnvelopeInv, TypeOK, StateInv
    <2>3. /\ tfstate'.id = tfstate.id /\ tfstate'.resourceID = tracked.resource
          /\ tfstate'.spaceID = IF kind.backend = "kibana" THEN tracked.space ELSE Null
          /\ tfstate'.content = remote[tracked]
          /\ tfstate' = [id |-> tfstate'.id, spaceID |-> tfstate'.spaceID, content |-> tfstate'.content,
                         resourceID |-> tfstate'.resourceID]
      BY <2>1, <2>2 DEF ReadModel, Model
    <2>4. Addresses(tfstate, tracked)'
      BY <1>1, <2>1, <2>2, <2>3 DEF Addresses, CompositeOf, Prefix
    <2>5. Addresses(tfstate', tracked)
      BY <2>2, <2>3 DEF Addresses
    <2>6. /\ tfstate'.id \in Strings /\ tfstate'.id # Unknown
          /\ tfstate'.resourceID \in Resources /\ tfstate'.resourceID # Unknown
          /\ tfstate'.spaceID \in Strings \cup {Null}
      BY <1>2, <2>2, <2>5, AddressesKnown
    <2>7. tfstate' \in Model /\ tfstate' # NoState
      BY <2>2, <2>3, <2>6, ModelAssumption DEF Model
    <2>8. TypeOK'
      BY <1>1, <1>3, <2>1, <2>6, <2>7, BudgetStep DEF EnvelopeInv, TypeOK
    <2>9. StateInv'
      BY <1>1, <1>2, <2>1, <2>4, <2>7 DEF StateInv
    <2>10. MadeInv'
      BY <1>1, <1>5, <2>1 DEF MadeInv
    <2> QED  BY <1>4, <2>7, <2>8, <2>9, <2>10 DEF EnvelopeInv
  <1> QED  BY <1>6, <1>7

\* The effect of a delete on the objects, whether its answer arrives or not.
LEMMA DeleteEffect ==
  ASSUME EnvelopeInv, op = "idle", tfstate # NoState,
         remote' = [remote EXCEPT ![TargetOf(tfstate)] = Absent],
         made' = made \ {TargetOf(tfstate)}
  PROVE  /\ remote' \in [Objects -> {Absent} \cup Contents] /\ made' \subseteq Objects
         /\ \A o \in made' : remote'[o] # Absent /\ o # tracked /\ o \in reported
         /\ \A o \in Objects : remote'[o] # remote[o] => o = tracked
         /\ remote'[tracked] = Absent
  <1>1. TargetOf(tfstate) = tracked /\ tracked \in Objects
    BY TargetIsTracked
  <1>2. remote \in [Objects -> {Absent} \cup Contents]
    BY DEF EnvelopeInv, TypeOK
  <1>3. remote' = [remote EXCEPT ![tracked] = Absent] /\ made' = made \ {tracked}
    BY <1>1
  <1>4. \A o \in Objects : remote'[o] = IF o = tracked THEN Absent ELSE remote[o]
    BY <1>1, <1>2, <1>3
  <1>5. \A o \in made : o \in Objects /\ remote[o] # Absent /\ (o = tracked \/ o \in reported)
    BY MadeWhenIdle
  <1> QED  BY <1>1, <1>2, <1>3, <1>4, <1>5

\* The object is deleted and leaves the state.
LEMMA DeleteStep ==
  ASSUME EnvelopeInv, [Next]_vars, Delete
  PROVE  EnvelopeInv'
  <1>1. /\ UNCHANGED <<kind, supported, config, refreshed, reported>> /\ UNCHANGED callVars
        /\ op = "idle" /\ tfstate # NoState /\ tfstate' = NoState /\ tracked' = NoObject
        /\ remote' = [remote EXCEPT ![TargetOf(tfstate)] = Absent] /\ made' = made \ {TargetOf(tfstate)}
    BY DEF Delete
  <1>2. /\ remote' \in [Objects -> {Absent} \cup Contents] /\ made' \subseteq Objects
        /\ \A o \in made' : remote'[o] # Absent /\ o # tracked /\ o \in reported
    BY <1>1, DeleteEffect
  <1>3. UNCHANGED <<op, step, plan, key, written, hit>>
    BY <1>1 DEF callVars
  <1>4. TypeOK'
    BY <1>1, <1>2, <1>3, BudgetStep DEF EnvelopeInv, TypeOK
  <1>5. StateInv' /\ MadeInv'
    BY <1>1, <1>2 DEF StateInv, MadeInv
  <1> QED  BY <1>1, <1>4, <1>5, IdleStep DEF EnvelopeInv

\* The delete fails, with or without effect: the state is kept.
LEMMA DeleteFailsStep ==
  ASSUME EnvelopeInv, [Next]_vars, DeleteFails
  PROVE  EnvelopeInv'
  <1>1. /\ UNCHANGED <<kind, supported, config, tfstate, tracked, reported>> /\ UNCHANGED callVars
        /\ op = "idle" /\ tfstate # NoState /\ refreshed' \in BOOLEAN
    BY DEF DeleteFails
  <1>2. /\ remote' \in [Objects -> {Absent} \cup Contents] /\ made' \subseteq Objects
        /\ \A o \in made' : remote'[o] # Absent /\ (o = tracked \/ o \in reported)
    <2>1. CASE UNCHANGED <<remote, made>>
      BY <1>1, <2>1, MadeWhenIdle DEF EnvelopeInv, TypeOK
    <2>2. CASE /\ remote' = [remote EXCEPT ![TargetOf(tfstate)] = Absent]
               /\ made' = made \ {TargetOf(tfstate)}
      BY <1>1, <2>2, DeleteEffect
    <2> QED  BY <2>1, <2>2 DEF DeleteFails
  <1>3. UNCHANGED <<op, step, plan, key, written, hit>>
    BY <1>1 DEF callVars
  <1>4. TypeOK'
    BY <1>1, <1>2, <1>3, BudgetStep DEF EnvelopeInv, TypeOK
  <1>5. StateInv'
    BY <1>1 DEF EnvelopeInv, StateInv, Addresses, CompositeOf, Prefix
  <1>6. MadeInv'
    BY <1>1, <1>2 DEF MadeInv
  <1> QED  BY <1>1, <1>4, <1>5, <1>6, IdleStep DEF EnvelopeInv

\* An import takes the object its identifier names into the state.
LEMMA ImportStep ==
  ASSUME EnvelopeInv, [Next]_vars, Import
  PROVE  EnvelopeInv'
  <1>1. /\ UNCHANGED <<kind, supported, remote, config, made, reported>> /\ UNCHANGED callVars
        /\ op = "idle" /\ tfstate = NoState /\ refreshed' = TRUE /\ kind \in Kinds
    BY DEF Import, EnvelopeInv, TypeOK
  <1>2. PICK o \in ObjectsOf(kind) : \E bare \in Importer(o) :
          /\ remote[TargetOf(bare)] # Absent
          /\ tfstate' = [id |-> bare.id, resourceID |-> TargetOf(bare).resource, content |-> remote[TargetOf(bare)],
                         spaceID |-> IF kind.backend = "kibana" THEN TargetOf(bare).space ELSE Null]
          /\ tracked' = o
    BY Zenon DEF Import
  <1>3. PICK bare \in Importer(o) :
          /\ remote[TargetOf(bare)] # Absent
          /\ tfstate' = [id |-> bare.id, resourceID |-> TargetOf(bare).resource, content |-> remote[TargetOf(bare)],
                         spaceID |-> IF kind.backend = "kibana" THEN TargetOf(bare).space ELSE Null]
          /\ tracked' = o
    BY <1>2, Zenon
  <1> DEFINE i == bare.id
  <1>4. /\ TargetOf(bare) = o /\ i \in Strings
        /\ i = CompositeOf(o) \/ (kind.backend = "elasticsearch" /\ i = o.resource /\ Len(o.resource) = 1)
    BY <1>1, TargetOfImport
  <1>5. /\ remote[o] # Absent
        /\ tfstate' = [id |-> i, resourceID |-> o.resource, content |-> remote[o],
                       spaceID |-> IF kind.backend = "kibana" THEN o.space ELSE Null]
    BY <1>3, <1>4, Zenon
  <1> HIDE DEF i
  <1>6. o \in Objects /\ remote[o] \in Contents
    BY <1>1, <1>5, ObjectParts DEF EnvelopeInv, TypeOK
  <1>7. Addresses(tfstate', o)
    BY <1>4, <1>5 DEF Addresses
  <1>8. Addresses(tfstate, tracked)'
    BY <1>1, <1>3, <1>7 DEF Addresses, CompositeOf, Prefix
  <1>9. /\ tfstate'.id # Unknown /\ tfstate'.resourceID \in Resources /\ tfstate'.resourceID # Unknown
        /\ tfstate'.spaceID \in Strings \cup {Null}
    BY <1>1, <1>7, AddressesKnown
  <1>10. tfstate' \in Model /\ tfstate' # NoState
    BY <1>4, <1>5, <1>6, <1>9, ModelAssumption DEF Model
  <1>11. UNCHANGED <<op, step, plan, key, written, hit>>
    BY <1>1 DEF callVars
  <1>12. TypeOK'
    BY <1>1, <1>3, <1>6, <1>9, <1>10, <1>11, BudgetStep DEF EnvelopeInv, TypeOK
  <1>13. StateInv'
    BY <1>1, <1>3, <1>8, <1>10 DEF StateInv
  <1>14. MadeInv'
    <2>1. tracked = NoObject /\ NoObject \notin Objects
      BY <1>1, EnvelopeAssumption DEF EnvelopeInv, StateInv
    <2> QED  BY <1>1, <2>1, MadeWhenIdle DEF MadeInv
  <1> QED  BY <1>1, <1>12, <1>13, <1>14, IdleStep DEF EnvelopeInv

\* Steps between calls that touch neither the object nor the resource in the state.
LEMMA QuietSteps ==
  ASSUME EnvelopeInv, [Next]_vars, ReadFails \/ NewRun \/ EditConfig
  PROVE  EnvelopeInv'
  <1>1. /\ UNCHANGED <<kind, supported, remote, tfstate, tracked, made, reported>> /\ UNCHANGED callVars
        /\ op = "idle" /\ refreshed' \in BOOLEAN
        /\ config' \in ConfigsOf(kind) \cup {NoConfig}
    BY DEF ReadFails, NewRun, EditConfig, tfVars, history, EnvelopeInv, TypeOK
  <1>2. UNCHANGED <<op, step, plan, key, written, hit>>
    BY <1>1 DEF callVars
  <1>3. TypeOK'
    BY <1>1, <1>2, BudgetStep DEF EnvelopeInv, TypeOK
  <1>4. StateInv'
    BY <1>1 DEF EnvelopeInv, StateInv, Addresses, CompositeOf, Prefix
  <1>5. MadeInv'
    BY <1>1, <1>2 DEF EnvelopeInv, MadeInv
  <1> QED  BY <1>1, <1>3, <1>4, <1>5, IdleStep DEF EnvelopeInv

\* Another client changes an object, at any point of a call.
LEMMA DriftStep ==
  ASSUME EnvelopeInv, [Next]_vars, Drift
  PROVE  EnvelopeInv'
  <1>1. /\ UNCHANGED <<kind, supported, config, tfstate, refreshed, op, step, plan, key, written, hit, tracked, reported>>
    BY DEF Drift, tfVars, callVars
  <1>2. PICK o \in Objects, c \in Contents \cup {Absent} :
          /\ remote' = [remote EXCEPT ![o] = c]
          /\ made' = IF c = Absent THEN made \ {o} ELSE made
    BY DEF Drift
  <1>3. remote \in [Objects -> {Absent} \cup Contents] /\ made \subseteq Objects
    BY DEF EnvelopeInv, TypeOK
  <1>4. remote' \in [Objects -> {Absent} \cup Contents] /\ made' \subseteq made
    BY <1>2, <1>3
  <1>5. \A q \in made' : remote'[q] # Absent
    BY <1>2, <1>3 DEF EnvelopeInv, MadeInv
  <1>6. TypeOK'
    BY <1>1, <1>3, <1>4, BudgetStep DEF EnvelopeInv, TypeOK
  <1>7. StateInv'
    BY <1>1 DEF EnvelopeInv, StateInv, Addresses, CompositeOf, Prefix
  <1>8. MadeInv'
    BY <1>1, <1>4, <1>5 DEF EnvelopeInv, MadeInv
  <1>9. CallInv'
    BY <1>1 DEF EnvelopeInv, CallInv, PlanInv, KeyInv, HitInv, Addresses, CompositeOf, Prefix
  <1> QED  BY <1>6, <1>7, <1>8, <1>9 DEF EnvelopeInv

(***************************************************************************)
(* The theorems.                                                           *)
(***************************************************************************)

LEMMA EnvelopeInit ==
  ASSUME Init
  PROVE  EnvelopeInv
  <1>1. remote \in [Objects -> {Absent} \cup Contents]
    BY DEF Init
  <1>2. TypeOK
    <2>1. /\ kind \in Kinds /\ supported \in BOOLEAN /\ refreshed = FALSE /\ config \in ConfigsOf(kind)
          /\ tfstate = NoState /\ op = "idle" /\ step = "none" /\ plan = NoModel /\ written = NoModel
          /\ key = NoObject /\ hit = NoObject /\ tracked = NoObject /\ made = {} /\ reported = {}
          /\ faults = 0 /\ drifts = 0 /\ edits = 0
      BY DEF Init
    <2>2. faults \in 0 .. MaxFaults /\ drifts \in 0 .. MaxDrifts /\ edits \in 0 .. MaxEdits
      BY <2>1, EnvelopeAssumption
    <2> QED  BY <1>1, <2>1, <2>2 DEF TypeOK
  <1>3. StateInv /\ CallInv /\ MadeInv
    BY DEF Init, StateInv, CallInv, MadeInv
  <1> QED  BY <1>2, <1>3 DEF EnvelopeInv

LEMMA EnvelopeStep ==
  ASSUME EnvelopeInv, [Next]_vars
  PROVE  EnvelopeInv'
  <1>1. CASE UNCHANGED vars
    <2>1. UNCHANGED <<kind, supported, remote, config, tfstate, refreshed, op, step, plan, key, written, hit,
                      tracked, made, reported, faults, drifts, edits>>
      BY <1>1 DEF vars, tfVars, callVars, history, budget
    <2> QED  BY <2>1 DEF EnvelopeInv, TypeOK, StateInv, CallInv, MadeInv, PlanInv, KeyInv, HitInv, Addresses,
                         CompositeOf, Prefix
  <1>2. CASE Provider
    BY <1>2, BeginCreateStep, BeginUpdateStep, PrepareStep, RefusedSteps, InvokeWriteStep, ReadBackStep,
       ReportedSteps, PersistStep, ReadStep, DeleteStep, QuietSteps DEF Provider
  <1>3. CASE Failures
    BY <1>3, RefusedSteps, InvokeWriteFailsStep, ReportedSteps, QuietSteps, DeleteFailsStep DEF Failures
  <1> QED  BY <1>1, <1>2, <1>3, ImportStep, QuietSteps, DriftStep DEF Next

\* The inductive invariant holds in every state of every behaviour of the envelope.
THEOREM EnvelopeInvariant == Spec => []EnvelopeInv
  <1>1. Init => EnvelopeInv
    BY EnvelopeInit
  <1>2. EnvelopeInv /\ [Next]_vars => EnvelopeInv'
    BY EnvelopeStep
  <1> QED  BY <1>1, <1>2, PTL DEF Spec

\* Read and Delete always address the object that was created or imported, and
\* read-after-write reads the very object that was written, for every mixture of
\* composite and plain identifiers, with or without slashes, spaces and unknowns.
THEOREM IdentityHolds == Spec => []IdentityInv
  <1>1. EnvelopeInv => IdentityInv
    BY TargetIsTracked, ReadBackIsHit
       DEF IdentityInv, StateAddressesTracked, ReadBackReadsWritten, EnvelopeInv
  <1> QED  BY <1>1, EnvelopeInvariant, PTL

\* Between calls every object a create has made is in the state or was reported:
\* runGenericResourceWrite loses none, whichever of its steps fails.
THEOREM NoOrphanIsSilent == Spec => []NoSilentOrphan
  <1>1. EnvelopeInv => NoSilentOrphan
    BY DEF EnvelopeInv, MadeInv, NoSilentOrphan
  <1> QED  BY <1>1, EnvelopeInvariant, PTL

\* No step of the provider but a create changes an object other than the tracked
\* one.
THEOREM ChangesOnlyTracked == Spec => OnlyTrackedChanged
  <1> DEFINE Changes == \A o \in Objects : remote'[o] # remote[o] =>
                           drifts' # drifts \/ op = "create" \/ o = tracked
  <1>1. ASSUME EnvelopeInv, Next
        PROVE  Changes
    <2>1. CASE UNCHANGED remote
      BY <2>1
    <2>2. CASE Drift
      <3>1. drifts \in Nat /\ drifts' = drifts + 1
        BY <1>1, <2>2, EnvelopeAssumption DEF Drift, EnvelopeInv, TypeOK
      <3> QED  BY <3>1
    <2>3. ASSUME step = "write", NEW o \in WriteTargets, WriteEffect(o)
          PROVE  Changes
      BY <1>1, <2>3, WriteEffectMade
    <2>4. ASSUME op = "idle", tfstate # NoState, remote' = [remote EXCEPT ![TargetOf(tfstate)] = Absent],
                 made' = made \ {TargetOf(tfstate)}
          PROVE  Changes
      BY <1>1, <2>4, DeleteEffect
    <2>5. CASE InvokeWrite
      BY <2>3, <2>5 DEF InvokeWrite
    <2>6. CASE InvokeWriteFails
      BY <2>1, <2>3, <2>6 DEF InvokeWriteFails
    <2>7. CASE Delete
      BY <2>4, <2>7 DEF Delete
    <2>8. CASE DeleteFails
      BY <2>1, <2>4, <2>8 DEF DeleteFails
    <2> HIDE DEF Changes
    <2> QED
      BY <1>1, <2>1, <2>2, <2>5, <2>6, <2>7, <2>8
      DEF Next, Provider, Failures, BeginCreate, BeginUpdate, Prepare, PrepareRejects, InvokeWriteRefused,
          ReadBack, ReadBackNotFound, Persist, Read, NewRun, PrepareFails, ReadBackFails, ReadFails, Killed,
          Import, EditConfig
  <1>2. EnvelopeInv /\ [Next]_vars => [Changes]_vars
    BY <1>1
  <1> QED  BY <1>2, EnvelopeInvariant, PTL DEF Spec, OnlyTrackedChanged

\* Read and Delete drop a resource from the state only once its object is gone.
THEOREM DroppedOnlyWhenGone == Spec => StateDroppedOnlyIfGone
  <1> DEFINE Drop == (tfstate # NoState /\ tfstate' = NoState) => remote'[tracked] = Absent
  <1>1. ASSUME EnvelopeInv, Next
        PROVE  Drop
    <2>1. CASE UNCHANGED tfstate
      BY <2>1
    <2>2. CASE Read
      BY <1>1, <2>2, ReadStep
    <2>3. CASE Delete
      <3>1. /\ op = "idle" /\ tfstate # NoState /\ remote' = [remote EXCEPT ![TargetOf(tfstate)] = Absent]
            /\ made' = made \ {TargetOf(tfstate)}
        BY <2>3 DEF Delete
      <3> QED  BY <1>1, <3>1, DeleteEffect
    <2>4. CASE Import
      BY <2>4 DEF Import
    <2>5. CASE Persist
      <3>1. tfstate' = written /\ written \in Model
        BY <1>1, <2>5 DEF Persist, EnvelopeInv, CallInv, HitInv
      <3> QED  BY <3>1, ModelAssumption
    <2> HIDE DEF Drop
    <2> QED
      BY <1>1, <2>1, <2>2, <2>3, <2>4, <2>5
      DEF Next, Provider, Failures, BeginCreate, BeginUpdate, Prepare, PrepareRejects, InvokeWrite,
          InvokeWriteRefused, InvokeWriteFails, ReadBack, ReadBackNotFound, NewRun, PrepareFails,
          ReadBackFails, ReadFails, DeleteFails, Killed, EditConfig, Drift, EndWithError, tfVars
  <1>2. EnvelopeInv /\ [Next]_vars => [Drop]_vars
    BY <1>1
  <1> QED  BY <1>2, EnvelopeInvariant, PTL DEF Spec, StateDroppedOnlyIfGone
=============================================================================
