------------------------------ MODULE Identity ------------------------------
(***************************************************************************)
(* Composite identifiers (internal/clients) and the rules by which the     *)
(* resource envelopes (internal/entitycore) turn a Terraform model into    *)
(* the identity of a remote object.                                        *)
(*                                                                         *)
(* A Go string is the non-empty sequence of its "/"-separated segments:    *)
(* "a/b" is <<"a", "b">>, "a/" is <<"a", "">> and "" is <<"">>.  A segment *)
(* is an atom; " " is the blank one.  A Terraform string attribute is such *)
(* a string, Null or Unknown.                                              *)
(***************************************************************************)
EXTENDS Sequences, Integers

CONSTANTS Null, Unknown, Nil

ASSUME MarkersAssumption ==
  /\ Null \notin Seq(STRING) /\ Unknown \notin Seq(STRING)
  /\ Nil \notin [ClusterID : Seq(STRING), ResourceID : Seq(STRING)]

EmptyStr == <<"">>

\* Of the strings told apart here only an all-blank one is changed by trimming.
TrimSpace(s) == IF s = <<" ">> THEN EmptyStr ELSE s

\* types.String: IsKnown and ValueString.
IsKnown(v) == v \notin {Null, Unknown}
ValueString(v) == IF IsKnown(v) THEN v ELSE EmptyStr

\* Defect: the identifier is split at every slash and its ends are taken.
CompositeIDSplitAll(id) ==
  IF Len(id) < 2 \/ id[Len(id)] = ""
  THEN Nil
  ELSE [ClusterID |-> <<Head(id)>>, ResourceID |-> <<id[Len(id)]>>]

\* strings.SplitN(id, "/", 2): the first segment is the cluster (for Kibana the
\* space), the rest the resource, which may contain further slashes.
CompositeIDFromStr(id) ==
  IF Len(id) < 2 \/ Tail(id) = EmptyStr
  THEN Nil
  ELSE [ClusterID |-> <<Head(id)>>, ResourceID |-> Tail(id)]

\* CompositeID.String: the two parts joined by a slash.
CompositeString(c) == c.ClusterID \o c.ResourceID

\* resolveKibanaResourceIdentity: the composite id wins over the attributes.
\* (Its middle rule, a composite resource id, is opted into by data sources.)
ResolveKibanaResourceIdentity(model) ==
  LET comp == CompositeIDFromStr(ValueString(model.id))
  IN  IF comp # Nil
      THEN [space |-> comp.ClusterID, resource |-> comp.ResourceID]
      ELSE [space |-> ValueString(model.spaceID), resource |-> ValueString(model.resourceID)]

\* resolveElasticsearchReadResourceID for models without GetReadResourceID:
\* the identity just written, the composite id, the attribute, the raw id.
ResolveElasticsearchReadResourceID(model, writeFallback) ==
  LET comp == CompositeIDFromStr(ValueString(model.id))
      attr == TrimSpace(ValueString(model.resourceID))
  IN  IF writeFallback # EmptyStr THEN writeFallback
      ELSE IF comp # Nil THEN comp.ResourceID
      ELSE IF attr # EmptyStr THEN attr
      ELSE TrimSpace(ValueString(model.id))
=============================================================================
