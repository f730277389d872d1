------------------------- MODULE MCResourceEnvelope -------------------------
(***************************************************************************)
(* A small instance: one Elasticsearch cluster or two Kibana spaces, a     *)
(* plain identifier and one that ends in it after a slash.                 *)
(***************************************************************************)
EXTENDS ResourceEnvelope

MCCluster == <<"uuid">>
TwoSpaces == {<<"s1">>, <<"s2">>}
MCNames == {<<"b">>, <<"a", "b">>}
MCGenerated == {<<"g1">>, <<"g2">>, <<"g3">>}

KindOf(b, g, u, s, m) ==
  [backend |-> b, generated |-> g, upsert |-> u, skipReadAfterWrite |-> s, unknownOnUpdate |-> m]

ElasticsearchKinds ==
  {KindOf("elasticsearch", FALSE, TRUE, FALSE, FALSE),   \* PUT of a named object
   KindOf("elasticsearch", FALSE, TRUE, TRUE, FALSE),    \* the write's model is authoritative
   KindOf("elasticsearch", TRUE, FALSE, FALSE, FALSE)}   \* identifier generated by the server

KibanaKinds ==
  {KindOf("kibana", TRUE, FALSE, FALSE, TRUE),   \* POST, generated identifier, unknown on update
   KindOf("kibana", FALSE, FALSE, FALSE, TRUE),  \* POST of a named object
   KindOf("kibana", FALSE, TRUE, TRUE, FALSE)}   \* PUT, the write's model is authoritative

MCKinds == ElasticsearchKinds \cup KibanaKinds
=============================================================================
