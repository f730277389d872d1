--------------------------- MODULE MCScopedClient ---------------------------
(***************************************************************************)
(* Three goroutines; a server whose version changes, one serverless and    *)
(* one with a malformed version; models with none, one or two requirements.*)
(***************************************************************************)
EXTENDS ScopedClient

MCStatuses ==
  {[version |-> 8, flavor |-> "default"], [version |-> 9, flavor |-> "default"],
   [version |-> 8, flavor |-> "serverless"], [version |-> Malformed, flavor |-> "default"]}

MCRequirements == {<<>>, <<{8, 9}, {9}>>, <<{8}>>}
=============================================================================
