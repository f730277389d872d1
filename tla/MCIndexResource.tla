-------------------------- MODULE MCIndexResource --------------------------
\* The index resource on a small instance: configurations that differ in every
\* attribute, a template that maps one field.
EXTENDS IndexResource, TLC

CONSTANTS a, b, f, g, keyword, text, v1, v2

MCTemplate == f :> keyword

Plain == [alias |-> Null, dyn |-> Null, static |-> Null, analysis |-> Null, mappings |-> Null,
          protect |-> FALSE, use |-> FALSE]

MCConfigs ==
  {Plain,
   [Plain EXCEPT !.alias = {a}, !.dyn = v1, !.mappings = (f :> keyword), !.protect = TRUE],
   [Plain EXCEPT !.alias = {a, b}, !.dyn = v2, !.mappings = (f :> keyword @@ g :> keyword), !.use = TRUE],
   [Plain EXCEPT !.alias = {}, !.static = v2, !.mappings = (g :> text), !.use = TRUE],
   [Plain EXCEPT !.analysis = v1, !.mappings = (f :> keyword)]}
=============================================================================
