-------------------------- MODULE MCRolloverSeries --------------------------
\* Three generations; the alias may also be attached to the last by hand.  At most
\* one of them exists before the first call.
EXTENDS RolloverSeries

MCSuccessor == [n \in {"i1", "i2"} |-> IF n = "i1" THEN "i2" ELSE "x"]

MCInit == Init /\ Cardinality({n \in Names : target[n] # "none"}) <= 1
MCSpec == MCInit /\ [][Next]_vars /\ WF_vars(Provider)
=============================================================================
