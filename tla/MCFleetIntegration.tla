------------------------- MODULE MCFleetIntegration -------------------------
\* Two resources of one package: the first has no space of its own or the
\* default one, the second has a space of its own.
EXTENDS FleetIntegration

CONSTANTS a, b, default, s2

Plain(s, v) == [space |-> s, version |-> v, force |-> FALSE, skip |-> FALSE]
ConfigsOfA == {Plain(NoSpace, 1), Plain(NoSpace, 2), [Plain(default, 2) EXCEPT !.force = TRUE], NoConfig}
ConfigsOfB == {Plain(s2, 1), Plain(s2, 2), [Plain(s2, 1) EXCEPT !.skip = TRUE], NoConfig}

MCConfigs == {[r \in {a, b} |-> IF r = a THEN m ELSE n] : m \in ConfigsOfA, n \in ConfigsOfB}
=============================================================================
