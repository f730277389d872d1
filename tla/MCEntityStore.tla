--------------------------- MODULE MCEntityStore ---------------------------
\* The entity store resource on a small instance: of the log extraction settings two
\* differ only in an attribute that the status does not report.
EXTENDS EntityStore

CONSTANTS plain, other, limited

\* All configurations, with the unreported attribute in some of them only.
MCConfigs == {c \in Config : c.log = limited => c.started /\ c.shrink}

MCReadBack == [l \in Logs |-> IF l = limited THEN plain ELSE l]
=============================================================================
