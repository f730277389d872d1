--------------------------- MODULE MCEphemeralKey ---------------------------
\* Two ephemeral keys, on the provider's cluster or another one.
EXTENDS EphemeralKey
=============================================================================
