------------------------- MODULE MC_SecretDelivery -------------------------
EXTENDS SecretDelivery

\* The two Secrets are in namespace "a", the only one the server watches; "b"
\* has neither a Secret nor a watcher, as for a client that asks for a namespace
\* the server does not serve.
MCNs == [k \in Keys |-> "a"]
=============================================================================
