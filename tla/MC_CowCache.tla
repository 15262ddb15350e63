---------------------------- MODULE MC_CowCache ----------------------------
(* A small instance of CowCache: two keys of one namespace.                *)
EXTENDS CowCache

CONSTANTS k1, k2

MCNamespace == [k \in Keys |-> "ns1"]

Upsert(k) == [key |-> k, entry |-> [version |-> 1, stale |-> FALSE]]
Remove(k) == [key |-> k, entry |-> Absent]

\* Every single mutation, a relist of both keys, and batches that touch one
\* key twice, where the order of the mutations matters.
MCBatches ==
    {<< >>} \cup {<<Upsert(k)>> : k \in Keys} \cup {<<Remove(k)>> : k \in Keys}
            \cup {<<Upsert(k1), Upsert(k2)>>,
                  <<Upsert(k1), Remove(k1)>>, <<Remove(k1), Upsert(k1)>>}
=============================================================================
