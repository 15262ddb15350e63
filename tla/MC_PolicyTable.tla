--------------------------- MODULE MC_PolicyTable ---------------------------
(* Small instances of PolicyTable.                                         *)
EXTENDS PolicyTable

CONSTANTS o1, o2, o3

MCObjects == {o1, o2, o3}

\* o1 and o2 are ConfigSchemas of one name in two namespaces.
MCNameOf == [o \in MCObjects |-> IF o = o3 THEN "own" ELSE "shared"]
=============================================================================
