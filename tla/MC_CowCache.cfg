SPECIFICATION FairSpec
CONSTANTS
    k1 = k1
    k2 = k2
    Keys = {k1, k2}
    Namespace <- MCNamespace
    Writers = {w1, w2}
    Readers = {r1}
    Versions = {1}
    Batches <- MCBatches
    Absent = Absent
    NoOp = NoOp
    Nobody = Nobody
INVARIANTS NoLostUpdate GaugeAgrees ReadIsSnapshot
PROPERTIES ImplementsAtomicCache ReadersNeverWait
