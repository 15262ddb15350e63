---------------------------- MODULE AtomicCache ----------------------------
(***************************************************************************)
(* What konfig's snapshot caches promise their callers: one map from keys  *)
(* to entries; a write call takes effect at one instant, on the map as it  *)
(* is at that instant, or (the writer panicked) not at all; a read call    *)
(* sees the whole map as it is at one instant.                             *)
(* CowCache.tla, the copy-on-write algorithm, implements this.             *)
(***************************************************************************)
EXTENDS Naturals, Sequences

CONSTANTS
    Writers,    \* tasks that write: the watchers
    Readers,    \* RPC handlers that read
    Keys,       \* cache keys, the (namespace, name) pairs
    Versions,   \* what distinguishes one snapshot of an object from another
    Batches,    \* the mutation sequences a writer may pass
    Absent,     \* the value of a key the map does not hold
    NoOp        \* the task has no call in progress

Entry == [version : Versions, stale : BOOLEAN]
Fresh == [version : Versions, stale : {FALSE}]
Map   == [Keys -> Entry \cup {Absent}]

\* One staged mutation: Upsert carries the snapshot, Remove has entry Absent.
Mutation == [key : Keys, entry : Fresh \cup {Absent}]

\* A write call: mark_all_stale, or the mutations of update, remove, apply_batch.
Op == [markStale : BOOLEAN, muts : Batches]

\* Flag every entry the map holds.
Stale(m) ==
    [k \in Keys |-> IF m[k] = Absent THEN Absent ELSE [m[k] EXCEPT !.stale = TRUE]]

\* The mutations among the first n of muts that touch k.
Touching(muts, n, k) == {i \in 1..n : muts[i].key = k}

\* The last position of a non-empty set of positions.
Latest(S) == CHOOSE i \in S : \A j \in S : j <= i

\* The first n mutations of muts applied to m: per key, the last one wins.
LastWins(m, muts, n) ==
    [k \in Keys |->
        IF Touching(muts, n, k) = {} THEN m[k]
        ELSE muts[Latest(Touching(muts, n, k))].entry]

Effect(m, op) == IF op.markStale THEN Stale(m) ELSE LastWins(m, op.muts, Len(op.muts))
-----------------------------------------------------------------------------
VARIABLES
    map,        \* the published map
    pending,    \* per writer: the call that has not taken effect yet
    view        \* per reader: the map its read saw, until the read returns

avars == <<map, pending, view>>

AInit ==
    /\ map = [k \in Keys |-> Absent]
    /\ pending = [w \in Writers |-> NoOp]
    /\ view = [r \in Readers |-> NoOp]

\* A write call arrives.
Call(w, op) ==
    /\ pending[w] = NoOp
    /\ pending' = [pending EXCEPT ![w] = op]
    /\ UNCHANGED <<map, view>>

\* The call takes effect on the current map.
Commit(w) ==
    /\ pending[w] # NoOp
    /\ map' = Effect(map, pending[w])
    /\ pending' = [pending EXCEPT ![w] = NoOp]
    /\ UNCHANGED view

\* The writer panicked before its effect: nothing happened.
Abort(w) ==
    /\ pending[w] # NoOp
    /\ pending' = [pending EXCEPT ![w] = NoOp]
    /\ UNCHANGED <<map, view>>

\* A read sees the whole current map.
Read(r) ==
    /\ view[r] = NoOp
    /\ view' = [view EXCEPT ![r] = map]
    /\ UNCHANGED <<map, pending>>

Answer(r) ==
    /\ view[r] # NoOp
    /\ view' = [view EXCEPT ![r] = NoOp]
    /\ UNCHANGED <<map, pending>>

ANext ==
    \/ \E w \in Writers : \/ \E op \in Op : Call(w, op)
                          \/ Commit(w)
                          \/ Abort(w)
    \/ \E r \in Readers : Read(r) \/ Answer(r)

ASpec == AInit /\ [][ANext]_avars
=============================================================================
