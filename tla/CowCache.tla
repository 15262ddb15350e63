------------------------------ MODULE CowCache ------------------------------
(***************************************************************************)
(* The copy-on-write map behind ConfigCache and SecretCache                *)
(* (rust/konfig/cow_cache.rs).  Writers take write_lock, load the          *)
(* published map, clone it, change the clone and store it with one pointer *)
(* swap; readers load the pointer without the lock and iterate over what   *)
(* they loaded.  Each atomic access is an action, so writers and readers   *)
(* interleave between any two of them.                                     *)
(***************************************************************************)
EXTENDS Naturals, Sequences, FiniteSets

CONSTANTS Writers, Readers, Keys, Versions, Batches, Absent, NoOp,
    Namespace,   \* the namespace part of each key
    Nobody       \* the owner of a free lock

VARIABLES
    inner,       \* the map behind the ArcSwap pointer
    writeLock,   \* the holder of write_lock
    pc,          \* per writer: its place in the write path
    op,          \* per writer: the call it is executing
    next,        \* per writer: its private clone of the map
    done,        \* per writer: how many mutations of the call the clone has
    entriesGauge,\* the konfig_cache_entries gauge
    rpc,         \* per reader: its place in the read path
    want,        \* per reader: the keys it asked for
    todo,        \* per reader: the keys of guard not visited yet
    guard,       \* per reader: the map its pointer load returned
    out          \* per reader: the pairs collected so far

wvars == <<inner, writeLock, pc, op, next, done, entriesGauge>>
rvars == <<rpc, want, todo, guard, out>>
vars  == <<inner, writeLock, pc, op, next, done, entriesGauge,
           rpc, want, todo, guard, out>>

\* The atomic map this algorithm implements: a call is pending until its
\* store, a reader's view is the map its load returned until it returns.
Atomic == INSTANCE AtomicCache WITH
    map     <- inner,
    pending <- [w \in Writers |-> IF pc[w] \in {"called", "locked", "cloned"}
                                  THEN op[w] ELSE NoOp],
    view    <- [r \in Readers |-> IF rpc[r] = "iterating" THEN guard[r] ELSE NoOp]

Entry    == Atomic!Entry
Fresh    == Atomic!Fresh
Map      == Atomic!Map
Mutation == Atomic!Mutation
Op       == Atomic!Op

ASSUME CacheAssumption ==
    /\ Absent \notin Entry
    /\ NoOp \notin Op \cup Map
    /\ Nobody \notin Writers
    /\ Batches \subseteq Seq(Mutation)
    /\ << >> \in Batches
    /\ \A m \in Mutation : <<m>> \in Batches

EmptyMap == [k \in Keys |-> Absent]
Size(m) == Cardinality({k \in Keys : m[k] # Absent})

\* What a read of the keys ks of m returns.
Pairs(m, ks) == {<<k, m[k]>> : k \in {x \in ks : m[x] # Absent}}

InNamespace(ns) == {k \in Keys : Namespace[k] = ns}

Init ==
    /\ inner = EmptyMap
    /\ writeLock = Nobody
    /\ pc = [w \in Writers |-> "idle"]
    /\ op = [w \in Writers |-> NoOp]
    /\ next = [w \in Writers |-> EmptyMap]
    /\ done = [w \in Writers |-> 0]
    /\ entriesGauge = 0
    /\ rpc = [r \in Readers |-> "idle"]
    /\ want = [r \in Readers |-> {}]
    /\ todo = [r \in Readers |-> {}]
    /\ guard = [r \in Readers |-> EmptyMap]
    /\ out = [r \in Readers |-> {}]
-----------------------------------------------------------------------------
(* Write calls.  Every one goes through the same lock, clone, store.       *)

Begin(w, o) ==
    /\ pc[w] = "idle"
    /\ pc' = [pc EXCEPT ![w] = "called"]
    /\ op' = [op EXCEPT ![w] = o]
    /\ UNCHANGED <<inner, writeLock, next, done, entriesGauge, rvars>>

update(w, k, e)   == Begin(w, [markStale |-> FALSE, muts |-> <<[key |-> k, entry |-> e]>>])
remove(w, k)      == Begin(w, [markStale |-> FALSE, muts |-> <<[key |-> k, entry |-> Absent]>>])
mark_all_stale(w) == Begin(w, [markStale |-> TRUE, muts |-> << >>])

\* An empty batch returns 0 before the lock: no clone, no swap.
apply_batch(w, b) == b # << >> /\ Begin(w, [markStale |-> FALSE, muts |-> b])

\* Mutant of Lock: no mutual exclusion of the writers.
LockWithoutWaiting(w) ==
    /\ pc[w] = "called"
    /\ writeLock' = w
    /\ pc' = [pc EXCEPT ![w] = "locked"]
    /\ UNCHANGED <<inner, op, next, done, entriesGauge, rvars>>

\* lock_recovered: a lock a panicking holder poisoned is taken all the same.
Lock(w) ==
    /\ pc[w] = "called"
    /\ writeLock = Nobody
    /\ writeLock' = w
    /\ pc' = [pc EXCEPT ![w] = "locked"]
    /\ UNCHANGED <<inner, op, next, done, entriesGauge, rvars>>

\* Mutant of LoadAndClone: the next map starts empty.
CloneNothing(w) ==
    /\ pc[w] = "locked"
    /\ next' = [next EXCEPT ![w] = EmptyMap]
    /\ pc' = [pc EXCEPT ![w] = "cloned"]
    /\ UNCHANGED <<inner, writeLock, op, done, entriesGauge, rvars>>

\* let current = self.inner.load(); let mut next = (**current).clone();
LoadAndClone(w) ==
    /\ pc[w] = "locked"
    /\ next' = [next EXCEPT ![w] = inner]
    /\ pc' = [pc EXCEPT ![w] = "cloned"]
    /\ UNCHANGED <<inner, writeLock, op, done, entriesGauge, rvars>>

\* The number of loop iterations a call makes over its clone.
Work(o) == IF o.markStale THEN 1 ELSE Len(o.muts)

\* One mutation of the clone, in the order of the batch.
Mutate(w) ==
    /\ pc[w] = "cloned"
    /\ done[w] < Work(op[w])
    /\ LET m == op[w].muts[done[w] + 1]
       IN  next' = [next EXCEPT ![w] =
                        IF op[w].markStale THEN Atomic!Stale(next[w])
                        ELSE [next[w] EXCEPT ![m.key] = m.entry]]
    /\ done' = [done EXCEPT ![w] = @ + 1]
    /\ UNCHANGED <<inner, writeLock, pc, op, entriesGauge, rvars>>

\* Mutant of Store: the lock guard drops before record_write.
StoreAndUnlock(w) ==
    /\ pc[w] = "cloned"
    /\ done[w] = Work(op[w])
    /\ inner' = next[w]
    /\ writeLock' = Nobody
    /\ pc' = [pc EXCEPT ![w] = "stored"]
    /\ UNCHANGED <<op, next, done, entriesGauge, rvars>>

\* self.inner.store(Arc::new(next))
Store(w) ==
    /\ pc[w] = "cloned"
    /\ done[w] = Work(op[w])
    /\ inner' = next[w]
    /\ pc' = [pc EXCEPT ![w] = "stored"]
    /\ UNCHANGED <<writeLock, op, next, done, entriesGauge, rvars>>

\* record_write runs while the lock guard is still alive.
record_write(w) ==
    /\ pc[w] = "stored"
    /\ entriesGauge' = Size(next[w])
    /\ pc' = [pc EXCEPT ![w] = "recorded"]
    /\ UNCHANGED <<inner, writeLock, op, next, done, rvars>>

\* The lock guard drops and the call's locals go out of scope.
Leave(w) ==
    /\ writeLock' = Nobody
    /\ pc' = [pc EXCEPT ![w] = "idle"]
    /\ op' = [op EXCEPT ![w] = NoOp]
    /\ next' = [next EXCEPT ![w] = EmptyMap]
    /\ done' = [done EXCEPT ![w] = 0]
    /\ UNCHANGED <<inner, entriesGauge, rvars>>

Unlock(w) == pc[w] = "recorded" /\ Leave(w)

\* A panic while cloning or mutating unwinds: the guard drops, the clone is lost.
Panic(w) == pc[w] \in {"locked", "cloned"} /\ Leave(w)
-----------------------------------------------------------------------------
(* Read calls: get asks for one key, all_in_namespace for a namespace's.   *)

BeginRead(r, ks) ==
    /\ rpc[r] = "idle"
    /\ rpc' = [rpc EXCEPT ![r] = "called"]
    /\ want' = [want EXCEPT ![r] = ks]
    /\ UNCHANGED <<todo, guard, out, wvars>>

get(r, k)               == BeginRead(r, {k})
all_in_namespace(r, ns) == BeginRead(r, InNamespace(ns))

\* Mutant of Load: readers wait for the write lock.
LoadUnderLock(r) ==
    /\ rpc[r] = "called"
    /\ writeLock = Nobody
    /\ guard' = [guard EXCEPT ![r] = inner]
    /\ todo' = [todo EXCEPT ![r] = want[r]]
    /\ rpc' = [rpc EXCEPT ![r] = "iterating"]
    /\ UNCHANGED <<want, out, wvars>>

\* let guard = self.inner.load(): no lock.
Load(r) ==
    /\ rpc[r] = "called"
    /\ guard' = [guard EXCEPT ![r] = inner]
    /\ todo' = [todo EXCEPT ![r] = want[r]]
    /\ rpc' = [rpc EXCEPT ![r] = "iterating"]
    /\ UNCHANGED <<want, out, wvars>>

\* Mutant of Visit: each key is read from the map published at that moment.
VisitPublished(r, k) ==
    /\ rpc[r] = "iterating"
    /\ k \in todo[r]
    /\ out' = [out EXCEPT ![r] = @ \cup Pairs(inner, {k})]
    /\ todo' = [todo EXCEPT ![r] = @ \ {k}]
    /\ UNCHANGED <<rpc, want, guard, wvars>>

\* for (k, v) in guard.iter(): hash order.
Visit(r, k) ==
    /\ rpc[r] = "iterating"
    /\ k \in todo[r]
    /\ out' = [out EXCEPT ![r] = @ \cup Pairs(guard[r], {k})]
    /\ todo' = [todo EXCEPT ![r] = @ \ {k}]
    /\ UNCHANGED <<rpc, want, guard, wvars>>

Return(r) ==
    /\ rpc[r] = "iterating"
    /\ todo[r] = {}
    /\ rpc' = [rpc EXCEPT ![r] = "idle"]
    /\ want' = [want EXCEPT ![r] = {}]
    /\ guard' = [guard EXCEPT ![r] = EmptyMap]
    /\ out' = [out EXCEPT ![r] = {}]
    /\ UNCHANGED <<todo, wvars>>
-----------------------------------------------------------------------------
Write(w) ==
    \/ \E k \in Keys, e \in Fresh : update(w, k, e)
    \/ \E k \in Keys : remove(w, k)
    \/ mark_all_stale(w)
    \/ \E b \in Batches : apply_batch(w, b)

WriterStep(w) ==
    \/ Lock(w) \/ LoadAndClone(w) \/ Mutate(w) \/ Store(w)
    \/ record_write(w) \/ Unlock(w) \/ Panic(w)

Request(r) ==
    \/ \E k \in Keys : get(r, k)
    \/ \E k \in Keys : all_in_namespace(r, Namespace[k])

ReaderStep(r) == Load(r) \/ (\E k \in Keys : Visit(r, k)) \/ Return(r)

Next ==
    \/ \E w \in Writers : Write(w) \/ WriterStep(w)
    \/ \E r \in Readers : Request(r) \/ ReaderStep(r)

\* Only the readers are assumed to run: a writer may stop at any point,
\* even inside its critical section.
Fairness == \A r \in Readers : WF_vars(ReaderStep(r))

Spec == Init /\ [][Next]_vars
FairSpec == Spec /\ Fairness
-----------------------------------------------------------------------------
(* Properties.                                                             *)

\* Every variable stays in its range.
TypeOK ==
    /\ inner \in Map
    /\ writeLock \in Writers \cup {Nobody}
    /\ pc \in [Writers -> {"idle", "called", "locked", "cloned", "stored", "recorded"}]
    /\ op \in [Writers -> Op \cup {NoOp}]
    /\ next \in [Writers -> Map]
    /\ done \in [Writers -> Nat]
    /\ rpc \in [Readers -> {"idle", "called", "iterating"}]
    /\ want \in [Readers -> SUBSET Keys]
    /\ todo \in [Readers -> SUBSET Keys]
    /\ guard \in [Readers -> Map]
    /\ out \in [Readers -> SUBSET (Keys \X Entry)]

Critical == {"locked", "cloned", "stored", "recorded"}

\* A writer past the lock call holds write_lock, and a held lock has such a writer.
LockHeld ==
    /\ \A w \in Writers : pc[w] \in Critical <=> writeLock = w
    /\ \A w \in Writers : pc[w] # "idle" => op[w] \in Op

\* No lost update: while a writer changes its clone, the clone is exactly the
\* published map plus the mutations it has made so far (update, apply_batch and
\* mark_all_stale re-load inner under the lock), so the store discards nobody's write.
NoLostUpdate ==
    \A w \in Writers : pc[w] = "cloned" =>
        /\ done[w] <= Work(op[w])
        /\ next[w] = IF op[w].markStale
                     THEN IF done[w] = 0 THEN inner ELSE Atomic!Stale(inner)
                     ELSE Atomic!LastWins(inner, op[w].muts, done[w])

\* Outside a write the konfig_cache_entries gauge is the number of entries:
\* record_write runs before the lock guard drops, so two writers cannot leave
\* the gauge at the length of a map that was overwritten.
GaugeAgrees == writeLock = Nobody => entriesGauge = Size(inner)

\* all_in_namespace returns the entries of one published map, never a mixture
\* of two, however many stores happen while it iterates.
ReadIsSnapshot ==
    \A r \in Readers : rpc[r] = "iterating" /\ todo[r] = {} =>
        out[r] = Pairs(guard[r], want[r])

(* The invariants above are inductive together with what has to be known   *)
(* of a writer's locals outside the mutation loop and of a running read.   *)

\* A call that has not cloned yet has mutated nothing.
NothingDone == \A w \in Writers : pc[w] \in {"idle", "called", "locked"} => done[w] = 0

\* The map a writer stored stays published until it unlocks.
StoredIsPublished == \A w \in Writers : pc[w] \in {"stored", "recorded"} => next[w] = inner

GaugeTracks == (\A w \in Writers : pc[w] # "stored") => entriesGauge = Size(inner)

\* A running read has collected its guard's entries for the visited keys.
ReadProgress ==
    \A r \in Readers :
        /\ todo[r] \subseteq want[r]
        /\ out[r] = IF rpc[r] = "iterating" THEN Pairs(guard[r], want[r] \ todo[r]) ELSE {}
        /\ rpc[r] # "iterating" => todo[r] = {}

IndInv ==
    /\ TypeOK /\ LockHeld /\ NoLostUpdate /\ NothingDone
    /\ StoredIsPublished /\ GaugeTracks /\ ReadProgress

\* The copy-on-write algorithm implements the atomic map: a call takes effect
\* once, at its store, on the map published at that instant.
ImplementsAtomicCache == Atomic!ASpec

\* Reads are lock-free: a read call returns even if the writer that holds
\* write_lock never runs again.
ReadersNeverWait == \A r \in Readers : rpc[r] = "called" ~> rpc[r] = "idle"
=============================================================================
